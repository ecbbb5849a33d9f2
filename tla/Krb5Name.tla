------------------------------- MODULE Krb5Name -------------------------------
(* Principals as text (truenas_krb5): RawPrincipal::build escapes what     *)
(* krb5_parse_name would read as a separator.                              *)
EXTENDS Naturals, Sequences, SequencesExt

Escape(component) ==
    FlattenSeq([i \in DOMAIN component |->
        IF component[i] \in {"\\", "/", "@"}
        THEN <<"\\", component[i]>> ELSE <<component[i]>>])

Build(p) ==
    FlattenSeq([i \in DOMAIN p.components |->
        (IF i > 1 THEN <<"/">> ELSE <<>>) \o Escape(p.components[i])])
    \o <<"@">> \o Escape(p.realm)

\* krb5_parse_name: a quoted character is taken as it is, "/" starts the
\* next component and "@" the realm.
ParseName(text) ==
    LET Put(s, c) == [s EXCEPT !.parts[Len(s.parts)] = Append(@, c),
                               !.quoted = FALSE]
        Read(s, c) ==
            IF s.quoted THEN Put(s, c)
            ELSE CASE c = "\\" -> [s EXCEPT !.quoted = TRUE]
                   [] c \in {"/", "@"} -> [s EXCEPT !.parts = Append(@, <<>>)]
                   [] OTHER -> Put(s, c)
        parts == FoldLeft(Read, [parts |-> <<<<>>>>, quoted |-> FALSE],
                          text).parts
    IN  [components |-> Front(parts), realm |-> Last(parts)]
=============================================================================
