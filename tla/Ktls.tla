--------------------------------- MODULE Ktls ---------------------------------
(***************************************************************************)
(* truenas_ktls: Acceptor::accept, from the socket's flags to the kernel's *)
(* crypto state.  Two pieces of thread state outlive a call: errno, which  *)
(* every later call may replace, and libssl's error queue, which earlier   *)
(* calls of the thread may have left entries in and which SSL_get_error    *)
(* reads.                                                                  *)
(***************************************************************************)
EXTENDS Naturals, Sequences

VARIABLES
    sslAt,    \* the step accept is at
    sock,     \* the socket: its flag, and what the kernel holds for it
    asked,    \* the acceptor asks for TLS_RX_EXPECT_NO_PAD
    errno,    \* the thread's errno
    queue,    \* the thread's libssl error queue: the reasons in it
    saw,      \* what accept has read so far: errno, code and stack
    happened, \* ghost: what became of the handshake
    result    \* what accept returned

ktlsVars == <<sslAt, sock, asked, errno, queue, saw, happened, result>>

\* How SSL_accept may end: done, the socket timeout, a peer that closed the
\* session, a system error, or a failure libssl names on its queue.
Endings ==
    [kind : {"done"}, version : {"TLSv1.2", "TLSv1.3"}, errno : {"0"}]
    \cup [kind : {"timeout", "closed"}, errno : {"0", "EAGAIN"}]
    \cup [kind : {"syscall"}, errno : {"0", "ECONNRESET", "EPIPE", "ENETDOWN"}]
    \cup [kind : {"eof", "alert"}, errno : {"0", "EINTR"}]

NotRead == [errno |-> "", code |-> "", stack |-> {}]

KtlsInit ==
    /\ sslAt = "rest" /\ asked = TRUE
    /\ sock = [nonblock |-> FALSE, tx |-> FALSE, rx |-> FALSE, nopad |-> FALSE]
    /\ errno = "0" /\ queue = {} /\ saw = NotRead
    /\ happened = [kind |-> "none"] /\ result = [err |-> "none"]

Returns(r) == result' = r /\ sslAt' = "done"

-----------------------------------------------------------------------------
\* Anything else the thread does with libssl or the system in between, a
\* failed from_pem_files of a rotated certificate for one, and then a new
\* connection, whose socket may be non-blocking, and an acceptor to use.
Elsewhere ==
    /\ sslAt = "rest"
    /\ queue' \in {queue, queue \cup {"no certificate"},
                   queue \cup {"unexpected eof"}}
    /\ errno' \in {errno, "ENOENT", "ECONNRESET"}
    /\ \E nb \in BOOLEAN :
        sock' = [nonblock |-> nb, tx |-> FALSE, rx |-> FALSE, nopad |-> FALSE]
    /\ sslAt' = "accept"
    /\ asked' \in BOOLEAN
    /\ result' = [err |-> "none"] /\ happened' = [kind |-> "none"]
    /\ saw' = NotRead

\* confirm_blocking: F_GETFL may fail, and a non-blocking socket is refused.
confirm_blocking ==
    /\ sslAt = "accept"
    /\ \/ Returns([err |-> "Io"])
       \/ sock.nonblock /\ Returns([err |-> "NonBlocking"])
       \/ ~sock.nonblock /\ sslAt' = "blocking" /\ UNCHANGED result
    /\ UNCHANGED <<sock, asked, errno, queue, saw, happened>>

\* The SSL and the BIO of the call; an allocation that fails drains its own
\* errors.
Prepare ==
    /\ sslAt = "blocking"
    /\ \/ Returns([err |-> "Handshake"]) /\ queue' = {}
       \/ sslAt' = "handshake" /\ UNCHANGED <<queue, result>>
    /\ UNCHANGED <<sock, asked, errno, saw, happened>>

\* The queue as SSL_accept finds it: ERR_clear_error comes just before.
Cleared_Not == queue
Cleared == {}

\* SSL_accept on the blocking socket; on success libssl has asked the kernel
\* to take the crypto state over, which it may do for neither, one or both
\* directions.
SSL_accept ==
    /\ sslAt = "handshake"
    /\ \E e \in Endings :
        /\ errno' = e.errno /\ happened' = e
        /\ queue' = CASE e.kind = "eof" -> Cleared \cup {"unexpected eof"}
                      [] e.kind = "alert" -> Cleared \cup {"alert"}
                      [] OTHER -> Cleared
        /\ sslAt' = IF e.kind = "done" THEN "engaged?" ELSE "errno"
        /\ IF e.kind = "done"
           THEN \E tx, rx \in BOOLEAN : sock' = [sock EXCEPT !.tx = tx, !.rx = rx]
           ELSE UNCHANGED sock
    /\ UNCHANGED <<asked, saw, result>>

\* errno is read before any other call of the failure path.
ReadErrno ==
    /\ sslAt = "errno"
    /\ saw' = [saw EXCEPT !.errno = errno]
    /\ sslAt' = "code"
    /\ UNCHANGED <<sock, asked, errno, queue, happened, result>>

\* SSL_get_error looks at the queue before anything else, and may replace
\* errno.
Code ==
    IF queue # {} THEN "SSL_ERROR_SSL"
    ELSE CASE happened.kind = "timeout" -> "SSL_ERROR_WANT_READ"
           [] happened.kind = "closed" -> "SSL_ERROR_ZERO_RETURN"
           [] OTHER -> "SSL_ERROR_SYSCALL"

SSL_get_error ==
    /\ sslAt = "code"
    /\ saw' = [saw EXCEPT !.code = Code]
    /\ errno' \in {errno, "0", "EINVAL"}
    /\ sslAt' = "stack"
    /\ UNCHANGED <<sock, asked, queue, happened, result>>

\* The queue is drained whatever the code says.
TakeStack ==
    /\ sslAt = "stack"
    /\ saw' = [saw EXCEPT !.stack = queue]
    /\ queue' = {}
    /\ sslAt' = "classify"
    /\ UNCHANGED <<sock, asked, errno, happened, result>>

Classify(code, err, stack) ==
    CASE code = "SSL_ERROR_WANT_READ" -> [err |-> "Stalled"]
      [] code = "SSL_ERROR_ZERO_RETURN" -> [err |-> "Disconnected"]
      [] code = "SSL_ERROR_SYSCALL" ->
           IF err \in {"0", "ECONNRESET", "EPIPE"}
           THEN [err |-> "Disconnected"] ELSE [err |-> "Io", errno |-> err]
      [] OTHER -> IF "unexpected eof" \in stack
                  THEN [err |-> "Disconnected"] ELSE [err |-> "Handshake"]

ReturnError ==
    /\ sslAt = "classify"
    /\ Returns(Classify(saw.code, saw.errno, saw.stack))
    /\ UNCHANGED <<sock, asked, errno, queue, saw, happened>>

\* confirm_engaged reads both directions back.
Engaged == sock.tx /\ sock.rx

confirm_engaged ==
    /\ sslAt = "engaged?"
    /\ IF Engaged
       THEN sslAt' = "nopad?" /\ UNCHANGED result
       ELSE Returns([err |-> "NotEngaged",
                  direction |-> IF sock.tx THEN "RX" ELSE "TX"])
    /\ UNCHANGED <<sock, asked, errno, queue, saw, happened>>

\* install_rx_no_pad, on TLS 1.3 only: set and read back, either of which
\* may fail.
install_rx_no_pad ==
    /\ sslAt = "nopad?"
    /\ LET want == asked /\ happened.version = "TLSv1.3"
       IN  \/ /\ ~want /\ UNCHANGED sock
              /\ Returns([err |-> "none", nopad |-> FALSE])
           \/ /\ want /\ sock' = [sock EXCEPT !.nopad = TRUE]
              /\ Returns([err |-> "none", nopad |-> TRUE])
           \/ /\ want /\ UNCHANGED sock
              /\ Returns([err |-> "Io", errno |-> "EINVAL"])
    /\ UNCHANGED <<asked, errno, queue, saw, happened>>

Done ==
    /\ sslAt = "done"
    /\ sslAt' = "rest"
    /\ UNCHANGED <<sock, asked, errno, queue, saw, happened, result>>

KtlsNext ==
    \/ Elsewhere \/ confirm_blocking \/ Prepare \/ SSL_accept \/ ReadErrno
    \/ SSL_get_error \/ TakeStack \/ ReturnError \/ confirm_engaged \/ install_rx_no_pad
    \/ Done

KtlsSpec == KtlsInit /\ [][KtlsNext]_ktlsVars

-----------------------------------------------------------------------------
\* What accept returns is about the handshake it made: a peer that left is
\* Disconnected, a timeout Stalled, a system error its own errno, whatever
\* the thread's error queue and errno held before and whatever the calls in
\* between did to them, and nothing of it stays on the queue; a connection
\* is returned only when the kernel holds both directions, with the option
\* it reports installed.
ResultIsTheHandshakes ==
    sslAt = "done" /\ happened.kind # "none" =>
        /\ CASE happened.kind = "done" ->
                  result.err = "none" =>
                    /\ sock.tx /\ sock.rx /\ result.nopad = sock.nopad
                    /\ sock.nopad => happened.version = "TLSv1.3"
             [] happened.kind = "timeout" -> result.err = "Stalled"
             [] happened.kind \in {"closed", "eof"} ->
                  result.err = "Disconnected"
             [] happened.kind = "alert" -> result.err = "Handshake"
             [] OTHER ->
                  IF happened.errno = "ENETDOWN"
                  THEN result = [err |-> "Io", errno |-> "ENETDOWN"]
                  ELSE result.err = "Disconnected"
        /\ queue = {}
=============================================================================
