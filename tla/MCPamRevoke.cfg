CONSTANT MaxRounds = 1
SPECIFICATION AuthSpec
INVARIANT CredentialsRevokedAgain
