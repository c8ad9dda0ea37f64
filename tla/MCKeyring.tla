----------------------------- MODULE MCKeyring -----------------------------
\* Keyring with small bounds: see the README for why they are enough.
EXTENDS Keyring

OneAtATime == {"p"}
TwoAtOnce  == {"p", "q"}
=============================================================================
