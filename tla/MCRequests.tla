----------------------------- MODULE MCRequests -----------------------------
\* Every method of every service, with each parameter that may be left out
\* there or not, at most AtOnce of them out of the ordinary, and any of the
\* addresses missing.
EXTENDS Requests
=============================================================================
