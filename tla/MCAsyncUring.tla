----------------------------- MODULE MCAsyncUring -----------------------------
(* The io_uring backend with rings of two entries and two requests.      *)
EXTENDS AsyncUring

CONSTANTS r, w

MCId == {r, w}
MCWanted == {[id |-> r, op |-> "read"], [id |-> w, op |-> "write"]}
=============================================================================
