----------------------------- MODULE MCDispatch -----------------------------
(* A call over two working channels and a broken one, with the retries of *)
(* cmd/holonet/main.go:271; a timeout is two units of time.                *)
EXTENDS Dispatch, TLC

CONSTANTS c1, c2, broken
=============================================================================
