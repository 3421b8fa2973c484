---------------------------- MODULE MC_FakeGuv ------------------------------
(* The registers that the commands of the run write to. *)
EXTENDS FakeGuv

LogAndInject == {"log_cnt", "inj_TVALID", "inj_TDATA"}
=============================================================================
