----------------------------- MODULE MC_LogFile -----------------------------
(* Two logs of three bytes, told apart by every byte. *)
EXTENDS LogFile

MCLogs == {[i \in 1 .. 3 |-> <<l, i>>] : l \in {"a", "b"}}
MCBlank == <<"blank", 0>>
=============================================================================
