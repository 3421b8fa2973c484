------------------------------- MODULE MC_Fio -------------------------------
(* A file of two-byte words, and the commands of each run. *)
EXTENDS Fio

Unattended == {}
Paused == {"pause", "cont"}
Managers == {"mgr"}
Everything == {"pause", "cont", "latch", "badfile", "mgr"}

(* What has been injected so far, and the count on display, decide nothing. *)
Control == <<send_state, resume_pos, send_retries, send_pause, buffer, file, timers, inj_failed,
             to_dev, to_host, dev.valid, dev.live, user, fault>>
=============================================================================
