----------------------------- MODULE MC_Console -----------------------------
EXTENDS Console

(* NUL ^D ^L Enter ESC 3 4 5 ; ? A M O P [ q ~ and bytes that continue a   *)
(* Unicode character, start one of two, and start none.                    *)
MCChars == {0, 4, 12, 13, 27, 51, 52, 53, 59, 63, 65, 77, 79, 80, 91, 113, 126,
            128, 195, 248}
MCWindows == {"err_log"}
=============================================================================
