---- MODULE MCFileCapture ----
EXTENDS FileCapture, TLC

CONSTANTS c1, c2, p1, p2

(* Two uploads of one file that discovery for downloads has passed. *)
Passed == { [id |-> 1, kind |-> "upload", file |-> c1, hashed |-> TRUE],
            [id |-> 2, kind |-> "upload", file |-> c1, hashed |-> TRUE] }
None == {}

====
