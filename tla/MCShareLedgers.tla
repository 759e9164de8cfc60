---------------------------- MODULE MCShareLedgers ----------------------------
(* Small instances of ShareLedgers: rows, budgets and bounds per channel. *)
EXTENDS ShareLedgers

MCServerOf == [u \in Site |-> IF u = "u3" THEN "h2" ELSE "h1"]

There(id, site, sha, shape) == Row(id, site, sha, 0, shape, 0, "there")
Sends(channel, rows, later, listed, mishaps, clicks, limit) ==
  [channel |-> channel, rows |-> rows, later |-> later, listed |-> listed,
   mishap |-> mishaps, click |-> clicks, limit |-> limit]

Fetched1 == There(1, "u1", "s1", "family")
Fetched2 == There(2, "u2", "s2", "family")

(* URLhaus: one URL, two buttons and the command; two URLs in a batch, one *)
(* of them listed; refused rows ahead of a good one, on a budget of one.   *)
(* ThreatFox: two URLs on one server; then a payload that rotates.         *)
(* MalwareBazaar: one sample under two URLs; a stage found in a script.    *)
MCErrand ==
  { Sends("urlhaus", {}, {Fetched1}, {}, 1, 2, 0),
    Sends("urlhaus", {Fetched1, Fetched2}, {}, { <<"url", "u2">> }, 1, 1, 0),
    Sends("urlhaus", {Fetched1, There(2, "u2", "s2", "none"), Row(3, "u3", "s3", 0, "script", 0, "there"),
                      Row(4, "u1", "s4", -1, "script", 0, "there"), Row(5, "u2", "s4", 9, "script", 0, "there")},
          {}, {}, 0, 1, 1),
    Sends("urlhaus", {Fetched1, Fetched2}, {}, {}, 2, 0, 0),
    Sends("threatfox", {Fetched1}, {}, { <<"host", "h1">> }, 0, 2, 1),
    Sends("threatfox", {Fetched1, Fetched2}, {}, {}, 0, 1, 1),
    Sends("threatfox", {Fetched1, Fetched2}, {}, { <<"host", "h1">> }, 2, 0, 1),
    Sends("threatfox", {Fetched1}, {There(2, "u1", "s2", "family")}, {}, 0, 1, 0),
    Sends("bazaar", {Fetched1, Row(2, "u2", "s1", 0, "script", 1, "none")}, {There(3, "u2", "s2", "script")}, {}, 1, 1, 1),
    Sends("bazaar", {Row(1, "u1", "s1", 0, "script", 1, "there"), Fetched2}, {}, {}, 1, 1, 1) }

(* A payload behind a URL that was submitted is replaced by another. *)
Rotated == { Sends("threatfox", {Fetched1}, {There(2, "u1", "s2", "family")}, {}, 0, 0, 0) }
===============================================================================
