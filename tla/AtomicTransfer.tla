---------------------------- MODULE AtomicTransfer ----------------------------
(***************************************************************************)
(* What a file transfer promises its caller, whatever moves the bytes: the *)
(* destination appears once and whole, a source is deleted only after      *)
(* that and only in the version that was copied, and a definite failure    *)
(* means that the destination will never appear.                           *)
(***************************************************************************)
EXTENDS Naturals

CONSTANTS
    Whole,      \* the complete content of the probed version
    Absent      \* no file

VARIABLES
    version,    \* 0 while the source is what was probed, 1 once it was edited
    gone,       \* the source was deleted
    dst,        \* the destination
    told,       \* what the caller was told, "none" before
    route, mode

avars == <<version, gone, dst, told, route, mode>>

(* A push that timed out after its terminal is the one failure that does   *)
(* not rule the destination out.                                           *)
Definite(t) ==
    t \in {"failed", "cancelled"} \cup (IF route = "push" THEN {} ELSE {"timeout"})

AInit ==
    /\ version = 0 /\ gone = FALSE /\ dst = Absent /\ told = "none"
    /\ route \in {"push", "pull", "relay"} /\ mode \in {"copy", "move"}

Edit ==
    /\ ~gone /\ version' = 1
    /\ UNCHANGED <<gone, dst, told, route, mode>>

Commit ==
    /\ dst = Absent /\ told # "ok" /\ ~Definite(told)
    /\ dst' = Whole
    /\ UNCHANGED <<version, gone, told, route, mode>>

Report(t) ==
    /\ told = "none"
    /\ t = "ok" => dst = Whole
    /\ Definite(t) => dst = Absent
    /\ told' = t
    /\ UNCHANGED <<version, dst, route, mode>>
    /\ \/ UNCHANGED gone
       \/ t = "ok" /\ mode = "move" /\ version = 0 /\ gone' = TRUE

ANext ==
    \/ Edit \/ Commit
    \/ \E t \in {"ok", "failed", "timeout", "unknown", "cancelled"} : Report(t)

ASpec == AInit /\ [][ANext]_avars
===============================================================================
