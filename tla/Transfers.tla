------------------------------- MODULE Transfers -------------------------------
(***************************************************************************)
(* One file transfer end to end: the caller (file_transfer), the server's  *)
(* transfer manager or bridge, and the devices, over connections that can  *)
(* drop.  The route and the mode are chosen initially.                     *)
(***************************************************************************)
EXTENDS TransferBridge

\* The modes of a relay that are explored.  A relayed copy takes the steps of a
\* relayed move that finds its source disconnected before the deletion.
CONSTANT RelayModes
ASSUME RelayAssumption == RelayModes \subseteq {"copy", "move"}

tvars == <<cl, out, up, down, conn, disk, faults, sv, job, bs>>

Init ==
    /\ ClientInit /\ DirectInit /\ BridgeInit
    /\ \E route \in {"push", "pull", "relay"}, mode \in {"copy", "move"} :
         /\ route = "relay" => mode \in RelayModes
         /\ job = [route |-> route, mode |-> mode, told |-> "none", lease |-> TRUE,
                   cancelled |-> FALSE]

Devices == CASE job.route = "push" -> {"dst"} [] job.route = "pull" -> {"src"} [] OTHER -> Ends

DeviceStep == \E e \in Devices : ClientStep(e) /\ UNCHANGED <<sv, job, bs>>
Environment ==
    \/ \E e \in Devices : Lose(e) /\ UNCHANGED <<sv, job, bs>>
    \/ Touch /\ UNCHANGED <<sv, job, bs>>
    \/ CancelDirect /\ UNCHANGED bs
    \/ BridgeCancelCaller

Work == DeviceStep \/ (DirectStep /\ UNCHANGED bs) \/ BridgeSteps

(* Every device has retired its slot.                                      *)
Settled ==
    /\ \A e \in Devices : cl[e].life # "slot" /\ cl[e].pc = "none"
    /\ UNCHANGED tvars

Next == Work \/ Environment \/ Settled

(***************************************************************************)
(* Properties.                                                             *)
(***************************************************************************)
Promise == INSTANCE AtomicTransfer WITH
    Whole <- [i \in 1..Chunks |-> 0], Absent <- NoFile,
    version <- disk.src, gone <- disk.gone, dst <- disk.dst, told <- job.told,
    route <- job.route, mode <- job.mode

(* Every route implements AtomicTransfer: the no-replace commits, the      *)
(* digest comparison, the conditional source deletion after the            *)
(* acknowledgement, and the choice between a definite error and "outcome   *)
(* unknown" together hide all chunks, terminals and tombstones.            *)
AtomicOutcome == Promise!ASpec

(* A retired device slot has given back its temporary file, path lock and  *)
(* transfer lease (_cleanup_slot, the drain of an abandoned thread), and   *)
(* the caller's operation lease is back once it was told.                  *)
NothingLeaked ==
    scene = "file" =>
    /\ \A e \in Ends : cl[e].pc = "none" => ~cl[e].temp /\ ~cl[e].lock /\ ~cl[e].lease
    /\ job.told # "none" => ~job.lease /\ sv.life # "slot" /\ bs.life # "slot" /\ bs.credits = 0

(* PROTOCOL.md 4.4: the source of a relay gets one acknowledgement of the  *)
(* terminal race: never the destination's result and its own timeout both, *)
(* neither together on the wire nor one after the other has been taken.    *)
OneSourceAnswer ==
    scene = "file" /\ job.route = "relay" =>
        Cardinality({f \in Range(down["src"]) : f.t = "end" /\ f.ack}) <= IF cl["src"].acked THEN 0 ELSE 1
===============================================================================
