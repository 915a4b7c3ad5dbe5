------------------------------ MODULE Channels ------------------------------
(***************************************************************************)
(* The external channels: deliveries (ChannelDelivery), connections        *)
(* (ChannelManager) and incoming messages (ChannelIngress).  The three     *)
(* meet only in the stored configuration and the current runtime, which    *)
(* each module lets its environment change; a behaviour follows one of     *)
(* them, or only looks at how a text is split.                             *)
(***************************************************************************)
EXTENDS ChannelManager, ChannelIngress, ChannelDelivery

VARIABLE scene

chanvars == <<scene, mgrvars, invars, dlvvars>>

MCKeyOf == [c \in Call |-> IF c \in ToolCalls THEN "k1" ELSE "k2"]
MCBefore == [c \in Call |-> IF c \in ToolCalls THEN {} ELSE {"tool"}]
MCTexts == Strings(5)
MCKinds == [o \in Reqst |-> IF o = "o1" THEN {"bot", "delete"} ELSE {"allow", "cred", "pair"}]
MCFrom == [m \in Msg |-> IF m \in {"codeB", "pic"} THEN "bob" ELSE "ann"]
MCCarries == [m \in Msg |-> CASE m \in {"codeA", "codeB"} -> "code"
                              [] m = "pic" -> "file"
                              [] OTHER -> "both"]
MCQuotes == [m \in Msg |-> IF m = "codeB" THEN {"photo"} ELSE {}]

ChannelsInit ==
    /\ scene \in {"text", "delivery", "connection", "message"}
    /\ ManagerInit /\ IngressInit /\ DeliveryInit
    /\ scene # "text" => text = <<"a">>
    /\ scene # "delivery" => platform = "discord"
    /\ scene # "message" => bind.owner = "ann"

ChannelsNext ==
    /\ UNCHANGED scene
    /\ \/ scene = "delivery" /\ DeliveryNext /\ UNCHANGED <<mgrvars, invars>>
       \/ scene = "connection" /\ ManagerNext /\ UNCHANGED <<invars, dlvvars>>
       \/ scene = "message" /\ IngressNext /\ UNCHANGED <<mgrvars, dlvvars>>

ChannelsProgress ==
    /\ UNCHANGED scene
    /\ \/ scene = "delivery" /\ DeliveryProgress /\ UNCHANGED <<mgrvars, invars>>
       \/ scene = "connection" /\ ManagerProgress /\ UNCHANGED <<invars, dlvvars>>
       \/ scene = "message" /\ IngressProgress /\ UNCHANGED <<mgrvars, dlvvars>>

ChannelsSpec == ChannelsInit /\ [][ChannelsNext]_chanvars /\ WF_chanvars(ChannelsProgress)

(* Whatever is begun ends and what is configured comes up: every delivery  *)
(* returns, although the platform may never answer; the events in progress *)
(* when ingress closes its gate end, so drain() returns; a configured      *)
(* channel is online again after failed starts, lost connections, failed   *)
(* recoveries and replaced credentials (a removal that overtook a newer    *)
(* configuration is the exception); and shutting down the manager stops    *)
(* every adapter and ends every task.                                      *)
Unfinished ==
    \/ InProgress
    \/ ~gate /\ active > 0
    \/ scene = "connection" /\ (~UpOrGone \/ (closing # "no" /\ ~Idle))
ChannelsSettle == Unfinished ~> ~Unfinished
=============================================================================
