--------------------------- MODULE DeviceTransfers --------------------------
(***************************************************************************)
(* Everything a transfer goes through, checked in one run: a file and a    *)
(* directory between server and devices, the admissions in front of them,  *)
(* the object store's connections under them, and the relay of a device's  *)
(* file to a reader.  A behaviour is about one of these (its scene).       *)
(***************************************************************************)
EXTENDS Transfers, DirectoryTransfer, Admission, ObjectPool, Relays

allvars == <<scene, tvars, dirvars, admvars, poolvars, relayvars>>

\* Two requests of one user, one of another, and three of a third, two ways.
MCOwner == <<"a", "a", "b", "c", "c", "c">>
MCLane == <<"up", "up", "up", "up", "up", "down">>
\* Two connections: a second copy, and an upload, beside a copy and a download.
MCMixes == {<<"copy", "copy", "read">>, <<"copy", "write", "read">>}

Admissions == {"fair", "keyed", "local"}

\* The variables of the other scenes.
FileUnused ==
    /\ cl = 0 /\ out = 0 /\ up = 0 /\ down = 0 /\ conn = 0 /\ faults = 0 /\ sv = 0 /\ bs = 0
    /\ disk = [src |-> 0, gone |-> FALSE, dst |-> NoFile]
    /\ job = [route |-> "push", mode |-> "copy", told |-> "none"]
DirUnused ==
    /\ jobs = 0 /\ mgr = 0 /\ sfile = 0 /\ dfile = 0 /\ droot = 0 /\ trouble = 0 /\ route = 0
    /\ mode = 0 /\ srv = 0 /\ call = 0 /\ orphan = 0 /\ kid = 0 /\ link = 0
AdmissionUnused == pc = 0 /\ fair = 0 /\ passed = 0 /\ refused = 0 /\ keyed = 0 /\ local = 0
PoolUnused ==
    /\ kind = 0 /\ free = 0 /\ work = 0 /\ upload = 0 /\ temp = 0 /\ final = 0
    /\ left = 0 /\ serving = 0 /\ hurt = 0
RelayUnused == sender = 0 /\ sink = 0 /\ reader = 0 /\ woes = 0

AllInit ==
    /\ scene \in {"file", "directory", "pool", "relay"} \cup Admissions
    /\ IF scene = "file" THEN Init ELSE FileUnused
    /\ IF scene = "directory" THEN DirInit ELSE DirUnused
    /\ IF scene \in Admissions THEN AdmissionInit ELSE AdmissionUnused
    /\ IF scene = "pool" THEN PoolInit ELSE PoolUnused
    /\ IF scene = "relay" THEN RelayInit ELSE RelayUnused

RestKept(name) ==
    /\ UNCHANGED scene
    /\ name # "file" => UNCHANGED tvars
    /\ name # "directory" => UNCHANGED dirvars
    /\ name # "admission" => UNCHANGED admvars
    /\ name # "pool" => UNCHANGED poolvars
    /\ name # "relay" => UNCHANGED relayvars

AllNext ==
    \/ scene = "file" /\ Next /\ RestKept("file")
    \/ scene = "directory" /\ DirNext /\ RestKept("directory")
    \/ scene \in Admissions /\ AdmissionStep /\ RestKept("admission")
    \/ scene = "pool" /\ (PoolWork \/ PoolFault) /\ RestKept("pool")
    \/ scene = "relay" /\ (RelayWork \/ RelayFault) /\ RestKept("relay")
    \/ /\ \/ scene \in Admissions /\ AdmissionDone
          \/ scene = "pool" /\ PoolDone
          \/ scene = "relay" /\ RelayDone
       /\ UNCHANGED allvars

AllWork ==
    \/ scene = "file" /\ Work /\ RestKept("file")
    \/ scene = "directory" /\ DirStep /\ RestKept("directory")
    \/ scene \in Admissions /\ AdmissionStep /\ RestKept("admission")
    \/ scene = "pool" /\ PoolWork /\ RestKept("pool")
    \/ scene = "relay" /\ RelayWork /\ RestKept("relay")

AllSpec == AllInit /\ [][AllNext]_allvars /\ WF_allvars(AllWork)

\* However a transfer ends, nothing of it is left over: no temporary file or object, no
\* lock, lease or credit, no second answer; and what was published is the whole file.
NothingLeftOver == NothingLeaked /\ OneSourceAnswer /\ TempsOwned /\ PublishedExact

\* Everything that was begun ends, whatever is lost on the way: the callers of a file
\* and of a directory transfer are answered, no directory job or path reservation stays
\* behind, a request for a slot is served or refused, work on the object store ends, and
\* a relay gives its admission back.
Unended ==
    \/ scene = "file" /\ job.told = "none"
    \/ scene = "directory" /\ (srv.told = "none" \/ \E r \in Roles : jobs[r].live \/ jobs[r].res)
    \/ scene \in Admissions /\ ~AdmissionDone
    \/ scene = "pool" /\ ~PoolDone
    \/ scene = "relay" /\ ~RelayDone
EverythingEnds == Unended ~> ~Unended
=============================================================================
