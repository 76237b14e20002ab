---------------------------- MODULE NativeRename -----------------------------
(***************************************************************************)
(* WindowsRenameBackend::rename_no_replace, call by call: the parents of   *)
(* both ends are opened component by component and every handle is kept,   *)
(* the source is opened and identified, the destination is looked up, the  *)
(* kernel renames through the handles, and the destination is opened again *)
(* to confirm.  Other processes work on the disk between any two calls.    *)
(*                                                                         *)
(* A handle opened without delete sharing pins its node: no other process  *)
(* can rename, replace or remove it, under whatever name, while it is      *)
(* open.  All handles are released together when the call returns.         *)
(***************************************************************************)
EXTENDS Namespace

CONSTANTS
  Worlds, Operations,
  MaxFaults,         \* bound on system calls that fail
  MaxDisturbances    \* bound on the changes of other processes

VARIABLES
  world, op, pc,
  at,           \* the chain being opened: its deepest open directory
  depth,        \* and how many components of it are open
  sourceParent, destinationParent,
  handle,       \* the open source entry
  pinned,       \* nodes held open without delete sharing
  moved,        \* what the kernel moved: entry before, entry after
  result,       \* "None", "Ok", "NotApplied" or "MayHaveApplied"
  faults, disturbances

chainVars == <<at, depth, sourceParent, destinationParent>>
vars == <<world, op, pc, chainVars, handle, pinned, moved, result, faults, disturbances>>

None == "None"

\* An operation carries the identities that were frozen when it was planned.
Init ==
  /\ world \in Worlds
  /\ op \in Operations
  /\ pc = "Authorize"
  /\ at = None /\ depth = 0
  /\ sourceParent = None /\ destinationParent = None
  /\ handle = <<>> /\ pinned = {} /\ moved = <<>>
  /\ result = None
  /\ faults = 0 /\ disturbances = 0

Return(r) ==
  /\ result' = r
  /\ pc' = "Done"
  /\ pinned' = {}

Go(next) == pc' = next /\ UNCHANGED <<result, pinned>>

\* A call the system refuses for reasons of its own.
Fails(r) ==
  /\ faults < MaxFaults /\ faults' = faults + 1
  /\ Return(r)
  /\ UNCHANGED <<chainVars, handle, moved, world>>

(***************************************************************************)
(* The plan's authorization: one volume, and only a file may change its    *)
(* parent, when the scope allows it.                                       *)
(***************************************************************************)
authorization_error ==
  \/ Cardinality({Nodes[op.node].volume, Nodes[op.sourceParent].volume,
                  Nodes[op.destinationParent].volume}) > 1
  \/ /\ op.sourceParent # op.destinationParent
     /\ op.scope = "SameParent" \/ op.kind # "File"

Authorize ==
  /\ pc = "Authorize"
  /\ IF authorization_error THEN Return("NotApplied") ELSE Go("OpenSource")
  /\ UNCHANGED <<world, chainVars, handle, moved, faults>>

(***************************************************************************)
(* Open the next component of a chain and pin it.                          *)
(***************************************************************************)
OpenRoot(drive) ==
  IF drive \in world.remote THEN Failed("UnsupportedPath")
  ELSE IF Accepts(world, drive) # "None" THEN Failed(Accepts(world, drive))
  ELSE IF Nodes[drive].volume \in world.foreign THEN Failed("UnsupportedFilesystem")
  ELSE [err |-> "None", node |-> drive]

OpenComponent(path) ==
  IF depth = 0 THEN OpenRoot(path[1])
  ELSE Descend(world, [err |-> "None", node |-> at], path[depth + 1])

open_legacy(pass, path, next) ==
  /\ pc = pass
  /\ UNCHANGED <<world, handle, moved>>
  /\ \/ LET o == OpenComponent(path)
        IN  /\ UNCHANGED faults
            /\ IF o.err # "None"
               THEN Return("NotApplied") /\ UNCHANGED chainVars
               ELSE /\ pinned' = pinned \cup {o.node}
                    /\ UNCHANGED result
                    /\ IF depth + 1 < Len(path)
                       THEN /\ at' = o.node /\ depth' = depth + 1 /\ pc' = pass
                            /\ UNCHANGED <<sourceParent, destinationParent>>
                       ELSE /\ at' = None /\ depth' = 0 /\ pc' = next
                            /\ IF pass = "OpenSource"
                               THEN sourceParent' = o.node /\ UNCHANGED destinationParent
                               ELSE destinationParent' = o.node /\ UNCHANGED sourceParent
     \/ Fails("NotApplied")

OpenSourceChain      == open_legacy("OpenSource", Parent(op.source), "OpenDestination")
OpenDestinationChain == open_legacy("OpenDestination", Parent(op.destination), "CheckParents")

CheckParents ==
  /\ pc = "CheckParents"
  /\ IF sourceParent # op.sourceParent \/ destinationParent # op.destinationParent
     THEN Return("NotApplied") ELSE Go("OpenEntry")
  /\ UNCHANGED <<world, chainVars, handle, moved, faults>>

(***************************************************************************)
(* Open the source for deletion, without delete sharing, and check that it *)
(* is the planned entry in its planned spelling.                           *)
(***************************************************************************)
OpenEntry ==
  /\ pc = "OpenEntry"
  /\ UNCHANGED <<world, chainVars, moved>>
  /\ \/ LET o == open_entry(world, sourceParent, Leaf(op.source))
        IN  /\ UNCHANGED faults
            /\ IF o.err # "None" THEN Return("NotApplied") /\ UNCHANGED handle
               ELSE /\ handle' = <<o.entry>>
                    /\ pinned' = pinned \cup {o.entry.node}
                    /\ pc' = "CheckEntry" /\ UNCHANGED result
     \/ Fails("NotApplied")

IsPlannedByName(e) ==   \* mutant: the identity of the source is not compared
  /\ ~Nodes[e.node].reparse
  /\ op.kind = "Any" \/ Nodes[e.node].kind = op.kind
  /\ e.spelling = Leaf(op.source)

IsPlanned(e) ==
  /\ ~Nodes[e.node].reparse
  /\ op.kind = "Any" \/ Nodes[e.node].kind = op.kind
  /\ e.node = op.node
  /\ e.spelling = Leaf(op.source)

CheckEntry ==
  /\ pc = "CheckEntry"
  /\ UNCHANGED <<world, chainVars, handle, moved>>
  /\ \/ /\ IF IsPlanned(handle[1]) THEN Go("CheckDestination") ELSE Return("NotApplied")
        /\ UNCHANGED faults
     \/ Fails("NotApplied")

(***************************************************************************)
(* The destination must be free, and on the same volume.                   *)
(***************************************************************************)
CheckDestination ==
  /\ pc = "CheckDestination"
  /\ UNCHANGED <<world, chainVars, handle, moved>>
  /\ \/ /\ IF open_entry(world, destinationParent, Leaf(op.destination)).err = "None"
           \/ Nodes[sourceParent].volume # Nodes[destinationParent].volume
           THEN Return("NotApplied") ELSE Go("Rename")
        /\ UNCHANGED faults
     \/ Fails("NotApplied")

(***************************************************************************)
(* The kernel's rename: of the node behind the source handle, into the     *)
(* directory behind the destination handle, never over an existing entry.  *)
(***************************************************************************)
Landed == [dir |-> destinationParent, spelling |-> Leaf(op.destination), alias |-> "none",
           node |-> handle[1].node]

rename_noreplace ==
  /\ pc = "Rename"
  /\ UNCHANGED <<chainVars, handle>>
  /\ \/ /\ open_entry(world, destinationParent, Leaf(op.destination)).err # "None"
        /\ world' = [world EXCEPT !.entries = (@ \ {handle[1]}) \cup {Landed}]
        /\ moved' = <<handle[1], Landed>>
        /\ Go("Confirm")
        /\ UNCHANGED faults
     \/ /\ open_entry(world, destinationParent, Leaf(op.destination)).err = "None"
        /\ Return("NotApplied")
        /\ UNCHANGED <<world, moved, faults>>
     \/ Fails("NotApplied")

(***************************************************************************)
(* Confirmation; a failure after the kernel's success is uncertain.        *)
(***************************************************************************)
Confirm ==
  /\ pc = "Confirm"
  /\ UNCHANGED <<world, chainVars, handle, moved>>
  /\ \/ LET o == open_entry(world, destinationParent, Leaf(op.destination))
        IN  /\ IF o.err = "None" /\ o.entry.node = handle[1].node
               THEN Return("Ok") ELSE Return("MayHaveApplied")
            /\ UNCHANGED faults
     \/ Fails("MayHaveApplied")

(***************************************************************************)
(* Other processes: remove an entry, move it, or create one.  A pinned     *)
(* node stays where it is.                                                 *)
(***************************************************************************)
FreeSlots ==
  {s \in {e.dir : e \in world.entries} \X DOMAIN Fold : Entries(world, s[1], s[2]) = {}}

Disturb ==
  /\ pc # "Done" /\ disturbances < MaxDisturbances
  /\ disturbances' = disturbances + 1
  /\ \/ \E e \in world.entries :
          /\ e.node \notin pinned
          /\ world' = [world EXCEPT !.entries = @ \ {e}]
     \/ \E e \in world.entries, s \in FreeSlots :
          /\ e.node \notin pinned
          /\ Nodes[e.node].kind = "File" \/ s[1] \in Drives \cup {e.dir}
          /\ world' = [world EXCEPT !.entries =
                         (@ \ {e}) \cup {[e EXCEPT !.dir = s[1], !.spelling = s[2]]}]
     \/ \E s \in FreeSlots, x \in {y \in DOMAIN Nodes \ Drives : Nodes[y].kind = "File"} :
          world' = [world EXCEPT !.entries =
                      @ \cup {[dir |-> s[1], spelling |-> s[2], alias |-> "none", node |-> x]}]
  /\ UNCHANGED <<op, pc, chainVars, handle, pinned, moved, result, faults>>

rename_no_replace ==
  /\ \/ Authorize \/ OpenSourceChain \/ OpenDestinationChain \/ CheckParents \/ OpenEntry
     \/ CheckEntry \/ CheckDestination \/ rename_noreplace \/ Confirm
  /\ UNCHANGED <<op, disturbances>>

Next == rename_no_replace \/ Disturb \/ (pc = "Done" /\ UNCHANGED vars)

Spec == Init /\ [][Next]_vars
-----------------------------------------------------------------------------
(***************************************************************************)
(* A call that returned holds no handle.                                   *)
(***************************************************************************)
TypeOK ==
  /\ result \in {None, "Ok", "NotApplied", "MayHaveApplied"}
  /\ (pc = "Done") <=> (result # None)
  /\ pinned \subseteq DOMAIN Nodes
  /\ pc = "Done" => pinned = {}
  /\ {sourceParent, destinationParent} \subseteq DOMAIN Nodes \cup {None}

(***************************************************************************)
(* Whatever others do between the calls, the kernel only ever moves the    *)
(* planned file, out of its planned directory, to the planned name in the  *)
(* planned directory, and gives it no other spelling.                      *)
(***************************************************************************)
MovesOnlyThePlanned ==
  moved # <<>> =>
    /\ moved[1].node = op.node /\ moved[1].dir = op.sourceParent
    /\ moved[1].spelling = Leaf(op.source)
    /\ moved[2] = [dir |-> op.destinationParent, spelling |-> Leaf(op.destination),
                   alias |-> "none", node |-> op.node]

(***************************************************************************)
(* "Ok" tells the truth about the paths, not only about the handles: when  *)
(* the call returns, the planned destination path leads to the planned     *)
(* file and the source's entry is gone.                                    *)
(***************************************************************************)
OkIsTrueOfThePaths ==
  result = "Ok" =>
    /\ observe(world, op.destination) =
         [err |-> "None", parent |-> op.destinationParent, node |-> {op.node}]
    /\ moved[1] \notin world.entries

(***************************************************************************)
(* "NotApplied" promises the executor that nothing moved, so that it may   *)
(* go on; "MayHaveApplied" needs a system call that failed: no process can *)
(* cause it by what it does to the files.                                  *)
(***************************************************************************)
NotAppliedIsCertain == result = "NotApplied" => moved = <<>>

UncertaintyNeedsAFault == result = "MayHaveApplied" => faults > 0
=============================================================================
