--------------------------- MODULE StartupRuntime ---------------------------
(***************************************************************************)
(* Startup of the application (windows/safe_runtime.rs) and the file       *)
(* handles it lives on: the directory chain of the recovery state, the     *)
(* instance lock, the active and the candidate journal, every file opened  *)
(* without sharing.  Several processes start, work, exit and die, and      *)
(* another program may hold a file for a while.                            *)
(*                                                                         *)
(* What a journal holds is reduced to the cases startup tells apart.       *)
(***************************************************************************)
EXTENDS Integers, Sequences, FiniteSets, TLAPS

-----------------------------------------------------------------------------
(***************************************************************************)
(* The check of owner and access list that the recovery-state directory,   *)
(* its ancestors and its files must pass (rename/private_state.rs), and    *)
(* the descriptor the program gives to what it creates.                    *)
(*                                                                         *)
(* A descriptor is an owner and a sequence of access entries.  Masks are   *)
(* sets of rights; FILE_ALL_ACCESS is the set of file rights.              *)
(***************************************************************************)
Sids == {"User", "System", "Admins", "TrustedInstaller", "Other"}

FileRights == {"ReadData", "WriteData", "AddFile", "DeleteChild", "Delete",
               "WriteDac", "WriteAttributes", "Execute", "Synchronize"}

GenericRights == {"GenericAll", "GenericRead", "GenericWrite", "GenericExecute"}

expanded_mask(mask) ==
  (mask
   \cup (IF "GenericAll" \in mask THEN FileRights ELSE {})
   \cup (IF "GenericRead" \in mask THEN {"ReadData", "Synchronize"} ELSE {})
   \cup (IF "GenericWrite" \in mask
         THEN {"WriteData", "AddFile", "WriteAttributes", "Synchronize"} ELSE {})
   \cup (IF "GenericExecute" \in mask THEN {"Execute", "Synchronize"} ELSE {}))
  \ GenericRights

allowed_sid(sid, ancestor) ==
  \/ sid \in {"User", "System", "Admins"}
  \/ ancestor /\ sid = "TrustedInstaller"

Dangerous(ancestor, directory) ==
  {"Delete", "WriteDac"}
  \cup (IF ancestor \/ directory THEN {"DeleteChild"} ELSE {})
  \cup (IF ancestor THEN {} ELSE {"ReadData", "WriteData", "AddFile", "WriteAttributes"})

AceAccepted(ace, ancestor, directory) ==
  /\ ace.type \in {"Allow", "Deny"}
  /\ \/ ace.inherit_only
     \/ ace.type = "Deny"
     \/ allowed_sid(ace.sid, ancestor)
     \/ LET granted == expanded_mask(ace.mask)
        IN  granted \subseteq FileRights \ Dangerous(ancestor, directory)

OwnerAccepted(owner, ancestor) ==
  IF ancestor THEN allowed_sid(owner, TRUE) ELSE owner = "User"

validate(descriptor, ancestor, directory) ==
  /\ OwnerAccepted(descriptor.owner, ancestor)
  /\ \A i \in DOMAIN descriptor.dacl :
       AceAccepted(descriptor.dacl[i], ancestor, directory)

(***************************************************************************)
(* PrivateState::new: owner and full control for the user, full control    *)
(* for the system and the administrators, nothing inherited.               *)
(***************************************************************************)
FullControl(sid) ==
  [type |-> "Allow", inherit_only |-> FALSE, sid |-> sid, mask |-> FileRights]

PrivateDescriptor ==
  [owner |-> "User",
   dacl  |-> <<FullControl("User"), FullControl("System"), FullControl("Admins")>>]

(***************************************************************************)
(* What the check is for: the rights an account other than the trusted     *)
(* ones has on an object of this descriptor, granted without regard to     *)
(* the entries that deny.                                                  *)
(***************************************************************************)
MeaningOf(right) ==
  CASE right = "GenericAll"     -> FileRights
    [] right = "GenericRead"    -> {"ReadData", "Synchronize"}
    [] right = "GenericWrite"   -> {"WriteData", "AddFile", "WriteAttributes", "Synchronize"}
    [] right = "GenericExecute" -> {"Execute", "Synchronize"}
    [] OTHER                    -> {right}

OutsiderRights(descriptor) ==
  (UNION { UNION {MeaningOf(right) : right \in descriptor.dacl[i].mask} :
             i \in { i \in DOMAIN descriptor.dacl :
                       /\ descriptor.dacl[i].type = "Allow"
                       /\ ~descriptor.dacl[i].inherit_only
                       /\ descriptor.dacl[i].sid = "Other" } })
  \cup (IF descriptor.owner = "Other" THEN {"WriteDac"} ELSE {})

-----------------------------------------------------------------------------
CONSTANTS
  Processes,
  Outsider,     \* another program that opens files of the directory
  Nobody,
  Directories   \* other descriptors an existing directory can have than the program's own

StartupAssumption ==
  Outsider \notin Processes /\ Nobody \notin Processes /\ Outsider # Nobody

Ancestors == {1}                \* LOCALAPPDATA and above
Owned     == {2, 3}             \* DarkReNamer, journal
Chain     == Ancestors \cup Owned

Leaves   == {"Lock", "Active", "Candidate"}
Journals == {"Active", "Candidate"}

Absent == "Absent"

Content == {"Empty", "TornIntent", "Intent", "Progress", "Terminal", "Corrupt"}

VARIABLES
  chain,     \* descriptor of each directory, or << >> when it does not exist
  content,   \* what each leaf holds, or Absent
  linked,    \* the leaves that have another hard link
  holder,    \* who has each leaf open
  pc,        \* where each process is
  level,     \* the directory it opens next
  rt,        \* its SafeRuntime
  crashed    \* processes the system is tearing down without their destructors

vars == <<chain, content, linked, holder, pc, level, rt, crashed>>

NoRuntime ==
  [retained |-> {}, blocked |-> {}, collision |-> FALSE, locked |-> FALSE]

StartupPc == {"Root", "CreateDirectory", "Lock", "CreateLock",
              "OpenActive", "OpenCandidate", "Settle"}

WorkPc == {"Ready", "Staged", "Working", "Done"}

SafeRuntime ==
  [retained : SUBSET Journals, blocked : SUBSET Journals, collision : BOOLEAN, locked : BOOLEAN]

TypeOK ==
  /\ \A i \in Chain : chain[i] = << >> \/ chain[i] \in Directories \cup {PrivateDescriptor}
  /\ content \in [Leaves -> Content \cup {Absent}]
  /\ linked \subseteq Leaves
  /\ holder \in [Leaves -> Processes \cup {Outsider, Nobody}]
  /\ \A leaf \in Leaves : content[leaf] = Absent => holder[leaf] = Nobody
  /\ pc \in [Processes -> {"Off", "Failed", "Exiting"} \cup StartupPc \cup WorkPc]
  /\ level \in [Processes -> 1..4]
  /\ rt \in [Processes -> SafeRuntime]
  /\ crashed \subseteq Processes

(***************************************************************************)
(* Before the first start: ancestors exist, the program's directories may. *)
(* At most one file is linked or one directory has a descriptor of its     *)
(* own.  An earlier run may have left any journal behind.                  *)
(***************************************************************************)
Init ==
  /\ chain \in [Chain -> Directories \cup {PrivateDescriptor, << >>}]
  /\ \A i \in Ancestors : chain[i] # << >>
  /\ chain[2] = << >> => chain[3] = << >>
  /\ content \in [Leaves -> Content \cup {Absent}]
  /\ content["Lock"] \in {"Empty", Absent}
  /\ chain[3] = << >> => content = [leaf \in Leaves |-> Absent]
  /\ linked \in SUBSET {leaf \in Leaves : content[leaf] # Absent}
  /\ Cardinality(linked)
     + Cardinality({i \in Chain : chain[i] \notin {<< >>, PrivateDescriptor}}) <= 1
  /\ holder = [leaf \in Leaves |-> Nobody]
  /\ pc = [p \in Processes |-> "Off"]
  /\ level = [p \in Processes |-> 1]
  /\ rt = [p \in Processes |-> NoRuntime]
  /\ crashed = {}

Goto(p, to) == pc' = [pc EXCEPT ![p] = to]

fileVars == <<content, linked, holder>>

Start(p) ==
  /\ pc[p] = "Off"
  /\ Goto(p, "Root")
  /\ level' = [level EXCEPT ![p] = 1]
  /\ rt' = [rt EXCEPT ![p] = NoRuntime]
  /\ UNCHANGED <<chain, fileVars, crashed>>

(***************************************************************************)
(* open_root: every directory down to the journal's is opened through its  *)
(* parent's handle and validated; a missing directory of the program's own *)
(* is created by a second call, which fails if another process was faster. *)
(***************************************************************************)
Validated(p, i, descriptor) ==
  IF validate(descriptor, i \in Ancestors, TRUE)
  THEN /\ level' = [level EXCEPT ![p] = i + 1]
       /\ Goto(p, IF i = 3 THEN "Lock" ELSE "Root")
  ELSE Goto(p, "Failed") /\ UNCHANGED level

OpenDirectory(p) ==
  /\ pc[p] = "Root"
  /\ LET i == level[p]
     IN  IF chain[i] # << >> THEN Validated(p, i, chain[i])
         ELSE Goto(p, "CreateDirectory") /\ UNCHANGED level
  /\ UNCHANGED <<chain, fileVars, rt, crashed>>

CreateDirectory(p) ==
  /\ pc[p] = "CreateDirectory"
  /\ LET i == level[p]
     IN  IF chain[i] # << >>
         THEN Goto(p, "Failed") /\ UNCHANGED <<chain, level>>
         ELSE /\ chain' = [chain EXCEPT ![i] = PrivateDescriptor]
              /\ Validated(p, i, PrivateDescriptor)
  /\ UNCHANGED <<fileVars, rt, crashed>>

(***************************************************************************)
(* acquire_runtime_lock: the lock leaf is opened without sharing, and      *)
(* created by a second call when it does not exist.                        *)
(***************************************************************************)
CanOpen(leaf) == content[leaf] # Absent /\ holder[leaf] = Nobody

AcquireLock(p) ==
  /\ pc[p] = "Lock"
  /\ IF content["Lock"] = Absent
     THEN Goto(p, "CreateLock") /\ UNCHANGED holder
     ELSE IF CanOpen("Lock") /\ "Lock" \notin linked
     THEN Goto(p, "OpenActive") /\ holder' = [holder EXCEPT !["Lock"] = p]
     ELSE Goto(p, "Failed") /\ UNCHANGED holder
  /\ UNCHANGED <<chain, content, linked, level, rt, crashed>>

CreateLock(p) ==
  /\ pc[p] = "CreateLock"
  /\ IF content["Lock"] # Absent
     THEN Goto(p, "Failed") /\ UNCHANGED <<content, holder>>
     ELSE /\ content' = [content EXCEPT !["Lock"] = "Empty"]
          /\ holder' = [holder EXCEPT !["Lock"] = p]
          /\ Goto(p, "OpenActive")
  /\ UNCHANGED <<chain, linked, level, rt, crashed>>

(***************************************************************************)
(* open_existing_retained and open_candidate_existing_retained: no file,   *)
(* a journal, or a block.  A block keeps the handle it got as evidence; a  *)
(* file that could not be opened is unavailable.                           *)
(***************************************************************************)
ReadableLeaf(leaf) ==
  /\ leaf \notin linked
  /\ content[leaf] \notin {"Corrupt", "TornIntent"}
  /\ leaf = "Candidate" => content[leaf] \in {"Empty", "Intent"}

from_open_error(p, leaf) ==
  /\ rt' = [rt EXCEPT ![p].blocked = @ \cup {leaf}]
  /\ UNCHANGED holder

OpenJournal(p, leaf) ==
  IF content[leaf] = Absent THEN UNCHANGED <<holder, rt>>
  ELSE IF ~CanOpen(leaf) THEN from_open_error(p, leaf)
  ELSE /\ holder' = [holder EXCEPT ![leaf] = p]
       /\ rt' = IF ReadableLeaf(leaf)
                THEN [rt EXCEPT ![p].retained = @ \cup {leaf}]
                ELSE [rt EXCEPT ![p].blocked = @ \cup {leaf}]

OpenActive(p) ==
  /\ pc[p] = "OpenActive"
  /\ OpenJournal(p, "Active")
  /\ Goto(p, "OpenCandidate")
  /\ UNCHANGED <<chain, content, linked, level, crashed>>

OpenCandidate(p) ==
  /\ pc[p] = "OpenCandidate"
  /\ OpenJournal(p, "Candidate")
  /\ Goto(p, "Settle")
  /\ UNCHANGED <<chain, content, linked, level, crashed>>

(***************************************************************************)
(* The rest of initialize_safe_runtime_at: a collision locks; an empty     *)
(* candidate is deleted through its handle, or kept and locks when that    *)
(* fails; Apply is unlocked only when nothing is left.                     *)
(***************************************************************************)
Observed(p) == rt[p].retained \cup rt[p].blocked

IsEmptyCandidate(p) ==
  "Candidate" \in rt[p].retained /\ content["Candidate"] = "Empty"

Settle(p) ==
  /\ pc[p] = "Settle"
  /\ Goto(p, "Ready")
  /\ \/ /\ Observed(p) = Journals
        /\ rt' = [rt EXCEPT ![p].collision = TRUE, ![p].locked = TRUE]
        /\ UNCHANGED <<content, holder, linked>>
     \/ /\ Observed(p) # Journals /\ IsEmptyCandidate(p)
        /\ \/ /\ content' = [content EXCEPT !["Candidate"] = Absent]
              /\ holder' = [holder EXCEPT !["Candidate"] = Nobody]
              /\ linked' = linked \ {"Candidate"}
              /\ rt' = [rt EXCEPT ![p].retained = {}]
           \/ /\ rt' = [rt EXCEPT ![p].locked = TRUE]
              /\ UNCHANGED <<content, holder, linked>>
     \/ /\ Observed(p) # Journals /\ ~IsEmptyCandidate(p)
        /\ rt' = [rt EXCEPT ![p].locked = Observed(p) # {}]
        /\ UNCHANGED <<content, holder, linked>>
  /\ UNCHANGED <<chain, level, crashed>>

-----------------------------------------------------------------------------
(***************************************************************************)
(* One Apply of an unlocked process, reduced to what it does to the two    *)
(* journal names.  A failure leaves the journal where it is and locks.     *)
(***************************************************************************)
Lock(p, leaf) ==
  /\ Goto(p, "Ready")
  /\ rt' = [rt EXCEPT ![p].locked = TRUE, ![p].retained = {leaf}]

StageJournal(p) ==
  /\ pc[p] = "Ready" /\ ~rt[p].locked
  /\ content["Candidate"] = Absent
  /\ content' = [content EXCEPT !["Candidate"] = "Empty"]
  /\ holder' = [holder EXCEPT !["Candidate"] = p]
  /\ Goto(p, "Staged")
  /\ UNCHANGED <<chain, linked, level, rt, crashed>>

BeginJournal(p) ==
  /\ pc[p] = "Staged"
  /\ \/ /\ content["Active"] = Absent
        /\ content' = [content EXCEPT !["Candidate"] = Absent, !["Active"] = "Intent"]
        /\ holder' = [holder EXCEPT !["Candidate"] = Nobody, !["Active"] = p]
        /\ Goto(p, "Working") /\ UNCHANGED rt
     \/ /\ content' \in { [content EXCEPT !["Candidate"] = c] :
                            c \in {"Empty", "TornIntent", "Intent"} }
        /\ Lock(p, "Candidate") /\ UNCHANGED holder
  /\ UNCHANGED <<chain, linked, level, crashed>>

FinishWork(p) ==
  /\ pc[p] = "Working"
  /\ \/ /\ content' = [content EXCEPT !["Active"] = "Terminal"]
        /\ Goto(p, "Done") /\ UNCHANGED rt
     \/ /\ content' = [content EXCEPT !["Active"] = "Progress"]
        /\ Lock(p, "Active")
  /\ UNCHANGED <<chain, linked, holder, level, crashed>>

cleanup_file_journal(p) ==
  /\ pc[p] = "Done"
  /\ \/ /\ content' = [content EXCEPT !["Active"] = Absent]
        /\ holder' = [holder EXCEPT !["Active"] = Nobody]
        /\ Goto(p, "Ready") /\ UNCHANGED rt
     \/ Lock(p, "Active") /\ UNCHANGED <<content, holder>>
  /\ UNCHANGED <<chain, linked, level, crashed>>

-----------------------------------------------------------------------------
(***************************************************************************)
(* The end of a process.  SafeRuntime drops its fields in order, the lock  *)
(* last; a process that dies has its handles closed in any order.          *)
(***************************************************************************)
Held(p) == {leaf \in Leaves : holder[leaf] = p}

DropNextAny(p, leaf) == leaf \in Held(p)   \* mutant: the lock field is not the last

DropNext(p, leaf) == leaf \in Held(p) /\ (leaf = "Lock" => Held(p) = {"Lock"})

Exit(p) ==
  /\ pc[p] \in {"Ready", "Failed"}
  /\ Goto(p, "Exiting")
  /\ UNCHANGED <<chain, fileVars, level, rt, crashed>>

Crash(p) ==
  /\ pc[p] \in StartupPc \cup WorkPc
  /\ Goto(p, "Exiting")
  /\ crashed' = crashed \cup {p}
  /\ UNCHANGED <<chain, fileVars, level, rt>>

CloseHandle(p) ==
  /\ pc[p] = "Exiting"
  /\ \E leaf \in Held(p) :
       /\ p \notin crashed => DropNext(p, leaf)
       /\ holder' = [holder EXCEPT ![leaf] = Nobody]
  /\ UNCHANGED <<chain, content, linked, pc, level, rt, crashed>>

Gone(p) ==
  /\ pc[p] = "Exiting" /\ Held(p) = {}
  /\ Goto(p, "Off")
  /\ crashed' = crashed \ {p}
  /\ rt' = [rt EXCEPT ![p] = NoRuntime]
  /\ UNCHANGED <<chain, fileVars, level>>

\* A scanner or a backup opens a file for a while.
OutsiderOpens ==
  /\ \E leaf \in Leaves : CanOpen(leaf) /\ holder' = [holder EXCEPT ![leaf] = Outsider]
  /\ UNCHANGED <<chain, content, linked, pc, level, rt, crashed>>

OutsiderCloses ==
  /\ \E leaf \in Leaves : holder[leaf] = Outsider /\ holder' = [holder EXCEPT ![leaf] = Nobody]
  /\ UNCHANGED <<chain, content, linked, pc, level, rt, crashed>>

ProcessStep(p) ==
  \/ Start(p) \/ OpenDirectory(p) \/ CreateDirectory(p)
  \/ AcquireLock(p) \/ CreateLock(p)
  \/ OpenActive(p) \/ OpenCandidate(p) \/ Settle(p)
  \/ StageJournal(p) \/ BeginJournal(p) \/ FinishWork(p) \/ cleanup_file_journal(p)
  \/ Exit(p) \/ Crash(p) \/ CloseHandle(p) \/ Gone(p)

Next == (\E p \in Processes : ProcessStep(p)) \/ OutsiderOpens \/ OutsiderCloses

Spec == Init /\ [][Next]_vars

-----------------------------------------------------------------------------
Runs(p) == pc[p] \in {"OpenActive", "OpenCandidate", "Settle"} \cup WorkPc

(***************************************************************************)
(* Whatever the interleaving of two starts, also of the very first ones    *)
(* that create the directories and the lock leaf, at most one process is   *)
(* past the instance lock.                                                 *)
(***************************************************************************)
OneRuntime == \A p, q \in Processes : Runs(p) /\ Runs(q) => p = q

(***************************************************************************)
(* Apply is unlocked only while no journal of an earlier run is on disk,   *)
(* under either name and readable or not: a torn first frame, a hard link, *)
(* a damaged file and a file another program holds all keep it locked.     *)
(***************************************************************************)
UnlockedMeansNoEvidence ==
  \A p \in Processes :
    (pc[p] = "Ready" /\ ~rt[p].locked) =>
      content["Active"] = Absent /\ content["Candidate"] = Absent

(***************************************************************************)
(* After an orderly exit the next start finds no journal held by the old   *)
(* process: whoever owns the instance lock never meets a journal handle    *)
(* of a process that ran its destructors.                                  *)
(***************************************************************************)
LockOutlivesJournals ==
  \A p, q \in Processes :
    (p # q /\ holder["Lock"] = p /\ q \notin crashed) =>
      \A leaf \in Journals : holder[leaf] # q

(***************************************************************************)
(* A process runs only where no other account can read, change or replace  *)
(* the recovery state, or rename or delete a directory above it.           *)
(***************************************************************************)
StateIsPrivate ==
  \A p \in Processes : Runs(p) =>
    /\ \A i \in Owned :
         OutsiderRights(chain[i]) \subseteq {"Execute", "Synchronize"}
    /\ \A i \in Ancestors :
         OutsiderRights(chain[i]) \cap {"Delete", "DeleteChild", "WriteDac"} = {}

(***************************************************************************)
(* Startup removes no journal that holds anything: before an Apply of this *)
(* process, the only file it deletes is an empty candidate.                *)
(***************************************************************************)
StartupKeepsEvidence ==
  \A leaf \in Journals :
      (content[leaf] \notin {Absent, "Empty"} /\ content'[leaf] = Absent)
      => \E p \in Processes : pc[p] \in {"Staged", "Done"}

-----------------------------------------------------------------------------
(***************************************************************************)
(* A directory that passes the check, of whatever descriptor, gives other  *)
(* accounts no dangerous right; what the program creates passes it.        *)
(***************************************************************************)
LEMMA AcceptedAceIsHarmless ==
  ASSUME NEW ace, NEW ancestor \in BOOLEAN, AceAccepted(ace, ancestor, TRUE),
         ace.type = "Allow", ~ace.inherit_only, ace.sid = "Other",
         NEW right \in ace.mask
  PROVE  MeaningOf(right) \subseteq FileRights \ Dangerous(ancestor, TRUE)
<1>1. expanded_mask(ace.mask) \subseteq FileRights \ Dangerous(ancestor, TRUE)
  BY DEF AceAccepted, allowed_sid
<1>2. MeaningOf(right) \subseteq expanded_mask(ace.mask)
  BY DEF MeaningOf, expanded_mask, FileRights, GenericRights
<1>. QED  BY <1>1, <1>2

LEMMA AcceptedIsPrivate ==
  ASSUME NEW descriptor, NEW ancestor \in BOOLEAN, validate(descriptor, ancestor, TRUE)
  PROVE  OutsiderRights(descriptor) \subseteq FileRights \ Dangerous(ancestor, TRUE)
<1>1. descriptor.owner # "Other"
  BY DEF validate, OwnerAccepted, allowed_sid
<1>2. ASSUME NEW i \in DOMAIN descriptor.dacl,
             descriptor.dacl[i].type = "Allow", ~descriptor.dacl[i].inherit_only,
             descriptor.dacl[i].sid = "Other",
             NEW right \in descriptor.dacl[i].mask
      PROVE  MeaningOf(right) \subseteq FileRights \ Dangerous(ancestor, TRUE)
  BY <1>2, AcceptedAceIsHarmless DEF validate
<1>3. ASSUME NEW r \in OutsiderRights(descriptor)
      PROVE  r \in FileRights \ Dangerous(ancestor, TRUE)
  <2>1. PICK i \in DOMAIN descriptor.dacl :
          /\ descriptor.dacl[i].type = "Allow" /\ ~descriptor.dacl[i].inherit_only
          /\ descriptor.dacl[i].sid = "Other"
          /\ \E right \in descriptor.dacl[i].mask : r \in MeaningOf(right)
    <3>. DEFINE Granting == {i \in DOMAIN descriptor.dacl :
                               /\ descriptor.dacl[i].type = "Allow"
                               /\ ~descriptor.dacl[i].inherit_only
                               /\ descriptor.dacl[i].sid = "Other"}
                Granted(i) == UNION {MeaningOf(right) : right \in descriptor.dacl[i].mask}
    <3>1. OutsiderRights(descriptor) = UNION {Granted(i) : i \in Granting}
      BY <1>1 DEF OutsiderRights
    <3>2. PICK i \in Granting : r \in Granted(i)
      <4>. HIDE DEF Granting, Granted
      <4>. QED  BY <1>3, <3>1
    <3>. QED  BY <3>2
  <2>. QED  BY <2>1, <1>2
<1>. QED  BY <1>3

LEMMA CreatedIsAccepted ==
  ASSUME NEW i
  PROVE  validate(PrivateDescriptor, i \in Ancestors, TRUE)
<1>1. PrivateDescriptor.owner = "User"
  BY DEF PrivateDescriptor
<1>2. ASSUME NEW n \in DOMAIN PrivateDescriptor.dacl
      PROVE  AceAccepted(PrivateDescriptor.dacl[n], i \in Ancestors, TRUE)
  <2>1. PrivateDescriptor.dacl[n]
          \in {FullControl("User"), FullControl("System"), FullControl("Admins")}
    BY <1>2 DEF PrivateDescriptor
  <2>2. ASSUME NEW sid \in {"User", "System", "Admins"}
        PROVE  AceAccepted(FullControl(sid), i \in Ancestors, TRUE)
    BY <2>2 DEF FullControl, AceAccepted, allowed_sid
  <2>. QED  BY <2>1, <2>2
<1>. QED  BY <1>1, <1>2 DEF validate, OwnerAccepted, allowed_sid

(***************************************************************************)
(* What startup has established at each place of a process.                *)
(***************************************************************************)
ChainTyped == chain \in [Chain -> Directories \cup {PrivateDescriptor, << >>}]

Accepted(i) == validate(chain[i], i \in Ancestors, TRUE)

\* The part of the chain that a process has opened has passed the check.
PathChecked(p) ==
  /\ pc[p] \in {"Root", "CreateDirectory"} =>
       level[p] \in Chain /\ \A i \in Chain : i < level[p] => Accepted(i)
  /\ pc[p] \in {"Lock", "CreateLock"} \/ Runs(p) => \A i \in Chain : Accepted(i)

\* The lock is held as long as anything is that it protects.
LockHeld(p) ==
  /\ Runs(p) => holder["Lock"] = p
  /\ p \notin crashed /\ (\E leaf \in Journals : holder[leaf] = p) => holder["Lock"] = p
  /\ ~Runs(p) /\ pc[p] # "Exiting" => \A leaf \in Leaves : holder[leaf] # p
  /\ p \in crashed => pc[p] = "Exiting"

\* No journal on disk escapes the process that holds the lock.
EvidenceSeen(p) ==
  /\ pc[p] = "OpenCandidate" /\ content["Active"] # Absent => "Active" \in Observed(p)
  /\ pc[p] = "Settle" => \A leaf \in Journals : content[leaf] # Absent => leaf \in Observed(p)
  /\ pc[p] \in {"Working", "Done"} => content["Candidate"] = Absent
  /\ pc[p] = "Ready" /\ ~rt[p].locked => \A leaf \in Journals : content[leaf] = Absent

FilesTyped ==
  /\ content \in [Leaves -> Content \cup {Absent}]
  /\ linked \subseteq Leaves
  /\ holder \in [Leaves -> Processes \cup {Outsider, Nobody}]
  /\ \A leaf \in Leaves : content[leaf] = Absent => holder[leaf] = Nobody

StartupInv ==
  /\ TypeOK /\ ChainTyped
  /\ \A p \in Processes : PathChecked(p) /\ LockHeld(p) /\ EvidenceSeen(p)

LEMMA RuntimeFields ==
  ASSUME NEW r \in SafeRuntime, NEW some \in SUBSET Journals, NEW flag \in BOOLEAN
  PROVE  /\ [r EXCEPT !.locked = flag] \in SafeRuntime
         /\ [r EXCEPT !.retained = some] \in SafeRuntime
         /\ [r EXCEPT !.locked = flag, !.retained = some] \in SafeRuntime
         /\ [r EXCEPT !.collision = flag, !.locked = flag] \in SafeRuntime
BY DEF SafeRuntime

LEMMA StartupInvInit == ASSUME StartupAssumption, Init PROVE StartupInv
<1>. USE DEF Init
<1>1. TypeOK
  <2>1. NoRuntime \in SafeRuntime
    BY DEF NoRuntime, SafeRuntime
  <2>2. \A i \in Chain : chain[i] = << >> \/ chain[i] \in Directories \cup {PrivateDescriptor}
    OBVIOUS
  <2>3. linked \subseteq Leaves
    OBVIOUS
  <2>. QED  BY <2>1, <2>2, <2>3 DEF TypeOK
<1>2. ASSUME NEW p \in Processes PROVE PathChecked(p) /\ LockHeld(p) /\ EvidenceSeen(p)
  BY DEF StartupAssumption, PathChecked, LockHeld, EvidenceSeen, Runs, WorkPc, Journals, Leaves
<1>. QED  BY <1>1, <1>2 DEF StartupInv, ChainTyped

(***************************************************************************)
(* One lemma for each operation: p takes the step, q is any process.       *)
(***************************************************************************)
LEMMA StartKeeps ==
  ASSUME StartupAssumption, StartupInv, NEW p \in Processes, Start(p)
  PROVE  StartupInv'
<1>. USE DEF Start, Goto, fileVars, vars
<1>1. TypeOK' /\ ChainTyped'
  <2>1. ChainTyped' /\ level' \in [Processes -> 1..4]
    BY DEF StartupInv, TypeOK, ChainTyped, PathChecked, Chain, Owned, Ancestors
  <2>2. FilesTyped'
    BY DEF StartupInv, TypeOK, FilesTyped, Content, Absent, Journals, Leaves
  <2>3. pc' \in [Processes -> {"Off", "Failed", "Exiting"} \cup StartupPc \cup WorkPc]
    BY DEF StartupInv, TypeOK, StartupPc, WorkPc
  <2>4. rt' \in [Processes -> SafeRuntime] /\ crashed' \subseteq Processes
    BY DEF StartupInv, TypeOK, SafeRuntime, NoRuntime, Journals
  <2>. QED  BY <2>1, <2>2, <2>3, <2>4 DEF TypeOK, FilesTyped, ChainTyped
<1>. SUFFICES ASSUME NEW q \in Processes
              PROVE  PathChecked(q)' /\ LockHeld(q)' /\ EvidenceSeen(q)'
  BY <1>1 DEF StartupInv
<1>2. PathChecked(q)'
  <2>1. Chain = 1..3 /\ level'[p] = 1 /\ pc'[p] = "Root"
    BY DEF StartupInv, TypeOK, Chain, Owned, Ancestors
  <2>2. q # p => pc'[q] = pc[q] /\ level'[q] = level[q]
    BY DEF StartupInv, TypeOK
  <2>3. CASE q = p
    BY <2>1, <2>3 DEF PathChecked, Runs, WorkPc
  <2>4. CASE q # p
    BY <2>2, <2>4 DEF StartupInv, PathChecked, Accepted, Runs
  <2>. QED  BY <2>3, <2>4
<1>3. LockHeld(q)'
  BY DEF StartupInv, StartupAssumption, TypeOK, LockHeld, Runs, WorkPc, StartupPc,
    Journals, Leaves
<1>4. EvidenceSeen(q)'
  BY DEF StartupInv, TypeOK, SafeRuntime, LockHeld, EvidenceSeen, Observed, Runs, WorkPc,
    Absent, Journals, Leaves
<1>. QED  BY <1>2, <1>3, <1>4

(***************************************************************************)
(* A step along the chain: the directory passed, or is missing, or failed. *)
(***************************************************************************)
LEMMA DirectoryStep ==
  ASSUME StartupAssumption, StartupInv, NEW p \in Processes, NEW i \in Chain,
         pc[p] \in {"Root", "CreateDirectory"}, i = level[p],
         ChainTyped', \A j \in Chain : Accepted(j) => Accepted(j)',
         UNCHANGED <<fileVars, rt, crashed>>,
         \/ UNCHANGED level /\ (Goto(p, "Failed") \/ Goto(p, "CreateDirectory"))
         \/ /\ Accepted(i)' /\ level' = [level EXCEPT ![p] = i + 1]
            /\ Goto(p, IF i = 3 THEN "Lock" ELSE "Root")
  PROVE  StartupInv'
<1>. USE DEF Goto, fileVars
<1>0. i \in 1..3 /\ Chain = 1..3 /\ level \in [Processes -> 1..4]
  BY DEF Chain, Owned, Ancestors, StartupInv, TypeOK
<1>1. TypeOK'
  <2>1. level' \in [Processes -> 1..4]
    BY <1>0
  <2>2. pc' \in [Processes -> {"Off", "Failed", "Exiting"} \cup StartupPc \cup WorkPc]
    BY DEF StartupInv, TypeOK, StartupPc
  <2>. QED  BY <2>1, <2>2 DEF StartupInv, TypeOK, ChainTyped
<1>. SUFFICES ASSUME NEW q \in Processes
              PROVE  PathChecked(q)' /\ LockHeld(q)' /\ EvidenceSeen(q)'
  BY <1>1 DEF StartupInv
<1>2. pc \in [Processes -> {"Off", "Failed", "Exiting"} \cup StartupPc \cup WorkPc]
  BY DEF StartupInv, TypeOK
<1>3. pc'[p] \in {"Failed", "CreateDirectory", "Lock", "Root"}
  BY <1>2
<1>4. q # p => pc'[q] = pc[q] /\ level'[q] = level[q]
  BY <1>0, <1>2
<1>5. PathChecked(q)'
  <2>1. CASE q # p
    BY <1>4, <2>1 DEF StartupInv, PathChecked, Runs
  <2>2. CASE q = p /\ UNCHANGED level
    BY <1>0, <1>2, <2>2 DEF StartupInv, PathChecked, Runs, WorkPc
  <2>3. CASE /\ q = p
             /\ Accepted(i)' /\ level' = [level EXCEPT ![p] = i + 1]
             /\ Goto(p, IF i = 3 THEN "Lock" ELSE "Root")
    <3>1. \A j \in Chain : j < i + 1 => Accepted(j)'
      BY <1>0, <2>3 DEF StartupInv, PathChecked
    <3>. QED  BY <1>0, <1>2, <2>3, <3>1 DEF PathChecked, Runs, WorkPc
  <2>. QED  BY <2>1, <2>2, <2>3
<1>6. LockHeld(q)'
  BY <1>3, <1>4 DEF StartupInv, LockHeld, Runs, WorkPc
<1>7. EvidenceSeen(q)'
  BY <1>3, <1>4 DEF StartupInv, EvidenceSeen, Observed
<1>. QED  BY <1>5, <1>6, <1>7

LEMMA OpenDirectoryKeeps ==
  ASSUME StartupAssumption, StartupInv, NEW p \in Processes, OpenDirectory(p)
  PROVE  StartupInv'
<1>1. level[p] \in Chain
  BY DEF StartupInv, PathChecked, OpenDirectory
<1>2. ChainTyped' /\ \A j \in Chain : Accepted(j) => Accepted(j)'
  BY DEF OpenDirectory, StartupInv, ChainTyped, Accepted
<1>3. \/ UNCHANGED level /\ (Goto(p, "Failed") \/ Goto(p, "CreateDirectory"))
      \/ /\ validate(chain[level[p]], level[p] \in Ancestors, TRUE)
         /\ level' = [level EXCEPT ![p] = level[p] + 1]
         /\ Goto(p, IF level[p] = 3 THEN "Lock" ELSE "Root")
  BY DEF OpenDirectory, Validated
<1>. QED  BY <1>1, <1>2, <1>3, DirectoryStep DEF OpenDirectory, Accepted

LEMMA CreateDirectoryKeeps ==
  ASSUME StartupAssumption, StartupInv, NEW p \in Processes, CreateDirectory(p)
  PROVE  StartupInv'
<1>1. level[p] \in Chain
  BY DEF StartupInv, PathChecked, CreateDirectory
<1>2. \/ UNCHANGED <<chain, level>> /\ Goto(p, "Failed")
      \/ /\ chain' = [chain EXCEPT ![level[p]] = PrivateDescriptor]
         /\ Validated(p, level[p], PrivateDescriptor)
  BY DEF CreateDirectory
<1>3. ChainTyped'
  BY <1>1, <1>2 DEF StartupInv, ChainTyped
<1>4. ASSUME NEW j \in Chain, Accepted(j) PROVE Accepted(j)'
  <2>1. CASE chain'[j] = chain[j]
    BY <1>4, <2>1 DEF Accepted
  <2>2. CASE chain'[j] = PrivateDescriptor
    BY <2>2, CreatedIsAccepted, Zenon DEF Accepted
  <2>. QED  BY <1>1, <1>2, <2>1, <2>2 DEF StartupInv, ChainTyped
<1>5. \/ UNCHANGED level /\ Goto(p, "Failed")
      \/ /\ chain'[level[p]] = PrivateDescriptor
         /\ level' = [level EXCEPT ![p] = level[p] + 1]
         /\ Goto(p, IF level[p] = 3 THEN "Lock" ELSE "Root")
  BY <1>1, <1>2 DEF StartupInv, ChainTyped, Validated
<1>6. ASSUME NEW i \in Chain, chain'[i] = PrivateDescriptor PROVE Accepted(i)'
  BY <1>6, CreatedIsAccepted, Zenon DEF Accepted
<1>. QED  BY <1>1, <1>3, <1>4, <1>5, <1>6, DirectoryStep DEF CreateDirectory

LEMMA AcquireLockKeeps ==
  ASSUME StartupAssumption, StartupInv, NEW p \in Processes, AcquireLock(p)
  PROVE  StartupInv'
<1>. USE DEF AcquireLock, Goto, CanOpen, fileVars, vars
<1>1. TypeOK' /\ ChainTyped'
  <2>1. ChainTyped' /\ level' \in [Processes -> 1..4]
    BY DEF StartupInv, TypeOK, ChainTyped, PathChecked, Chain, Owned, Ancestors
  <2>2. FilesTyped'
    BY DEF StartupInv, TypeOK, FilesTyped, Content, Absent, Journals, Leaves
  <2>3. pc' \in [Processes -> {"Off", "Failed", "Exiting"} \cup StartupPc \cup WorkPc]
    BY DEF StartupInv, TypeOK, StartupPc, WorkPc
  <2>4. rt' \in [Processes -> SafeRuntime] /\ crashed' \subseteq Processes
    BY DEF StartupInv, TypeOK, SafeRuntime, NoRuntime, Journals
  <2>. QED  BY <2>1, <2>2, <2>3, <2>4 DEF TypeOK, FilesTyped, ChainTyped
<1>. SUFFICES ASSUME NEW q \in Processes
              PROVE  PathChecked(q)' /\ LockHeld(q)' /\ EvidenceSeen(q)'
  BY <1>1 DEF StartupInv
<1>2. PathChecked(q)'
  BY DEF StartupInv, TypeOK, ChainTyped, PathChecked, Accepted, Runs, WorkPc,
    Chain, Owned, Ancestors
<1>3. LockHeld(q)'
  BY DEF StartupInv, StartupAssumption, TypeOK, LockHeld, Runs, WorkPc, StartupPc,
    Journals, Leaves
<1>4. EvidenceSeen(q)'
  BY DEF StartupInv, TypeOK, SafeRuntime, LockHeld, EvidenceSeen, Observed, Runs, WorkPc,
    Absent, Journals, Leaves
<1>. QED  BY <1>2, <1>3, <1>4

LEMMA CreateLockKeeps ==
  ASSUME StartupAssumption, StartupInv, NEW p \in Processes, CreateLock(p)
  PROVE  StartupInv'
<1>. USE DEF CreateLock, Goto, fileVars, vars
<1>1. TypeOK' /\ ChainTyped'
  <2>1. ChainTyped' /\ level' \in [Processes -> 1..4]
    BY DEF StartupInv, TypeOK, ChainTyped, PathChecked, Chain, Owned, Ancestors
  <2>2. FilesTyped'
    BY DEF StartupInv, TypeOK, FilesTyped, Content, Absent, Journals, Leaves
  <2>3. pc' \in [Processes -> {"Off", "Failed", "Exiting"} \cup StartupPc \cup WorkPc]
    BY DEF StartupInv, TypeOK, StartupPc, WorkPc
  <2>4. rt' \in [Processes -> SafeRuntime] /\ crashed' \subseteq Processes
    BY DEF StartupInv, TypeOK, SafeRuntime, NoRuntime, Journals
  <2>. QED  BY <2>1, <2>2, <2>3, <2>4 DEF TypeOK, FilesTyped, ChainTyped
<1>. SUFFICES ASSUME NEW q \in Processes
              PROVE  PathChecked(q)' /\ LockHeld(q)' /\ EvidenceSeen(q)'
  BY <1>1 DEF StartupInv
<1>2. PathChecked(q)'
  BY DEF StartupInv, TypeOK, ChainTyped, PathChecked, Accepted, Runs, WorkPc,
    Chain, Owned, Ancestors
<1>3. LockHeld(q)'
  BY DEF StartupInv, StartupAssumption, TypeOK, LockHeld, Runs, WorkPc, StartupPc,
    Journals, Leaves
<1>4. EvidenceSeen(q)'
  BY DEF StartupInv, TypeOK, SafeRuntime, LockHeld, EvidenceSeen, Observed, Runs, WorkPc,
    Absent, Journals, Leaves
<1>. QED  BY <1>2, <1>3, <1>4

LEMMA OpenActiveKeeps ==
  ASSUME StartupAssumption, StartupInv, NEW p \in Processes, OpenActive(p)
  PROVE  StartupInv'
<1>. USE DEF OpenActive, Goto, OpenJournal, CanOpen, from_open_error, fileVars, vars
<1>1. TypeOK' /\ ChainTyped'
  <2>1. ChainTyped' /\ level' \in [Processes -> 1..4]
    BY DEF StartupInv, TypeOK, ChainTyped, PathChecked, Chain, Owned, Ancestors
  <2>2. FilesTyped'
    BY DEF StartupInv, TypeOK, FilesTyped, Content, Absent, Journals, Leaves
  <2>3. pc' \in [Processes -> {"Off", "Failed", "Exiting"} \cup StartupPc \cup WorkPc]
    BY DEF StartupInv, TypeOK, StartupPc, WorkPc
  <2>4. rt' \in [Processes -> SafeRuntime] /\ crashed' \subseteq Processes
    BY DEF StartupInv, TypeOK, SafeRuntime, NoRuntime, Journals
  <2>. QED  BY <2>1, <2>2, <2>3, <2>4 DEF TypeOK, FilesTyped, ChainTyped
<1>. SUFFICES ASSUME NEW q \in Processes
              PROVE  PathChecked(q)' /\ LockHeld(q)' /\ EvidenceSeen(q)'
  BY <1>1 DEF StartupInv
<1>2. PathChecked(q)'
  BY DEF StartupInv, TypeOK, ChainTyped, PathChecked, Accepted, Runs, WorkPc,
    Chain, Owned, Ancestors
<1>3. LockHeld(q)'
  BY DEF StartupInv, StartupAssumption, TypeOK, LockHeld, Runs, WorkPc, StartupPc,
    Journals, Leaves
<1>4. EvidenceSeen(q)'
  BY DEF StartupInv, TypeOK, SafeRuntime, LockHeld, EvidenceSeen, Observed, Runs, WorkPc,
    Absent, Journals, Leaves
<1>. QED  BY <1>2, <1>3, <1>4

LEMMA OpenCandidateKeeps ==
  ASSUME StartupAssumption, StartupInv, NEW p \in Processes, OpenCandidate(p)
  PROVE  StartupInv'
<1>. USE DEF OpenCandidate, Goto, OpenJournal, CanOpen, from_open_error, fileVars, vars
<1>1. TypeOK' /\ ChainTyped'
  <2>1. ChainTyped' /\ level' \in [Processes -> 1..4]
    BY DEF StartupInv, TypeOK, ChainTyped, PathChecked, Chain, Owned, Ancestors
  <2>2. FilesTyped'
    BY DEF StartupInv, TypeOK, FilesTyped, Content, Absent, Journals, Leaves
  <2>3. pc' \in [Processes -> {"Off", "Failed", "Exiting"} \cup StartupPc \cup WorkPc]
    BY DEF StartupInv, TypeOK, StartupPc, WorkPc
  <2>4. rt' \in [Processes -> SafeRuntime] /\ crashed' \subseteq Processes
    BY DEF StartupInv, TypeOK, SafeRuntime, NoRuntime, Journals
  <2>. QED  BY <2>1, <2>2, <2>3, <2>4 DEF TypeOK, FilesTyped, ChainTyped
<1>. SUFFICES ASSUME NEW q \in Processes
              PROVE  PathChecked(q)' /\ LockHeld(q)' /\ EvidenceSeen(q)'
  BY <1>1 DEF StartupInv
<1>2. PathChecked(q)'
  BY DEF StartupInv, TypeOK, ChainTyped, PathChecked, Accepted, Runs, WorkPc,
    Chain, Owned, Ancestors
<1>3. LockHeld(q)'
  BY DEF StartupInv, StartupAssumption, TypeOK, LockHeld, Runs, WorkPc, StartupPc,
    Journals, Leaves
<1>4. EvidenceSeen(q)'
  BY DEF StartupInv, TypeOK, SafeRuntime, LockHeld, EvidenceSeen, Observed, Runs, WorkPc,
    Absent, Journals, Leaves
<1>. QED  BY <1>2, <1>3, <1>4

LEMMA SettleKeeps ==
  ASSUME StartupAssumption, StartupInv, NEW p \in Processes, Settle(p)
  PROVE  StartupInv'
<1>. USE DEF Settle, Goto, IsEmptyCandidate, fileVars, vars
<1>1. TypeOK' /\ ChainTyped'
  <2>1. ChainTyped' /\ level' \in [Processes -> 1..4]
    BY DEF StartupInv, TypeOK, ChainTyped, PathChecked, Chain, Owned, Ancestors
  <2>2. FilesTyped'
    BY DEF StartupInv, TypeOK, FilesTyped, Content, Absent, Journals, Leaves
  <2>3. pc' \in [Processes -> {"Off", "Failed", "Exiting"} \cup StartupPc \cup WorkPc]
    BY DEF StartupInv, TypeOK, StartupPc, WorkPc
  <2>4. rt' \in [Processes -> SafeRuntime] /\ crashed' \subseteq Processes
    <3>1. PICK r : /\ rt' = [rt EXCEPT ![p] = r]
                   /\ \/ r = [rt[p] EXCEPT !.collision = TRUE, !.locked = TRUE]
                      \/ r = [rt[p] EXCEPT !.retained = {}]
                      \/ r = [rt[p] EXCEPT !.locked = TRUE]
                      \/ r = [rt[p] EXCEPT !.locked = FALSE]
      OBVIOUS
    <3>2. r \in SafeRuntime
      <4>1. rt[p] \in SafeRuntime
        BY DEF StartupInv, TypeOK
      <4>2. {} \in SUBSET Journals /\ TRUE \in BOOLEAN /\ FALSE \in BOOLEAN
        OBVIOUS
      <4>. QED  BY <3>1, <4>1, <4>2, RuntimeFields, Zenon
    <3>. QED  BY <3>1, <3>2 DEF StartupInv, TypeOK
  <2>. QED  BY <2>1, <2>2, <2>3, <2>4 DEF TypeOK, FilesTyped, ChainTyped
<1>. SUFFICES ASSUME NEW q \in Processes
              PROVE  PathChecked(q)' /\ LockHeld(q)' /\ EvidenceSeen(q)'
  BY <1>1 DEF StartupInv
<1>2. PathChecked(q)'
  BY DEF StartupInv, TypeOK, ChainTyped, PathChecked, Accepted, Runs, WorkPc,
    Chain, Owned, Ancestors
<1>3. LockHeld(q)'
  BY DEF StartupInv, StartupAssumption, TypeOK, LockHeld, Runs, WorkPc, StartupPc,
    Journals, Leaves
<1>4. EvidenceSeen(q)'
  <2>1. CASE q # p
    <3>1. ~Runs(q)
      BY <2>1 DEF StartupInv, LockHeld, Runs
    <3>2. pc'[q] = pc[q]
      BY <2>1 DEF StartupInv, TypeOK
    <3>. QED  BY <3>1, <3>2 DEF EvidenceSeen, Runs, WorkPc
  <2>2. CASE q = p
    <3>1. pc'[p] = "Ready" /\ \A leaf \in Journals : content[leaf] # Absent => leaf \in Observed(p)
      BY DEF StartupInv, TypeOK, EvidenceSeen
    <3>2. ~rt'[p].locked => \A leaf \in Journals : content'[leaf] = Absent
      <4>1. rt \in [Processes -> SafeRuntime] /\ rt[p] \in SafeRuntime
        BY DEF StartupInv, TypeOK
      <4>2. content \in [Leaves -> Content \cup {Absent}]
        BY DEF StartupInv, TypeOK
      <4>3. CASE Observed(p) # Journals /\ IsEmptyCandidate(p)
                 /\ content' = [content EXCEPT !["Candidate"] = Absent]
        <5>1. Observed(p) \subseteq Journals /\ "Candidate" \in Observed(p)
          BY <4>1, <4>3 DEF SafeRuntime, Observed
        <5>2. "Active" \notin Observed(p)
          BY <4>3, <5>1 DEF Journals
        <5>. QED  BY <3>1, <4>2, <4>3, <5>2 DEF Journals, Leaves
      <4>4. CASE rt'[p].locked
        BY <4>4
      <4>5. CASE /\ Observed(p) # Journals /\ ~IsEmptyCandidate(p)
                 /\ rt' = [rt EXCEPT ![p].locked = Observed(p) # {}]
                 /\ UNCHANGED content
        <5>1. rt'[p].locked = (Observed(p) # {})
          BY <4>1, <4>5 DEF SafeRuntime
        <5>. QED  BY <3>1, <4>5, <5>1
      <4>6. \/ rt' = [rt EXCEPT ![p].collision = TRUE, ![p].locked = TRUE]
            \/ rt' = [rt EXCEPT ![p].locked = TRUE]
            => rt'[p].locked
        BY <4>1 DEF SafeRuntime
      <4>. QED  BY <4>3, <4>4, <4>5, <4>6
    <3>. QED  BY <2>2, <3>1, <3>2 DEF EvidenceSeen
  <2>. QED  BY <2>1, <2>2
<1>. QED  BY <1>2, <1>3, <1>4

LEMMA StageJournalKeeps ==
  ASSUME StartupAssumption, StartupInv, NEW p \in Processes, StageJournal(p)
  PROVE  StartupInv'
<1>. USE DEF StageJournal, Goto, fileVars, vars
<1>1. TypeOK' /\ ChainTyped'
  <2>1. ChainTyped' /\ level' \in [Processes -> 1..4]
    BY DEF StartupInv, TypeOK, ChainTyped, PathChecked, Chain, Owned, Ancestors
  <2>2. FilesTyped'
    BY DEF StartupInv, TypeOK, FilesTyped, Content, Absent, Journals, Leaves
  <2>3. pc' \in [Processes -> {"Off", "Failed", "Exiting"} \cup StartupPc \cup WorkPc]
    BY DEF StartupInv, TypeOK, StartupPc, WorkPc
  <2>4. rt' \in [Processes -> SafeRuntime] /\ crashed' \subseteq Processes
    BY DEF StartupInv, TypeOK, SafeRuntime, NoRuntime, Journals
  <2>. QED  BY <2>1, <2>2, <2>3, <2>4 DEF TypeOK, FilesTyped, ChainTyped
<1>. SUFFICES ASSUME NEW q \in Processes
              PROVE  PathChecked(q)' /\ LockHeld(q)' /\ EvidenceSeen(q)'
  BY <1>1 DEF StartupInv
<1>2. PathChecked(q)'
  BY DEF StartupInv, TypeOK, ChainTyped, PathChecked, Accepted, Runs, WorkPc,
    Chain, Owned, Ancestors
<1>3. LockHeld(q)'
  BY DEF StartupInv, StartupAssumption, TypeOK, LockHeld, Runs, WorkPc, StartupPc,
    Journals, Leaves
<1>4. EvidenceSeen(q)'
  BY DEF StartupInv, TypeOK, SafeRuntime, LockHeld, EvidenceSeen, Observed, Runs, WorkPc,
    Absent, Journals, Leaves
<1>. QED  BY <1>2, <1>3, <1>4

LEMMA BeginJournalKeeps ==
  ASSUME StartupAssumption, StartupInv, NEW p \in Processes, BeginJournal(p)
  PROVE  StartupInv'
<1>. USE DEF BeginJournal, Goto, Lock, fileVars, vars
<1>1. TypeOK' /\ ChainTyped'
  <2>1. ChainTyped' /\ level' \in [Processes -> 1..4]
    BY DEF StartupInv, TypeOK, ChainTyped, PathChecked, Chain, Owned, Ancestors
  <2>2. FilesTyped'
    BY DEF StartupInv, TypeOK, FilesTyped, Content, Absent, Journals, Leaves
  <2>3. pc' \in [Processes -> {"Off", "Failed", "Exiting"} \cup StartupPc \cup WorkPc]
    BY DEF StartupInv, TypeOK, StartupPc, WorkPc
  <2>4. rt' \in [Processes -> SafeRuntime] /\ crashed' \subseteq Processes
    <3>1. [rt[p] EXCEPT !.locked = TRUE, !.retained = {"Candidate"}] \in SafeRuntime
      BY RuntimeFields DEF StartupInv, TypeOK, Journals
    <3>2. rt' = rt \/ rt' = [rt EXCEPT ![p] = [rt[p] EXCEPT !.locked = TRUE,
                                                          !.retained = {"Candidate"}]]
      BY DEF StartupInv, TypeOK, SafeRuntime
    <3>. QED  BY <3>1, <3>2 DEF StartupInv, TypeOK
  <2>. QED  BY <2>1, <2>2, <2>3, <2>4 DEF TypeOK, FilesTyped, ChainTyped
<1>. SUFFICES ASSUME NEW q \in Processes
              PROVE  PathChecked(q)' /\ LockHeld(q)' /\ EvidenceSeen(q)'
  BY <1>1 DEF StartupInv
<1>2. PathChecked(q)'
  BY DEF StartupInv, TypeOK, ChainTyped, PathChecked, Accepted, Runs, WorkPc,
    Chain, Owned, Ancestors
<1>3. LockHeld(q)'
  BY DEF StartupInv, StartupAssumption, TypeOK, LockHeld, Runs, WorkPc, StartupPc,
    Journals, Leaves
<1>4. EvidenceSeen(q)'
  BY DEF StartupInv, TypeOK, SafeRuntime, LockHeld, EvidenceSeen, Observed, Runs, WorkPc,
    Absent, Journals, Leaves
<1>. QED  BY <1>2, <1>3, <1>4

LEMMA FinishWorkKeeps ==
  ASSUME StartupAssumption, StartupInv, NEW p \in Processes, FinishWork(p)
  PROVE  StartupInv'
<1>. USE DEF FinishWork, Goto, Lock, fileVars, vars
<1>1. TypeOK' /\ ChainTyped'
  <2>1. ChainTyped' /\ level' \in [Processes -> 1..4]
    BY DEF StartupInv, TypeOK, ChainTyped, PathChecked, Chain, Owned, Ancestors
  <2>2. FilesTyped'
    BY DEF StartupInv, TypeOK, FilesTyped, Content, Absent, Journals, Leaves
  <2>3. pc' \in [Processes -> {"Off", "Failed", "Exiting"} \cup StartupPc \cup WorkPc]
    BY DEF StartupInv, TypeOK, StartupPc, WorkPc
  <2>4. rt' \in [Processes -> SafeRuntime] /\ crashed' \subseteq Processes
    <3>1. [rt[p] EXCEPT !.locked = TRUE, !.retained = {"Active"}] \in SafeRuntime
      BY RuntimeFields DEF StartupInv, TypeOK, Journals
    <3>2. rt' = rt \/ rt' = [rt EXCEPT ![p] = [rt[p] EXCEPT !.locked = TRUE,
                                                          !.retained = {"Active"}]]
      BY DEF StartupInv, TypeOK, SafeRuntime
    <3>. QED  BY <3>1, <3>2 DEF StartupInv, TypeOK
  <2>. QED  BY <2>1, <2>2, <2>3, <2>4 DEF TypeOK, FilesTyped, ChainTyped
<1>. SUFFICES ASSUME NEW q \in Processes
              PROVE  PathChecked(q)' /\ LockHeld(q)' /\ EvidenceSeen(q)'
  BY <1>1 DEF StartupInv
<1>2. PathChecked(q)'
  BY DEF StartupInv, TypeOK, ChainTyped, PathChecked, Accepted, Runs, WorkPc,
    Chain, Owned, Ancestors
<1>3. LockHeld(q)'
  BY DEF StartupInv, StartupAssumption, TypeOK, LockHeld, Runs, WorkPc, StartupPc,
    Journals, Leaves
<1>4. EvidenceSeen(q)'
  BY DEF StartupInv, TypeOK, SafeRuntime, LockHeld, EvidenceSeen, Observed, Runs, WorkPc,
    Absent, Journals, Leaves
<1>. QED  BY <1>2, <1>3, <1>4

LEMMA CleanupKeeps ==
  ASSUME StartupAssumption, StartupInv, NEW p \in Processes, cleanup_file_journal(p)
  PROVE  StartupInv'
<1>. USE DEF cleanup_file_journal, Goto, Lock, fileVars, vars
<1>1. TypeOK' /\ ChainTyped'
  <2>1. ChainTyped' /\ level' \in [Processes -> 1..4]
    BY DEF StartupInv, TypeOK, ChainTyped, PathChecked, Chain, Owned, Ancestors
  <2>2. FilesTyped'
    BY DEF StartupInv, TypeOK, FilesTyped, Content, Absent, Journals, Leaves
  <2>3. pc' \in [Processes -> {"Off", "Failed", "Exiting"} \cup StartupPc \cup WorkPc]
    BY DEF StartupInv, TypeOK, StartupPc, WorkPc
  <2>4. rt' \in [Processes -> SafeRuntime] /\ crashed' \subseteq Processes
    <3>1. [rt[p] EXCEPT !.locked = TRUE, !.retained = {"Active"}] \in SafeRuntime
      BY RuntimeFields DEF StartupInv, TypeOK, Journals
    <3>2. rt' = rt \/ rt' = [rt EXCEPT ![p] = [rt[p] EXCEPT !.locked = TRUE,
                                                          !.retained = {"Active"}]]
      BY DEF StartupInv, TypeOK, SafeRuntime
    <3>. QED  BY <3>1, <3>2 DEF StartupInv, TypeOK
  <2>. QED  BY <2>1, <2>2, <2>3, <2>4 DEF TypeOK, FilesTyped, ChainTyped
<1>. SUFFICES ASSUME NEW q \in Processes
              PROVE  PathChecked(q)' /\ LockHeld(q)' /\ EvidenceSeen(q)'
  BY <1>1 DEF StartupInv
<1>2. PathChecked(q)'
  BY DEF StartupInv, TypeOK, ChainTyped, PathChecked, Accepted, Runs, WorkPc,
    Chain, Owned, Ancestors
<1>3. LockHeld(q)'
  BY DEF StartupInv, StartupAssumption, TypeOK, LockHeld, Runs, WorkPc, StartupPc,
    Journals, Leaves
<1>4. EvidenceSeen(q)'
  BY DEF StartupInv, TypeOK, SafeRuntime, LockHeld, EvidenceSeen, Observed, Runs, WorkPc,
    Absent, Journals, Leaves
<1>. QED  BY <1>2, <1>3, <1>4

LEMMA ExitKeeps ==
  ASSUME StartupAssumption, StartupInv, NEW p \in Processes, Exit(p)
  PROVE  StartupInv'
<1>. USE DEF Exit, Goto, fileVars, vars
<1>1. TypeOK' /\ ChainTyped'
  <2>1. ChainTyped' /\ level' \in [Processes -> 1..4]
    BY DEF StartupInv, TypeOK, ChainTyped, PathChecked, Chain, Owned, Ancestors
  <2>2. FilesTyped'
    BY DEF StartupInv, TypeOK, FilesTyped, Content, Absent, Journals, Leaves
  <2>3. pc' \in [Processes -> {"Off", "Failed", "Exiting"} \cup StartupPc \cup WorkPc]
    BY DEF StartupInv, TypeOK, StartupPc, WorkPc
  <2>4. rt' \in [Processes -> SafeRuntime] /\ crashed' \subseteq Processes
    BY DEF StartupInv, TypeOK, SafeRuntime, NoRuntime, Journals
  <2>. QED  BY <2>1, <2>2, <2>3, <2>4 DEF TypeOK, FilesTyped, ChainTyped
<1>. SUFFICES ASSUME NEW q \in Processes
              PROVE  PathChecked(q)' /\ LockHeld(q)' /\ EvidenceSeen(q)'
  BY <1>1 DEF StartupInv
<1>2. PathChecked(q)'
  BY DEF StartupInv, TypeOK, ChainTyped, PathChecked, Accepted, Runs, WorkPc,
    Chain, Owned, Ancestors
<1>3. LockHeld(q)'
  BY DEF StartupInv, StartupAssumption, TypeOK, LockHeld, Runs, WorkPc, StartupPc,
    Journals, Leaves
<1>4. EvidenceSeen(q)'
  BY DEF StartupInv, TypeOK, SafeRuntime, LockHeld, EvidenceSeen, Observed, Runs, WorkPc,
    Absent, Journals, Leaves
<1>. QED  BY <1>2, <1>3, <1>4

LEMMA CrashKeeps ==
  ASSUME StartupAssumption, StartupInv, NEW p \in Processes, Crash(p)
  PROVE  StartupInv'
<1>. USE DEF Crash, Goto, fileVars, vars
<1>1. TypeOK' /\ ChainTyped'
  <2>1. ChainTyped' /\ level' \in [Processes -> 1..4]
    BY DEF StartupInv, TypeOK, ChainTyped, PathChecked, Chain, Owned, Ancestors
  <2>2. FilesTyped'
    BY DEF StartupInv, TypeOK, FilesTyped, Content, Absent, Journals, Leaves
  <2>3. pc' \in [Processes -> {"Off", "Failed", "Exiting"} \cup StartupPc \cup WorkPc]
    BY DEF StartupInv, TypeOK, StartupPc, WorkPc
  <2>4. rt' \in [Processes -> SafeRuntime] /\ crashed' \subseteq Processes
    BY DEF StartupInv, TypeOK, SafeRuntime, NoRuntime, Journals
  <2>. QED  BY <2>1, <2>2, <2>3, <2>4 DEF TypeOK, FilesTyped, ChainTyped
<1>. SUFFICES ASSUME NEW q \in Processes
              PROVE  PathChecked(q)' /\ LockHeld(q)' /\ EvidenceSeen(q)'
  BY <1>1 DEF StartupInv
<1>2. PathChecked(q)'
  BY DEF StartupInv, TypeOK, ChainTyped, PathChecked, Accepted, Runs, WorkPc,
    Chain, Owned, Ancestors
<1>3. LockHeld(q)'
  BY DEF StartupInv, StartupAssumption, TypeOK, LockHeld, Runs, WorkPc, StartupPc,
    Journals, Leaves
<1>4. EvidenceSeen(q)'
  BY DEF StartupInv, TypeOK, SafeRuntime, LockHeld, EvidenceSeen, Observed, Runs, WorkPc,
    Absent, Journals, Leaves
<1>. QED  BY <1>2, <1>3, <1>4

LEMMA CloseHandleKeeps ==
  ASSUME StartupAssumption, StartupInv, NEW p \in Processes, CloseHandle(p)
  PROVE  StartupInv'
<1>. USE DEF CloseHandle, Held, DropNext, fileVars, vars
<1>1. TypeOK' /\ ChainTyped'
  <2>1. ChainTyped' /\ level' \in [Processes -> 1..4]
    BY DEF StartupInv, TypeOK, ChainTyped, PathChecked, Chain, Owned, Ancestors
  <2>2. FilesTyped'
    BY DEF StartupInv, TypeOK, FilesTyped, Content, Absent, Journals, Leaves
  <2>3. pc' \in [Processes -> {"Off", "Failed", "Exiting"} \cup StartupPc \cup WorkPc]
    BY DEF StartupInv, TypeOK, StartupPc, WorkPc
  <2>4. rt' \in [Processes -> SafeRuntime] /\ crashed' \subseteq Processes
    BY DEF StartupInv, TypeOK, SafeRuntime, NoRuntime, Journals
  <2>. QED  BY <2>1, <2>2, <2>3, <2>4 DEF TypeOK, FilesTyped, ChainTyped
<1>. SUFFICES ASSUME NEW q \in Processes
              PROVE  PathChecked(q)' /\ LockHeld(q)' /\ EvidenceSeen(q)'
  BY <1>1 DEF StartupInv
<1>2. PathChecked(q)'
  BY DEF StartupInv, TypeOK, ChainTyped, PathChecked, Accepted, Runs, WorkPc,
    Chain, Owned, Ancestors
<1>3. LockHeld(q)'
  BY DEF StartupInv, StartupAssumption, TypeOK, LockHeld, Runs, WorkPc, StartupPc,
    Journals, Leaves
<1>4. EvidenceSeen(q)'
  BY DEF StartupInv, TypeOK, SafeRuntime, LockHeld, EvidenceSeen, Observed, Runs, WorkPc,
    Absent, Journals, Leaves
<1>. QED  BY <1>2, <1>3, <1>4

LEMMA GoneKeeps ==
  ASSUME StartupAssumption, StartupInv, NEW p \in Processes, Gone(p)
  PROVE  StartupInv'
<1>. USE DEF Gone, Goto, Held, fileVars, vars
<1>1. TypeOK' /\ ChainTyped'
  <2>1. ChainTyped' /\ level' \in [Processes -> 1..4]
    BY DEF StartupInv, TypeOK, ChainTyped, PathChecked, Chain, Owned, Ancestors
  <2>2. FilesTyped'
    BY DEF StartupInv, TypeOK, FilesTyped, Content, Absent, Journals, Leaves
  <2>3. pc' \in [Processes -> {"Off", "Failed", "Exiting"} \cup StartupPc \cup WorkPc]
    BY DEF StartupInv, TypeOK, StartupPc, WorkPc
  <2>4. rt' \in [Processes -> SafeRuntime] /\ crashed' \subseteq Processes
    BY DEF StartupInv, TypeOK, SafeRuntime, NoRuntime, Journals
  <2>. QED  BY <2>1, <2>2, <2>3, <2>4 DEF TypeOK, FilesTyped, ChainTyped
<1>. SUFFICES ASSUME NEW q \in Processes
              PROVE  PathChecked(q)' /\ LockHeld(q)' /\ EvidenceSeen(q)'
  BY <1>1 DEF StartupInv
<1>2. PathChecked(q)'
  BY DEF StartupInv, TypeOK, ChainTyped, PathChecked, Accepted, Runs, WorkPc,
    Chain, Owned, Ancestors
<1>3. LockHeld(q)'
  BY DEF StartupInv, StartupAssumption, TypeOK, LockHeld, Runs, WorkPc, StartupPc,
    Journals, Leaves
<1>4. EvidenceSeen(q)'
  BY DEF StartupInv, TypeOK, SafeRuntime, LockHeld, EvidenceSeen, Observed, Runs, WorkPc,
    Absent, Journals, Leaves
<1>. QED  BY <1>2, <1>3, <1>4

LEMMA OutsiderOpensKeeps ==
  ASSUME StartupAssumption, StartupInv, OutsiderOpens
  PROVE  StartupInv'
<1>. USE DEF OutsiderOpens, CanOpen, fileVars, vars
<1>1. TypeOK' /\ ChainTyped'
  <2>1. ChainTyped' /\ level' \in [Processes -> 1..4]
    BY DEF StartupInv, TypeOK, ChainTyped, PathChecked, Chain, Owned, Ancestors
  <2>2. FilesTyped'
    BY DEF StartupInv, TypeOK, FilesTyped, Content, Absent, Journals, Leaves
  <2>3. pc' \in [Processes -> {"Off", "Failed", "Exiting"} \cup StartupPc \cup WorkPc]
    BY DEF StartupInv, TypeOK, StartupPc, WorkPc
  <2>4. rt' \in [Processes -> SafeRuntime] /\ crashed' \subseteq Processes
    BY DEF StartupInv, TypeOK, SafeRuntime, NoRuntime, Journals
  <2>. QED  BY <2>1, <2>2, <2>3, <2>4 DEF TypeOK, FilesTyped, ChainTyped
<1>. SUFFICES ASSUME NEW q \in Processes
              PROVE  PathChecked(q)' /\ LockHeld(q)' /\ EvidenceSeen(q)'
  BY <1>1 DEF StartupInv
<1>2. PathChecked(q)'
  BY DEF StartupInv, TypeOK, ChainTyped, PathChecked, Accepted, Runs, WorkPc,
    Chain, Owned, Ancestors
<1>3. LockHeld(q)'
  BY DEF StartupInv, StartupAssumption, TypeOK, LockHeld, Runs, WorkPc, StartupPc,
    Journals, Leaves
<1>4. EvidenceSeen(q)'
  BY DEF StartupInv, TypeOK, SafeRuntime, LockHeld, EvidenceSeen, Observed, Runs, WorkPc,
    Absent, Journals, Leaves
<1>. QED  BY <1>2, <1>3, <1>4

LEMMA OutsiderClosesKeeps ==
  ASSUME StartupAssumption, StartupInv, OutsiderCloses
  PROVE  StartupInv'
<1>. USE DEF OutsiderCloses, CanOpen, fileVars, vars
<1>1. TypeOK' /\ ChainTyped'
  <2>1. ChainTyped' /\ level' \in [Processes -> 1..4]
    BY DEF StartupInv, TypeOK, ChainTyped, PathChecked, Chain, Owned, Ancestors
  <2>2. FilesTyped'
    BY DEF StartupInv, TypeOK, FilesTyped, Content, Absent, Journals, Leaves
  <2>3. pc' \in [Processes -> {"Off", "Failed", "Exiting"} \cup StartupPc \cup WorkPc]
    BY DEF StartupInv, TypeOK, StartupPc, WorkPc
  <2>4. rt' \in [Processes -> SafeRuntime] /\ crashed' \subseteq Processes
    BY DEF StartupInv, TypeOK, SafeRuntime, NoRuntime, Journals
  <2>. QED  BY <2>1, <2>2, <2>3, <2>4 DEF TypeOK, FilesTyped, ChainTyped
<1>. SUFFICES ASSUME NEW q \in Processes
              PROVE  PathChecked(q)' /\ LockHeld(q)' /\ EvidenceSeen(q)'
  BY <1>1 DEF StartupInv
<1>2. PathChecked(q)'
  BY DEF StartupInv, TypeOK, ChainTyped, PathChecked, Accepted, Runs, WorkPc,
    Chain, Owned, Ancestors
<1>3. LockHeld(q)'
  BY DEF StartupInv, StartupAssumption, TypeOK, LockHeld, Runs, WorkPc, StartupPc,
    Journals, Leaves
<1>4. EvidenceSeen(q)'
  BY DEF StartupInv, TypeOK, SafeRuntime, LockHeld, EvidenceSeen, Observed, Runs, WorkPc,
    Absent, Journals, Leaves
<1>. QED  BY <1>2, <1>3, <1>4

(***************************************************************************)
(* The invariant is inductive, and it is what the properties need.         *)
(***************************************************************************)
LEMMA StartupStutters == ASSUME StartupInv, UNCHANGED vars PROVE StartupInv'
BY DEF vars, StartupInv, TypeOK, ChainTyped, PathChecked, Accepted, LockHeld, EvidenceSeen,
  Observed, Runs

LEMMA StartupSteps ==
  ASSUME StartupAssumption, StartupInv, [Next]_vars
  PROVE  StartupInv'
BY StartKeeps, OpenDirectoryKeeps, CreateDirectoryKeeps, AcquireLockKeeps, CreateLockKeeps,
  OpenActiveKeeps, OpenCandidateKeeps, SettleKeeps, StageJournalKeeps, BeginJournalKeeps,
  FinishWorkKeeps, CleanupKeeps, ExitKeeps, CrashKeeps, CloseHandleKeeps, GoneKeeps,
  OutsiderOpensKeeps, OutsiderClosesKeeps, StartupStutters
DEF Next, ProcessStep

LEMMA StartupInvSuffices ==
  ASSUME StartupAssumption, StartupInv
  PROVE  /\ OneRuntime /\ UnlockedMeansNoEvidence /\ LockOutlivesJournals
         /\ StateIsPrivate
<1>1. OneRuntime /\ LockOutlivesJournals
  BY DEF StartupInv, LockHeld, OneRuntime, LockOutlivesJournals
<1>2. UnlockedMeansNoEvidence
  BY DEF StartupInv, EvidenceSeen, UnlockedMeansNoEvidence, Journals
<1>3. ASSUME NEW p \in Processes, Runs(p), NEW i \in Owned
      PROVE  OutsiderRights(chain[i]) \subseteq {"Execute", "Synchronize"}
  <2>1. Accepted(i) /\ i \notin Ancestors
    BY <1>3 DEF StartupInv, PathChecked, Owned, Ancestors, Chain
  <2>2. validate(chain[i], FALSE, TRUE)
    BY <2>1 DEF Accepted, validate, OwnerAccepted, AceAccepted, allowed_sid, Dangerous
  <2>3. FileRights \ Dangerous(FALSE, TRUE) \subseteq {"Execute", "Synchronize"}
    BY DEF FileRights, Dangerous
  <2>. QED  BY <2>2, <2>3, AcceptedIsPrivate
<1>4. ASSUME NEW p \in Processes, Runs(p), NEW i \in Ancestors
      PROVE  OutsiderRights(chain[i]) \cap {"Delete", "DeleteChild", "WriteDac"} = {}
  <2>1. Accepted(i)
    BY <1>4 DEF StartupInv, PathChecked, Chain
  <2>2. validate(chain[i], TRUE, TRUE)
    BY <1>4, <2>1 DEF Accepted
  <2>3. Dangerous(TRUE, TRUE) = {"Delete", "DeleteChild", "WriteDac"}
    BY DEF Dangerous
  <2>. QED  BY <2>2, <2>3, AcceptedIsPrivate
<1>5. StateIsPrivate
  BY <1>3, <1>4 DEF StateIsPrivate
<1>. QED  BY <1>1, <1>2, <1>5

(***************************************************************************)
(* For any number of processes and any descriptors of the directories:     *)
(* one process at most is past the lock, Apply is unlocked only without a  *)
(* journal, a clean exit leaves no journal open behind the lock, and a     *)
(* process runs only in directories that are closed to other accounts      *)
(* (initialize_safe_runtime_at, SafeRuntime, private_state.rs).            *)
(***************************************************************************)
THEOREM StartupAlwaysExclusive ==
  ASSUME StartupAssumption
  PROVE  Spec => [](/\ TypeOK /\ OneRuntime /\ UnlockedMeansNoEvidence
                    /\ LockOutlivesJournals /\ StateIsPrivate)
<1>1. Init => StartupInv
  BY StartupInvInit
<1>2. StartupInv /\ [Next]_vars => StartupInv'
  BY StartupSteps
<1>3. StartupInv => /\ TypeOK /\ OneRuntime /\ UnlockedMeansNoEvidence
                    /\ LockOutlivesJournals /\ StateIsPrivate
  BY StartupInvSuffices DEF StartupInv
<1>. QED  BY <1>1, <1>2, <1>3, PTL DEF Spec

\* Only the writer of a journal, or an Apply that is done with it, empties its name.
LEMMA StartupKeepsEvidenceStep ==
  ASSUME StartupInv, [Next]_vars
  PROVE  StartupKeepsEvidence
<1>. SUFFICES ASSUME NEW leaf \in Journals,
                     content[leaf] \notin {Absent, "Empty"}, content'[leaf] = Absent
              PROVE  \E p \in Processes : pc[p] \in {"Staged", "Done"}
  BY DEF StartupKeepsEvidence
<1>1. content \in [Leaves -> Content \cup {Absent}] /\ content' # content
  BY DEF StartupInv, TypeOK
<1>2. PICK p \in Processes : ProcessStep(p)
  BY <1>1 DEF Next, OutsiderOpens, OutsiderCloses, vars
<1>3. \/ CreateLock(p) \/ Settle(p) \/ StageJournal(p) \/ BeginJournal(p)
      \/ FinishWork(p) \/ cleanup_file_journal(p)
  BY <1>1, <1>2 DEF ProcessStep, Start, OpenDirectory, CreateDirectory, AcquireLock,
    OpenActive, OpenCandidate, Exit, Crash, CloseHandle, Gone, fileVars
<1>4. ~CreateLock(p) /\ ~Settle(p) /\ ~StageJournal(p) /\ ~FinishWork(p)
  BY <1>1 DEF CreateLock, Settle, IsEmptyCandidate, StageJournal, FinishWork,
    Leaves, Journals, Absent
<1>. QED  BY <1>3, <1>4 DEF BeginJournal, cleanup_file_journal

(***************************************************************************)
(* For any number of processes: no start removes a journal that holds      *)
(* anything; only an Apply that wrote it or is done with it does           *)
(* (initialize_safe_runtime_at, cleanup_file_journal).                     *)
(***************************************************************************)
THEOREM StartupAlwaysKeepsEvidence ==
  ASSUME StartupAssumption
  PROVE  Spec => [][StartupKeepsEvidence]_vars
<1>1. Init => StartupInv
  BY StartupInvInit
<1>2. StartupInv /\ [Next]_vars => StartupInv'
  BY StartupSteps
<1>3. StartupInv /\ [Next]_vars => [StartupKeepsEvidence]_vars
  BY StartupKeepsEvidenceStep
<1>. QED  BY <1>1, <1>2, <1>3, PTL DEF Spec

=============================================================================
