----------------------------- MODULE NodeConfig -----------------------------
(***************************************************************************)
(* Settings Proxploy changes in Proxmox by reading a whole value and       *)
(* writing a whole value back: a guest's NIC and a VM's options (comma     *)
(* separated strings), the slot a CD-ROM drive goes into, and the          *)
(* privilege list of a role it repairs.  Anything the write does not carry *)
(* over is lost, and anything changed between the read and the write is    *)
(* overwritten.  The node's network file is different: edits are staged    *)
(* beside it, by everybody, and one apply promotes them all.               *)
(***************************************************************************)
EXTENDS Naturals, FiniteSets, Functions

CONSTANTS
    Editors,     \* requests that change something
    Needed,      \* privileges Proxploy's role should carry
    ByHand,      \* privileges an administrator may add to the same role
    Bridges,     \* interfaces that may be staged
    MaxTouches   \* bound: changes made in Proxmox directly, and repairs

ASSUME NodeConfigAssumption == MaxTouches \in Nat

VARIABLES
    text,       \* text[s]: a property string, sub-key -> value
    slots,      \* slots[i]: what an ide slot of the VM holds
    role,       \* privileges the role holds
    files,      \* [live, staged]: the node's network file and its .new
    edit,       \* edit[e]: what request e has read and means to write
    applies,    \* requests whose confirmed apply is a pending job
    wiped,      \* ghost: <<key, changed since read>> a write overwrote
    crushed,    \* ghost: <<slot, disk seen>> disks a CD-ROM replaced
    dropped,    \* ghost: privileges taken away: <<privilege, seen by reader>>
    touches

nodeConfigVars == <<text, slots, role, files, edit, applies, wiped, crushed,
                    dropped, touches>>
stringVars == <<text, wiped>>
cdVars == <<slots, crushed>>
roleVars == <<role, dropped>>
fileVars == <<files, applies>>

(* One NIC and one option; "id" is the sub-key no editor knows: the MAC    *)
(* address of the NIC, the machine id inside smbios1.                      *)
Strings == {"net0", "smbios1"}
Keys == {"id", "x", "y"}
IdeSlots == {1, 2}
NoEdit == [at |-> "idle"]
Done == [at |-> "done"]
Absent == "absent"

NodeConfigInit ==
    /\ text = [s \in Strings |-> [k \in Keys |-> IF k = "y" THEN Absent ELSE "born"]]
    /\ slots \in [IdeSlots -> {"empty", "cdrom", "disk"}]
    /\ role \in SUBSET (Needed \cup ByHand)
    /\ files = [live |-> {}, staged |-> {}]
    /\ edit = [e \in Editors |-> NoEdit]
    /\ applies = {}
    /\ wiped = {}
    /\ crushed = {}
    /\ dropped = {}
    /\ touches = 0

Turns(e, next) == edit' = [edit EXCEPT ![e] = next]

(***************************************************************************)
(* Strings: set_guest_nic and vm_options_update                            *)
(***************************************************************************)
(* Only the keys present in the request change, and an explicit null takes *)
(* the key out.  The rest is what parse_net kept of the string read.       *)
Asks == {[y |-> "new"], [x |-> Absent], [x |-> "new"]}

Carried(read, ask) ==
    [k \in Keys |-> IF k \in DOMAIN ask THEN ask[k] ELSE read[k]]

(* The read is the monitoring token's, the write the lifecycle token's: a  *)
(* host that lacks either refuses before anything is sent.                 *)
StringRead(e, s, ask) ==
    /\ edit[e] = NoEdit
    /\ \/ Turns(e, [at |-> "string", string |-> s, ask |-> ask, read |-> text[s]])
       \/ Turns(e, Done)
    /\ UNCHANGED <<stringVars, cdVars, roleVars, fileVars, touches>>

StringWritten(e, s) ==
    /\ edit[e].at = "string" /\ edit[e].string = s
    /\ text' = [text EXCEPT ![s] = Carried(edit[e].read, edit[e].ask)]
    /\ wiped' = wiped \cup
         {<<k, text[s][k] # edit[e].read[k]>> :
            k \in {j \in Keys \ DOMAIN edit[e].ask : text'[s][j] # text[s][j]}}
    /\ Turns(e, Done)
    /\ UNCHANGED <<cdVars, roleVars, fileVars, touches>>

(***************************************************************************)
(* The CD-ROM drive: vm_cdrom_update                                       *)
(***************************************************************************)
(* The slot the drive is in, else one with nothing in it, else a refusal.  *)
WriteSlot(seen) ==
    IF \E i \in IdeSlots : seen[i] = "cdrom"
    THEN {i \in IdeSlots : seen[i] = "cdrom"}
    ELSE {i \in IdeSlots : seen[i] = "empty"}

CdromRead(e) ==
    /\ edit[e] = NoEdit
    /\ IF WriteSlot(slots) = {} THEN Turns(e, Done)
       ELSE \E i \in WriteSlot(slots) :
              Turns(e, [at |-> "cdrom", slot |-> i, saw |-> slots[i]])
    /\ UNCHANGED <<stringVars, cdVars, roleVars, fileVars, touches>>

CdromWritten(e) ==
    /\ edit[e].at = "cdrom"
    /\ LET i == edit[e].slot IN
       /\ slots' = [slots EXCEPT ![i] = "cdrom"]
       /\ crushed' = IF slots[i] = "disk"
                     THEN crushed \cup {<<i, edit[e].saw = "disk">>} ELSE crushed
    /\ Turns(e, Done)
    /\ UNCHANGED <<stringVars, roleVars, fileVars, touches>>

(***************************************************************************)
(* The role: repair_host_privileges                                        *)
(***************************************************************************)
(* The plan: what the token is short of.  The list to keep is read from    *)
(* the role itself, and is Unknown when the answer is refused or empty.    *)
RepairReads(e) ==
    /\ edit[e] = NoEdit
    /\ touches < MaxTouches
    /\ touches' = touches + 1
    /\ Needed \ role # {}
    /\ \E existing \in {role, {}} :
         Turns(e, IF existing = {} THEN Done
               ELSE [at |-> "role", missing |-> Needed \ role,
                     existing |-> existing])
    /\ UNCHANGED <<stringVars, cdVars, roleVars, fileVars>>

BugUnion(existing, missing) == missing

(* merge_role_privs *)
Union(existing, missing) == existing \cup missing

(* `pveum role modify -privs` over SSH replaces the whole list; or the      *)
(* host has no key, is unreachable, or the command fails.                  *)
RepairRuns(e) ==
    /\ edit[e].at = "role"
    /\ Turns(e, Done)
    /\ \/ /\ role' = Union(edit[e].existing, edit[e].missing)
          /\ dropped' = dropped \cup
               {<<p, p \in edit[e].existing>> : p \in role \ role'}
       \/ UNCHANGED <<role, dropped>>
    /\ UNCHANGED <<stringVars, cdVars, fileVars, touches>>

(***************************************************************************)
(* The node's network file                                                 *)
(***************************************************************************)
(* create_bridge, update_bridge, delete_bridge: staged, nothing live moves. *)
Stage(b) ==
    /\ \/ files' = [files EXCEPT !.staged = @ \cup {b}]
       \/ files' = [files EXCEPT !.staged = @ \ {b}]
    /\ files' # files
    /\ UNCHANGED <<stringVars, cdVars, roleVars, edit, applies, touches>>

(* The caller types the node's own name, or is refused. *)
Apply(e) ==
    /\ edit[e] = NoEdit
    /\ Turns(e, Done)
    /\ applies' \in {applies, applies \cup {e}}
    /\ UNCHANGED <<stringVars, cdVars, roleVars, files, touches>>

(* run_network_apply promotes what is staged when it runs.  A node that    *)
(* loses its network reports a failure although the file was promoted.     *)
ApplyRuns ==
    \E a \in applies :
      /\ applies' = applies \ {a}
      /\ files' \in {files, [files EXCEPT !.live = files.staged]}
      /\ UNCHANGED <<stringVars, cdVars, roleVars, edit, touches>>

Revert ==
    /\ files.staged # files.live
    /\ files' = [files EXCEPT !.staged = files.live]
    /\ UNCHANGED <<stringVars, cdVars, roleVars, edit, applies, touches>>

(* Somebody edits the same things in Proxmox itself. *)
TouchedElsewhere ==
    /\ touches < MaxTouches
    /\ touches' = touches + 1
    /\ \/ /\ \E s \in Strings, k \in {"x", "y"} : text' = [text EXCEPT ![s][k] = "hand"]
          /\ UNCHANGED <<slots, role>>
       \/ /\ \E i \in IdeSlots : /\ slots[i] = "empty"
                                 /\ slots' = [slots EXCEPT ![i] = "disk"]
          /\ UNCHANGED <<text, role>>
       \/ /\ \E p \in ByHand : role' \in {role \cup {p}, role \ {p}}
          /\ UNCHANGED <<text, slots>>
    /\ UNCHANGED <<edit, fileVars, wiped, crushed, dropped>>

NodeConfigNext ==
    \/ \E e \in Editors :
          \/ \E s \in Strings : \/ StringWritten(e, s)
                               \/ \E ask \in Asks : StringRead(e, s, ask)
          \/ CdromRead(e) \/ CdromWritten(e)
          \/ RepairReads(e) \/ RepairRuns(e) \/ Apply(e)
    \/ \E b \in Bridges : Stage(b)
    \/ ApplyRuns \/ Revert \/ TouchedElsewhere

NodeConfigSpec == NodeConfigInit /\ [][NodeConfigNext]_nodeConfigVars

-----------------------------------------------------------------------------
(* TypeOK of the node's settings. *)
NodeConfigTypeOK ==
    /\ text \in [Strings -> [Keys -> {"born", "new", "hand", Absent}]]
    /\ slots \in [IdeSlots -> {"empty", "cdrom", "disk"}]
    /\ role \subseteq Needed \cup ByHand
    /\ files \in [live: SUBSET Bridges, staged: SUBSET Bridges]
    /\ touches \in 0..MaxTouches

(* An edit overwrites a sub-key it was not asked about only if that key    *)
(* changed after the edit had read it; what nobody edits, the MAC address  *)
(* or the machine id, is the guest's own for ever.                         *)
StringsKept ==
    /\ \A w \in wiped : w[2]
    /\ \A s \in Strings : text[s]["id"] = "born"

(* Mounting or ejecting an image never replaces a disk that was in the     *)
(* slot when the slot was chosen.                                          *)
DisksKept == \A c \in crushed : ~c[2]

(* A repair takes no privilege away that the role held when it was read:   *)
(* one granted between the read and the command is all it can lose.        *)
GrantsKept == \A d \in dropped : ~d[2]

(* What a read-modify-write does not ask to change survives it, unless it  *)
(* was changed after the read.                                             *)
NodeConfigSound == NodeConfigTypeOK /\ StringsKept /\ DisksKept /\ GrantsKept
=============================================================================
