--------------------------- MODULE TeardownState ---------------------------
(***************************************************************************)
(* What ocfp teardown works on: what the provider still holds of a bloc,   *)
(* what the state file still records of it, and the run over both; and     *)
(* what is to hold of them throughout.  What the runs do is in Teardown.   *)
(***************************************************************************)
EXTENDS Naturals, FiniteSets

CONSTANTS
  Res,              \* resources, of the bloc and of others
  KindOf,           \* the kind of each
  HostOf,           \* the guest each volume is recorded with (vm_id)
  Foreign,          \* the resources of other blocs
  BlocNamed,        \* resources whose name is the bloc's, or begins (a bucket's: has it anywhere)
                    \* with it and a hyphen
  Unfiltered,       \* foreign addresses and the like that are listed whatever the filter
  Reads404,         \* resources whose ID holds "404", as their errors then do
  Recordable,       \* the resources the state file may record at first
  KeyedById,        \* resources whose entry, left by a state sync, has the ID for key
  Preserved,        \* the volumes recorded with preserve = true
  Options,          \* the command lines that may be given
  NoOptions, NoItem,
  MaxRetryAttempts, \* 3 in the code
  MaxMishaps        \* bound on refusals, losses and crashes

ResourceKinds == {"instance", "artifacts", "bucket", "volume", "address", "security_group", "network"}
Guests == {r \in Res : KindOf[r] \in {"instance", "artifacts"}}
Volumes == {r \in Res : KindOf[r] = "volume"}
Own == Res \ Foreign

\* Foreign resources a run may take for the bloc's (belongsToTargetBloc,
\* discoverNukeGuests): on Proxmox, where no tag names a bloc, and for buckets,
\* names alone decide, so those of a bloc named <bloc>-x; with --nuke its guests
\* on any provider; with a guest its volumes; and addresses, which are not
\* looked at (discoverFloatingIPs), where the provider ignores the filter.
Mistakable(proxmox) ==
  {r \in BlocNamed \cap Foreign : proxmox \/ r \in Guests \/ KindOf[r] = "bucket"}
  \cup {v \in Volumes \cap Foreign : HostOf[v] \in BlocNamed}
  \cup Unfiltered

CommandLine == [force : BOOLEAN, nuke : BOOLEAN, dry : BOOLEAN, empty : BOOLEAN,
                only : SUBSET (ResourceKinds \ {"artifacts"}), skip : SUBSET ResourceKinds]

ASSUME TeardownAssumption ==
  /\ KindOf \in [Res -> ResourceKinds]
  /\ Foreign \subseteq Res /\ Recordable \subseteq Res /\ Reads404 \subseteq Res /\ KeyedById \subseteq Res
  /\ BlocNamed \subseteq Res \ Volumes
  /\ Unfiltered \subseteq {r \in Foreign : KindOf[r] = "address"}
  /\ Preserved \subseteq Volumes
  /\ HostOf \in [Volumes -> Guests]
  /\ \A v \in Volumes : v \in Foreign <=> HostOf[v] \in Foreign
  /\ Options \subseteq CommandLine /\ \A o \in Options : o.nuke => o.force
  /\ NoOptions \notin CommandLine
  /\ MaxRetryAttempts \in Nat \ {0} /\ MaxMishaps \in Nat

VARIABLES
  pve,       \* the bloc's provider is Proxmox
  live,      \* the resources the provider holds
  attached,  \* the volumes attached to their guest
  full,      \* the buckets that are not empty
  dns,       \* the tunnel's live records, and the identifiers kept in vault to delete them
  recorded,  \* the resources the state file records
  current,   \* the entries the running command holds, when it loaded them
  loaded,
  pc, opts,
  todo,      \* ResourceToDelete items still to delete in this pass
  failed,    \* the items that failed in this pass
  item,      \* the item being deleted
  attempt,
  pass,      \* 1, or 2 in retryFailedResources
  faults,
  known,     \* history: what the file recorded at first
  exposed    \* history: preserved volumes a run listed, could not detach or did not know of

\* A ResourceToDelete: the kind it is handled as, where it was found, and
\* whether its ID is the provider's or, for the artifacts guest, its name.
Item == [res : Res, kind : ResourceKinds, from : {"state", "cloud"}, id : {"vmid", "name"}]

(***************************************************************************)
(* Safety.                                                                 *)
(***************************************************************************)
\* The type invariant of the variables above.
TeardownTypeOK ==
  /\ pve \in BOOLEAN /\ loaded \in BOOLEAN
  /\ live \subseteq Res /\ attached \subseteq Volumes \cap live /\ full \subseteq live
  /\ dns \in [records : BOOLEAN, keys : BOOLEAN]
  /\ recorded \subseteq Res /\ current \subseteq recorded /\ known \subseteq Res /\ exposed \subseteq Preserved
  /\ pc \in {"idle", "dns", "plan", "confirm", "delete", "detach", "call", "record"}
  /\ opts \in Options \cup {NoOptions}
  /\ todo \subseteq Item /\ failed \subseteq Item /\ item \in Item \cup {NoItem}
  /\ attempt \in 0 .. MaxRetryAttempts /\ pass \in {1, 2} /\ faults \in 0 .. MaxMishaps

\* The state file does not lose track of what still exists: through failed
\* deletions, failed saves, crashes and repeated runs, a resource once
\* recorded is recorded as long as the provider holds it.  Where an error's
\* text holds "404" the deletion is taken to have worked
\* (deleteResourceWithRetry), and those resources are excepted.
NoOrphan == (known \ Reads404) \cap live \subseteq recorded

\* No run deletes what it was not asked to, forced, supplemented from the
\* provider or nuking: what belongs to another bloc survives, with its entry,
\* unless the code cannot tell it from the bloc's (Mistakable); and a volume
\* recorded as preserved survives the destruction of its guest, whichever list
\* the guest was on, unless it could not be detached, the state could not be
\* loaded, or a run listed the volume itself (belongsToTargetBloc,
\* detachPreservedVolumes).
OthersSurvive ==
  /\ Foreign \ Mistakable(pve) \subseteq live
  /\ (known \cap Foreign) \ Mistakable(pve) \subseteq recorded
  /\ known \cap Preserved \subseteq live \cup exposed \cup KeyedById
=============================================================================
