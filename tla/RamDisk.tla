------------------------------ MODULE RamDisk ------------------------------
(***************************************************************************)
(* RamDiskManager of the Rust library (src/ramdisk/mod.rs): two tmpfs on   *)
(* fixed directories under /tmp, set up by init and taken down by cleanup. *)
(* Several processes may have a manager of their own; whether a directory  *)
(* is mounted a manager knows only from its own flags.                     *)
(***************************************************************************)
EXTENDS Naturals, FiniteSets, FiniteSetsExt

CONSTANTS
  Managers,
  MaxMounts   \* tmpfs on one directory, one over the other

Dir == {"build", "ai_cache"}

VARIABLES
  exists,    \* exists[d]: the directory is there
  mounts,    \* mounts[d]: how many tmpfs are mounted on it
  mounted,   \* mounted[m][d]: build_mounted and ai_cache_mounted
  at,        \* at[m]: the statement of init or cleanup manager m is at, and its directory
  dropped    \* dropped[d]: flags that went away with the tmpfs left mounted

vars == <<exists, mounts, mounted, at, dropped>>

Rest      == <<"rest", "none">>
Places    == {"exists", "create", "mount", "umount"} \X Dir \cup {Rest}
TypeOK ==
  /\ exists \in [Dir -> BOOLEAN]
  /\ mounts \in [Dir -> 0..MaxMounts]
  /\ mounted \in [Managers -> [Dir -> BOOLEAN]]
  /\ at \in [Managers -> Places]
  /\ dropped \in [Dir -> 0..MaxMounts]
  /\ \A d \in Dir : mounts[d] > 0 => exists[d]

Init ==
  /\ exists \in [Dir -> BOOLEAN]
  /\ mounts = [d \in Dir |-> 0]
  /\ mounted = [m \in Managers |-> [d \in Dir |-> FALSE]]
  /\ at = [m \in Managers |-> Rest]
  /\ dropped = [d \in Dir |-> 0]

Goes(m, from, to) == at[m] = from /\ at' = [at EXCEPT ![m] = to]
Flag(m, d, v)     == mounted' = [mounted EXCEPT ![m][d] = v]
\* init sets up the build directory, then the cache; cleanup has the same order.
After(op, d)      == IF d = "build" THEN <<op, "ai_cache">> ELSE Rest

-----------------------------------------------------------------------------
Begins(m, op) ==
  /\ Goes(m, Rest, <<op, "build">>)
  /\ UNCHANGED <<exists, mounts, mounted, dropped>>

\* A directory that exists is taken for a mounted one.
FindsDir(m, d) ==
  /\ IF exists[d] THEN Goes(m, <<"exists", d>>, After("exists", d)) /\ Flag(m, d, TRUE)
                  ELSE Goes(m, <<"exists", d>>, <<"create", d>>) /\ UNCHANGED mounted
  /\ UNCHANGED <<exists, mounts, dropped>>

\* create_dir_all is content with a directory that another has created meanwhile.
\* If it fails init ends.
CreateDir(m, d) ==
  /\ \/ Goes(m, <<"create", d>>, <<"mount", d>>) /\ exists' = [exists EXCEPT ![d] = TRUE]
     \/ Goes(m, <<"create", d>>, Rest) /\ UNCHANGED exists
  /\ UNCHANGED <<mounts, mounted, dropped>>

\* Defect: a mount that succeeded is not noted.
MountUnnoted(m, d) ==
  /\ Goes(m, <<"mount", d>>, After("exists", d))
  /\ \/ /\ exists[d] /\ mounts[d] < MaxMounts
        /\ mounts' = [mounts EXCEPT ![d] = @ + 1]
     \/ UNCHANGED mounts
  /\ UNCHANGED <<exists, mounted, dropped>>

\* mount(8) mounts over what is mounted there already; if it fails the directory stays,
\* without a flag.
Mount(m, d) ==
  /\ Goes(m, <<"mount", d>>, After("exists", d))
  /\ \/ /\ exists[d] /\ mounts[d] < MaxMounts
        /\ mounts' = [mounts EXCEPT ![d] = @ + 1]
        /\ Flag(m, d, TRUE)
     \/ UNCHANGED <<mounts, mounted>>
  /\ UNCHANGED <<exists, dropped>>

\* umount takes off what was mounted last, whoever mounted it.  It is refused for a
\* directory in use; that is ignored and the flag cleared.
Umount(m, d) ==
  /\ Goes(m, <<"umount", d>>, After("umount", d))
  /\ Flag(m, d, FALSE)
  /\ IF mounted[m][d] /\ mounts[d] > 0
     THEN \/ mounts' = [mounts EXCEPT ![d] = @ - 1] /\ UNCHANGED dropped
          \/ dropped' = [dropped EXCEPT ![d] = Min({MaxMounts, @ + 1})] /\ UNCHANGED mounts
     ELSE UNCHANGED <<mounts, dropped>>
  /\ UNCHANGED exists

\* The manager's process ends at any moment, the command it waits for ends by itself,
\* and another process is started.
Restart(m) ==
  /\ at' = [at EXCEPT ![m] = Rest]
  /\ mounted' = [mounted EXCEPT ![m] = [d \in Dir |-> FALSE]]
  /\ \E done \in SUBSET {d \in Dir : at[m] = <<"mount", d>> /\ exists[d] /\ mounts[d] < MaxMounts} :
       /\ mounts' = [d \in Dir |-> mounts[d] + (IF d \in done THEN 1 ELSE 0)]
       /\ dropped' = [d \in Dir |->
            IF d \in done \/ (mounted[m][d] /\ mounts[d] > 0)
            THEN Min({MaxMounts, dropped[d] + 1}) ELSE dropped[d]]
  /\ UNCHANGED exists

\* systemd-tmpfiles removes what is old in /tmp, but no mount point.
TmpCleaned(d) ==
  /\ exists[d] /\ mounts[d] = 0
  /\ exists' = [exists EXCEPT ![d] = FALSE]
  /\ UNCHANGED <<mounts, mounted, at, dropped>>

Next ==
  \/ \E m \in Managers :
       \/ Begins(m, "exists") \/ Begins(m, "umount") \/ Restart(m)
       \/ \E d \in Dir : FindsDir(m, d) \/ CreateDir(m, d) \/ Mount(m, d) \/ Umount(m, d)
  \/ \E d \in Dir : TmpCleaned(d)

Spec == Init /\ [][Next]_vars

-----------------------------------------------------------------------------
\* Of what is mounted nothing is forgotten: each tmpfs on a directory has a manager
\* that will unmount it, whoever unmounts what and although two may mount one over the
\* other, but for those whose manager died or whose unmounting was refused.
TmpfsOwned ==
  \A d \in Dir : mounts[d] <= Cardinality({m \in Managers : mounted[m][d]}) + dropped[d]
=============================================================================
