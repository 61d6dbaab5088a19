----------------------------- MODULE BackupCopies -----------------------------
(***************************************************************************)
(* The two backup jobs that copy objects: the mirror of the file store and *)
(* the archive of every user.                                              *)
(*                                                                         *)
(* A mirror pass lists the source, picks what the destination lacks or     *)
(* what was modified since the last successful pass began (less an         *)
(* overlap, for the store stamps objects with its own clock) and copies    *)
(* that with several workers; the first failure ends the pass.  The source *)
(* goes on changing meanwhile.  The archives of the users are shipped one  *)
(* after the other; a user's failure or an ongoing restore does not stop   *)
(* the rest, and each shipped user's oldest archives are pruned.           *)
(***************************************************************************)
EXTENDS FiniteSets, FiniteSetsExt, Functions, Integers, Sequences

CONSTANTS
    Objects,       \* source keys
    Users,         \* active accounts, in order of their id
    Overlap,       \* mirrorWatermarkOverlap
    Workers,       \* copyWorkerCount
    RetainUserZip,
    MaxTime, MaxWrites,
    CopyScenarios  \* [does: "mirror", "zip" or "nothing", skew: the store's clock less the database's, faults]

ASSUME CopiesAssumption ==
    /\ Overlap \in Nat /\ RetainUserZip \in Nat \ {0}
    /\ \A s \in CopyScenarios : s.skew \in (-Overlap)..Overlap

VARIABLES
    copyPlan,
    source,      \* the file store: version, LastModified and true time of each object's last write
    mirror,      \* backups/rustfs/: the version copied
    mirrored,    \* started_at of the last succeeded pass
    pass,        \* the pass under way
    zips,        \* backups/users/<id>/: times of each user's archives
    zipRun,      \* the run under way
    restoring,   \* a per-user restore holds its advisory lock
    time,
    copyFaults

copyVars == <<copyPlan, source, mirror, mirrored, pass, zips, zipRun, restoring, time, copyFaults>>

\* A watermark below every stamp of the store's clock: a pass without a predecessor takes everything.
NeverRan == -(Overlap + 1)
NoPass   == [pc |-> "idle", began |-> 0, mark |-> 0, list |-> <<>>, delta |-> {}, held |-> <<>>,
             cut |-> FALSE]
NoZipRun == [pc |-> "idle", next |-> 1, shipped |-> {}, failed |-> {}, deferred |-> {}, newest |-> <<>>]

CopyInit ==
    /\ copyPlan \in CopyScenarios
    /\ source = <<>> /\ mirror = <<>> /\ mirrored = NeverRan /\ pass = NoPass
    /\ zips = [u \in Users |-> {}] /\ zipRun = NoZipRun
    /\ restoring = FALSE /\ time = 0 /\ copyFaults = copyPlan.faults

Passes   == UNCHANGED <<copyPlan, mirrored, zips, zipRun, restoring, time>>
CopyFault == copyFaults > 0 /\ copyFaults' = copyFaults - 1

\* Time passes when an object is written and when a pass or a run begins.
ObjectWritten(k) ==
    /\ copyPlan.does = "mirror" /\ time < MaxTime
    /\ k \in DOMAIN source => source[k].ver < MaxWrites
    /\ time' = time + 1
    /\ source' = [j \in DOMAIN source \cup {k} |->
                    IF j # k THEN source[j]
                    ELSE [ver |-> IF k \in DOMAIN source THEN source[k].ver + 1 ELSE 1,
                          mod |-> time' + copyPlan.skew, at |-> time']]
    /\ UNCHANGED <<copyPlan, mirror, mirrored, pass, zips, zipRun, restoring, copyFaults>>

ObjectRemoved(k) ==
    /\ k \in DOMAIN source /\ source[k].ver = MaxWrites
    /\ source' = Restrict(source, DOMAIN source \ {k})
    /\ UNCHANGED <<mirror, pass, copyFaults>> /\ Passes

Restore ==
    /\ copyFaults > 0 \/ restoring
    /\ restoring' = ~restoring
    /\ copyFaults' = IF restoring THEN copyFaults ELSE copyFaults - 1
    /\ UNCHANGED <<copyPlan, source, mirror, mirrored, pass, zips, zipRun, time>>

-----------------------------------------------------------------------------
(* MirrorJob.Run *)

\* The run's row starts before the job looks for a restore.
StartPass ==
    /\ copyPlan.does = "mirror" /\ pass.pc = "idle" /\ time < MaxTime
    /\ time' = time + 1
    /\ pass' = [NoPass EXCEPT !.pc = "probe", !.began = time']
    /\ UNCHANGED <<copyPlan, source, mirror, mirrored, zips, zipRun, restoring, copyFaults>>

EndPass(ok) ==
    /\ pass' = NoPass
    /\ mirrored' = IF ok THEN pass.began ELSE mirrored
    /\ UNCHANGED <<copyPlan, zips, zipRun, restoring, time>>

watermarkExact == mirrored
mirrorWatermark == IF mirrored = NeverRan THEN NeverRan ELSE mirrored - Overlap

\* Past the restore; busy until the deadline ends the pass.
waitRestoreClear ==
    /\ pass.pc = "probe"
    /\ \/ /\ ~restoring
          /\ pass' = [pass EXCEPT !.pc = "list", !.mark = mirrorWatermark]
          /\ UNCHANGED <<source, mirror, copyFaults>> /\ Passes
       \/ restoring /\ EndPass(FALSE) /\ UNCHANGED <<source, mirror, copyFaults>>

ListSource ==
    /\ pass.pc = "list"
    /\ pass' = [pass EXCEPT !.pc = "diff", !.list = [k \in DOMAIN source |-> source[k].mod]]
    /\ UNCHANGED <<source, mirror, copyFaults>> /\ Passes

\* A size that differs only adds to the delta; what differs in content alone is the hard case.
mirrorDelta ==
    {k \in DOMAIN pass.list : k \notin DOMAIN mirror \/ pass.list[k] >= pass.mark}
ListDestination ==
    /\ pass.pc = "diff"
    /\ pass' = [pass EXCEPT !.pc = "copy", !.delta = mirrorDelta]
    /\ UNCHANGED <<source, mirror, copyFaults>> /\ Passes

\* A worker opens the object as it is now.
OpenSource(k) ==
    /\ pass.pc = "copy" /\ k \in pass.delta \ DOMAIN pass.held /\ ~pass.cut
    /\ Cardinality(DOMAIN pass.held) < Workers
    /\ IF k \in DOMAIN source
       THEN pass' = [pass EXCEPT !.held = [j \in DOMAIN @ \cup {k} |->
                                              IF j = k THEN source[k].ver ELSE @[j]]]
       ELSE pass' = [pass EXCEPT !.cut = TRUE]
    /\ UNCHANGED <<source, mirror, copyFaults>> /\ Passes

copyOne(k) ==
    /\ pass.pc = "copy" /\ k \in DOMAIN pass.held
    /\ mirror' = [j \in DOMAIN mirror \cup {k} |-> IF j = k THEN pass.held[k] ELSE mirror[j]]
    /\ pass' = [pass EXCEPT !.delta = @ \ {k}, !.held = Restrict(@, DOMAIN @ \ {k})]
    /\ UNCHANGED <<source, copyFaults>> /\ Passes

\* A copy fails, or the agent is stopped: the other workers finish what they hold.
CopyCut ==
    /\ pass.pc = "copy" /\ ~pass.cut /\ CopyFault
    /\ \E k \in DOMAIN pass.held \cup {"context"} :
        pass' = [pass EXCEPT !.cut = TRUE, !.held = Restrict(@, DOMAIN @ \ {k})]
    /\ UNCHANGED <<source, mirror>> /\ Passes

\* All workers are done.
copyDelta ==
    /\ pass.pc = "copy" /\ DOMAIN pass.held = {} /\ (pass.delta = {} \/ pass.cut)
    /\ EndPass(~pass.cut)
    /\ UNCHANGED <<source, mirror, copyFaults>>

-----------------------------------------------------------------------------
(* UserZipJob.Run *)

StartZipRun ==
    /\ copyPlan.does = "zip" /\ zipRun.pc = "idle" /\ time < MaxTime
    /\ zipRun' = [NoZipRun EXCEPT !.pc = "user", !.newest = zipRun.newest]
    /\ time' = time + 1
    /\ UNCHANGED <<copyPlan, source, mirror, mirrored, pass, zips, restoring, copyFaults>>

ZipStep(z) == zipRun' = z /\ UNCHANGED <<copyPlan, source, mirror, mirrored, pass, restoring, time>>
NextUser(z) == [z EXCEPT !.pc = "user", !.next = @ + 1]

\* The probe of the restore's lock; it is not held, so a restore may begin right after.
exportOneUser(u) ==
    /\ zipRun.pc = "user" /\ zipRun.next = u
    /\ ZipStep(IF restoring THEN NextUser([zipRun EXCEPT !.deferred = @ \cup {u}])
               ELSE [zipRun EXCEPT !.pc = "ship"])
    /\ UNCHANGED <<zips, copyFaults>>

\* Export, spool and upload; a failed upload may have left its object.
shipOne(u) ==
    /\ zipRun.pc = "ship" /\ zipRun.next = u
    /\ \/ /\ zips' = [zips EXCEPT ![u] = @ \cup {time}]
          /\ ZipStep([zipRun EXCEPT !.pc = "prune", !.shipped = @ \cup {u},
                          !.newest = [v \in DOMAIN @ \cup {u} |-> IF v = u THEN time ELSE @[v]]])
          /\ UNCHANGED copyFaults
       \/ /\ CopyFault
          /\ ZipStep(NextUser([zipRun EXCEPT !.failed = @ \cup {u}]))
          /\ \/ UNCHANGED zips
             \/ zips' = [zips EXCEPT ![u] = @ \cup {time}]

pruneNewest(keys) == {k \in keys : Cardinality({j \in keys : j < k}) >= RetainUserZip}
pruneUser(keys) == {k \in keys : Cardinality({j \in keys : j > k}) >= RetainUserZip}

\* A bulk delete that fails may have removed some of its victims.
pruneShippedUser(u) ==
    /\ zipRun.pc = "prune" /\ zipRun.next = u
    /\ \/ zips' = [zips EXCEPT ![u] = @ \ pruneUser(@)] /\ UNCHANGED copyFaults
       \/ CopyFault /\ \E part \in SUBSET pruneUser(zips[u]) : zips' = [zips EXCEPT ![u] = @ \ part]
    /\ ZipStep(NextUser(zipRun))

\* The run fails if some user failed and none was shipped.
ZipRunEnds ==
    /\ zipRun.pc = "user" /\ zipRun.next > Cardinality(Users)
    /\ ZipStep([zipRun EXCEPT !.pc = "idle"])
    /\ UNCHANGED <<zips, copyFaults>>

-----------------------------------------------------------------------------
CopyNext ==
    \/ \E k \in Objects : ObjectWritten(k) \/ ObjectRemoved(k) \/ OpenSource(k) \/ copyOne(k)
    \/ Restore
    \/ StartPass \/ waitRestoreClear \/ ListSource \/ ListDestination \/ CopyCut \/ copyDelta
    \/ StartZipRun \/ ZipRunEnds
    \/ \E u \in Users : exportOneUser(u) \/ shipOne(u) \/ pruneShippedUser(u)

CopySpec == CopyInit /\ [][CopyNext]_copyVars

-----------------------------------------------------------------------------
(* Properties *)

\* Every object that has not been written since the last succeeded pass began is in the mirror
\* as it is in the source, though objects were rewritten while the pass listed and copied, passes
\* failed in between and the store's clock is off by up to the overlap.
MirrorCaughtUp ==
    \A k \in DOMAIN source :
        source[k].at <= mirrored => k \in DOMAIN mirror /\ mirror[k] = source[k].ver

\* A user once archived has that archive or a younger one, whatever was pruned or failed since.
ArchiveKept ==
    \A u \in DOMAIN zipRun.newest : \E z \in zips[u] : z >= zipRun.newest[u]

\* What the copies of the object store promise once a pass has succeeded.
CopiesSound == MirrorCaughtUp /\ ArchiveKept
===============================================================================
