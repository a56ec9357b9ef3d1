----------------------------- MODULE NetwizTools ----------------------------
(***************************************************************************)
(* Three long-running jobs of the network wizard's page (netwiz.js):       *)
(*   - the update check: cached answer or request, background download,    *)
(*     polling, badge, installation (nu);                                  *)
(*   - the upload queue of offline packages (no);                          *)
(*   - backup and restore of the whole system (nb).                        *)
(* The router's answers, and how long it takes to give them, are external: *)
(* every call may fail, and the answers to two polls may come together.    *)
(***************************************************************************)
EXTENDS Integers, Sequences, FiniteSets, SequencesExt

CONSTANTS
    Releases,        \* version numbers the release server may announce
    Installed,       \* the version running
    CacheTime,       \* ticks a cached answer is used (five minutes)
    MaxUpdatePolls,  \* 15: polls of the background download
    MaxChecksOfUpdate,  \* bound on the page loads
    PackageFiles,    \* names of package files the user may pick
    MaxQueueSteps,   \* bound on starts of the queue
    MaxInFlight,     \* answers of status polls outstanding at once
    MaxJobs,         \* bound on backups and restores
    RebootChecks,    \* ticks after which a device counts as gone (60 seconds)
    RebootLimit      \* ticks after which the page gives up (300 seconds)

VARIABLES nu, no, nb

ASSUME NetwizToolsAssumption ==
    /\ Releases \subseteq Nat /\ Installed \in Nat
    /\ {CacheTime, MaxUpdatePolls, MaxChecksOfUpdate, MaxQueueSteps, MaxInFlight, MaxJobs,
        RebootChecks, RebootLimit} \subseteq Nat
    /\ RebootChecks < RebootLimit

-----------------------------------------------------------------------------
(* Versions.                                                               *)

Part(v, i) == IF i <= Len(v) THEN v[i] ELSE 0

(* Component by component, a missing one counting as zero.                 *)
CompareVer(v1, v2) ==
    LET n == 1..(IF Len(v1) > Len(v2) THEN Len(v1) ELSE Len(v2))
        d == {i \in n : Part(v1, i) # Part(v2, i)}
    IN  IF d = {} THEN 0
        ELSE LET i == CHOOSE k \in d : \A j \in d : k <= j
             IN  IF Part(v1, i) > Part(v2, i) THEN 1 ELSE -1

Versions == UNION {[1..n -> 0..2] : n \in 1..3}

(* An order on versions: antisymmetric, transitive, and 1.2 is 1.2.0.      *)
ASSUME CompareVerOrders ==
    /\ \A v, w \in Versions : CompareVer(v, w) = -CompareVer(w, v)
    /\ \A v, w, x \in Versions : CompareVer(v, w) >= 0 /\ CompareVer(w, x) >= 0 => CompareVer(v, x) >= 0
    /\ \A v \in Versions : Len(v) < 3 => CompareVer(v, Append(v, 0)) = 0

-----------------------------------------------------------------------------
(* The update check.                                                       *)

NoCache == [time |-> -1, version |-> 0]

UpdateInit == nu = [phase |-> "loaded", now |-> 0, cache |-> NoCache, latest |-> 0, polls |-> 0,
                    ready |-> 0, badge |-> FALSE, loads |-> 1, running |-> Installed]

(* The answer is compared; a newer release is asked for on the router.     *)
TriggerDownload(u, version) ==
    IF version > u.running THEN [u EXCEPT !.latest = version, !.phase = "asking"]
    ELSE [u EXCEPT !.phase = "idle"]

DoUpdateCheck ==
    /\ nu.phase = "loaded"
    /\ IF nu.cache.time >= 0 /\ nu.now - nu.cache.time < CacheTime
       THEN nu' = TriggerDownload(nu, nu.cache.version)
       ELSE nu' = [nu EXCEPT !.phase = "fetching"]

(* A refused or failed request is cached too, as the running version.      *)
ReleaseAnswers ==
    /\ nu.phase = "fetching"
    /\ \/ \E v \in Releases :
             nu' = TriggerDownload([nu EXCEPT !.cache = [time |-> nu.now, version |-> v]], v)
       \/ nu' = [nu EXCEPT !.cache = [time |-> nu.now, version |-> nu.running], !.phase = "idle"]

CheckOTA ==
    /\ nu.phase = "asking"
    /\ \/ nu' = [nu EXCEPT !.phase = "idle"]
       \/ nu.ready # 0 /\ nu' = [nu EXCEPT !.badge = TRUE, !.phase = "idle"]
       \/ nu.ready = 0 /\ nu' = [nu EXCEPT !.phase = "polling", !.polls = 0]

(* The router's download finishes, in its own time or never.  Whether one  *)
(* is there is all the router says, not of which version.                  *)
PrepareUpdate ==
    /\ nu.phase = "polling" /\ nu.ready = 0
    /\ nu' = [nu EXCEPT !.ready = nu.latest]

PollUpdate ==
    /\ nu.phase = "polling"
    /\ \/ /\ nu.polls >= MaxUpdatePolls
          /\ nu' = [nu EXCEPT !.phase = "idle"]
       \/ /\ nu.polls < MaxUpdatePolls
          /\ \/ nu.ready # 0 /\ nu' = [nu EXCEPT !.badge = TRUE, !.phase = "idle"]
             \/ nu' = [nu EXCEPT !.polls = @ + 1]

(* The badge's dialog: install whatever happens, count down, clear the     *)
(* page's stored values, reload.                                           *)
InstallUpdate ==
    /\ nu.badge /\ nu.phase # "installing"
    /\ nu' = [nu EXCEPT !.phase = "installing", !.badge = FALSE, !.cache = NoCache]

UpdateInstalled ==
    /\ nu.phase = "installing" /\ nu.loads < MaxChecksOfUpdate
    /\ \E done \in BOOLEAN :
          nu' = [nu EXCEPT !.phase = "loaded", !.cache = NoCache, !.loads = @ + 1,
                           !.running = IF done THEN nu.ready ELSE @]

ReloadPage ==
    /\ nu.phase \in {"idle", "polling"} /\ nu.loads < MaxChecksOfUpdate
    /\ \E t \in 0..1 :
          nu' = [nu EXCEPT !.phase = "loaded", !.badge = FALSE, !.loads = @ + 1, !.now = @ + t * CacheTime]

UpdateNext == DoUpdateCheck \/ ReleaseAnswers \/ CheckOTA \/ PrepareUpdate \/ PollUpdate
              \/ InstallUpdate \/ UpdateInstalled \/ ReloadPage

(* The dialog behind the badge names the latest release: the package it    *)
(* installs is that release's.                                             *)
BadgeOffersLatest == nu.badge => nu.ready = nu.latest

-----------------------------------------------------------------------------
(* The queue of offline packages.                                          *)

QueueInit == no = [phase |-> "staging", files |-> <<>>, idx |-> 1, current |-> "", stored |-> {},
                   starts |-> 0]

AddFilesToStaging ==
    /\ no.phase # "installing"
    /\ \E f \in PackageFiles :
          /\ ~Contains(no.files, f)
          /\ no' = [no EXCEPT !.files = Append(@, f)]

(* The list's remove links stay usable while the queue runs.               *)
NwRemoveFile ==
    /\ no.phase # "installing"
    /\ \E i \in DOMAIN no.files : no' = [no EXCEPT !.files = RemoveAt(@, i)]

ProcessUploadQueue(q, idx) ==
    IF idx > Len(q.files) THEN [q EXCEPT !.phase = "installing"]
    ELSE [q EXCEPT !.phase = "uploading", !.idx = idx, !.current = q.files[idx]]

ClickUpload ==
    /\ no.phase \in {"staging", "failed"} /\ no.files # <<>>
    /\ no.starts < MaxQueueSteps
    /\ no' = [ProcessUploadQueue(no, 1) EXCEPT !.starts = @ + 1]

(* Upload, then store_offline_pkg, then the next index.                    *)
UploadStep ==
    /\ no.phase = "uploading"
    /\ \/ no' = ProcessUploadQueue([no EXCEPT !.stored = @ \cup {no.current}], no.idx + 1)
       \/ no' = [no EXCEPT !.phase = "failed"]

BatchInstall ==
    /\ no.phase = "installing"
    /\ \/ no' = [no EXCEPT !.phase = "reloading"]
       \/ no' = [no EXCEPT !.phase = "failed"]

QueueReload ==
    /\ no.phase = "reloading"
    /\ no' = [no EXCEPT !.phase = "staging", !.files = <<>>, !.stored = {}, !.current = ""]

QueueNext == AddFilesToStaging \/ NwRemoveFile \/ ClickUpload \/ UploadStep \/ BatchInstall \/ QueueReload

(* "All files secured, executing batch install": when the installation     *)
(* starts, every file still in the list has been stored.                   *)
AllFilesSecured == no.phase = "installing" => ToSet(no.files) \subseteq no.stored

-----------------------------------------------------------------------------
(* Backup and restore.                                                     *)

Job0 == [phase |-> "idle", polls |-> 0, isDone |-> FALSE, timer |-> FALSE, errors |-> 0,
         secs |-> 0, missed |-> 0, offline |-> FALSE]

BackupInit ==
    nb = [job |-> Job0, router |-> "idle", downloads |-> 0, backups |-> 0, jobs |-> 0,
          restored |-> FALSE, pill |-> FALSE, online |-> TRUE]

Job(j) == nb' = [nb EXCEPT !.job = j]

(* Which packages would be missing: the list, or a first synchronisation   *)
(* that is polled until it answers or the user stops it.                   *)
ClickBackup ==
    /\ nb.job.phase = "idle" /\ nb.jobs < MaxJobs
    /\ nb' = [nb EXCEPT !.job = [Job0 EXCEPT !.phase = "scanning"], !.jobs = @ + 1]

CheckMissing ==
    /\ nb.job.phase \in {"scanning", "syncing"}
    /\ \/ Job([nb.job EXCEPT !.phase = "listed"])
       \/ Job([nb.job EXCEPT !.phase = "syncing"])
       \/ nb.job.phase = "syncing" /\ Job(Job0)

(* performBackup, and the backup before a restore: the router starts, the  *)
(* page polls every two seconds whatever is still unanswered.              *)
PerformBackup ==
    /\ nb.job.phase = "listed"
    /\ \/ Job(Job0)
       \/ nb' = [nb EXCEPT !.job = [Job0 EXCEPT !.phase = "generating", !.timer = TRUE],
                           !.router = "running", !.backups = @ + 1]

RouterBackup ==
    /\ nb.router = "running"
    /\ \E s \in {"done", "error"} : nb' = [nb EXCEPT !.router = s]

PollBackup ==
    /\ nb.job.timer /\ nb.job.phase \in {"generating", "pill"}
    /\ IF nb.job.isDone THEN Job([nb.job EXCEPT !.timer = FALSE])
       ELSE nb.job.polls < MaxInFlight /\ Job([nb.job EXCEPT !.polls = @ + 1])

BackupAnswers ==
    /\ nb.job.phase \in {"generating", "saved"} /\ nb.job.polls > 0
    /\ LET j == [nb.job EXCEPT !.polls = @ - 1]
       IN  \/ Job(j)
           \/ /\ nb.router = "done" /\ ~nb.job.isDone
              /\ nb' = [nb EXCEPT !.downloads = @ + 1,
                                  !.job = [j EXCEPT !.isDone = TRUE, !.timer = FALSE, !.phase = "saved"]]
           \/ /\ nb.router = "error" /\ ~nb.job.isDone
              /\ Job([j EXCEPT !.isDone = TRUE, !.timer = FALSE, !.phase = "saved"])

CloseBackup ==
    /\ nb.job.phase = "saved" /\ nb.job.polls = 0
    /\ Job(Job0)

(* A file is chosen: packages of the other kind are refused, a foreign     *)
(* architecture may be cancelled, then the space is checked; without the   *)
(* safety backup, or when it cannot be started, the upload begins.         *)
ClickRestore ==
    /\ nb.job.phase = "idle" /\ nb.jobs < MaxJobs
    /\ \E p \in BOOLEAN :
          nb' = [nb EXCEPT !.job = [Job0 EXCEPT !.phase = "checking"], !.jobs = @ + 1, !.pill = p,
                           !.restored = FALSE]

CheckFile ==
    /\ nb.job.phase = "checking"
    /\ \/ Job(Job0)
       \/ Job([nb.job EXCEPT !.phase = "uploading"])
       \/ /\ nb.pill
          /\ nb' = [nb EXCEPT !.job.phase = "pill", !.job.timer = TRUE, !.router = "running",
                              !.backups = @ + 1]

(* The handler of this poll tests a variable of the other dialog's: the    *)
(* test throws, the exception is swallowed, and nothing has changed.       *)
PillAnswers ==
    /\ nb.job.phase = "pill" /\ nb.job.polls > 0
    /\ Job([nb.job EXCEPT !.polls = @ - 1])

ExecRestore ==
    /\ nb.job.phase = "uploading"
    /\ \/ Job(Job0)
       \/ Job([nb.job EXCEPT !.phase = "restoring"])

(* The status of the restore: an error ends it, done or three failed polls *)
(* lead to the wait for the reboot.                                        *)
RestoreAnswers ==
    /\ nb.job.phase = "restoring"
    /\ \/ Job(Job0)
       \/ nb' = [nb EXCEPT !.job = [Job0 EXCEPT !.phase = "reboot"], !.restored = TRUE]
       \/ IF nb.job.errors >= 2
          THEN nb' = [nb EXCEPT !.job = [Job0 EXCEPT !.phase = "reboot"], !.restored = TRUE]
          ELSE Job([nb.job EXCEPT !.errors = @ + 1])

RouterReboots ==
    /\ nb.job.phase = "reboot"
    /\ nb' = [nb EXCEPT !.online = ~@]

(* Wait until two probes in a row fail (or a minute passed), then until    *)
(* one succeeds (or five minutes passed).                                  *)
RebootProbe ==
    /\ nb.job.phase = "reboot"
    /\ LET j == [nb.job EXCEPT !.secs = @ + 1]
       IN  IF ~j.offline
           THEN LET m == IF nb.online THEN 0 ELSE j.missed + 1
                IN  Job([j EXCEPT !.missed = m, !.offline = m >= 2 \/ j.secs > RebootChecks])
           ELSE IF nb.online \/ j.secs > RebootLimit THEN Job(Job0) ELSE Job(j)

BackupNext == ClickBackup \/ CheckMissing \/ PerformBackup \/ RouterBackup \/ PollBackup \/ BackupAnswers
              \/ CloseBackup \/ ClickRestore \/ CheckFile \/ PillAnswers \/ ExecRestore \/ RestoreAnswers
              \/ RouterReboots \/ RebootProbe

(* Polls overlap and several may bring the news that the backup is ready:  *)
(* the file is downloaded once for each backup the user started.           *)
OneDownload == nb.downloads <= nb.backups

(* "Auto-download current state backup before restore": a restore that     *)
(* starts with the safety backup goes on once the backup is there.         *)
RestoreGoesOn == nb.job.phase = "pill" ~> nb.job.phase # "pill"

NetwizToolsInit == UpdateInit /\ QueueInit /\ BackupInit

RestoreFairness ==
    /\ WF_nb(RouterBackup)
    /\ WF_nb(PollBackup)
    /\ WF_nb(PillAnswers)
=============================================================================
