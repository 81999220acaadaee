----------------------------- MODULE Toolchain ------------------------------
(***************************************************************************)
(* What the sandbox runs and what it makes of the outcome: the package     *)
(* manager, the tests and the install failures (lib/sandbox/detect.ts),    *)
(* the cache key (cache.ts), phase B (executor.ts), the smoke test of      *)
(* phase C (smoke.ts), the allowlist (iptables-allowlist.ts) and the       *)
(* analyzers of the other languages (python-, go-, rust-executor.ts).      *)
(* Sandbox models the volumes these phases share.                          *)
(*                                                                         *)
(* A repository is a record: files (at the root), manifest ("absent",      *)
(* "malformed" or "ok"), runners and scripts (of package.json), bin and    *)
(* main.                                                                   *)
(***************************************************************************)
EXTENDS Integers, Sequences, FiniteSets, SequencesExt

CONSTANTS
  HostCap,    \* bound of the tier-2 hosts, 32 in the code
  Tier1       \* TIER_1_HOSTS

None == "none"

-----------------------------------------------------------------------------
(* Detection *)

DetectPackageManager(repo) ==
    CASE "pnpm-lock.yaml" \in repo.files -> "pnpm"
      [] repo.files \cap {"pnpm-lock.yaml", "yarn.lock"} = {"yarn.lock"} -> "yarn"
      [] OTHER -> "npm"

LockfileForPm == [pnpm |-> "pnpm-lock.yaml", yarn |-> "yarn.lock", npm |-> "package-lock.json"]

\* None, or the envelope whose hash is the key.
ComputeCacheKey(repo, runtime) ==
    LET pm == DetectPackageManager(repo)
    IN  IF LockfileForPm[pm] \in repo.files
        THEN [pm |-> pm, lockfile |-> repo.content[LockfileForPm[pm]], runtime |-> runtime]
        ELSE [pm |-> None]

Runnable(repo) == "test" \in repo.scripts   \* a script other than "no test specified"
DetectTestCommand(repo) ==
    CASE repo.manifest = "absent" -> None
      [] repo.manifest = "malformed" -> "throws"
      [] repo.manifest = "ok" /\ "vitest" \in repo.runners -> "exec vitest"
      [] repo.manifest = "ok" /\ "vitest" \notin repo.runners /\ "jest" \in repo.runners
         /\ repo.scripts \cap {"test", "no test"} # {} -> "test --passWithNoTests"
      [] repo.manifest = "ok" /\ repo.runners = {} /\ Runnable(repo) -> "test"
      [] OTHER -> None

DetectTestRunner(repo) ==
    CASE repo.manifest # "ok" -> None
      [] repo.manifest = "ok" /\ "vitest" \in repo.runners -> "vitest"
      [] repo.manifest = "ok" /\ repo.runners = {"jest"} -> "jest"
      [] repo.manifest = "ok" /\ repo.runners = {} /\ Runnable(repo) -> "script"
      [] OTHER -> None

\* The first script that boots; then bin and main.  Mutant: dev before serve.
BugBootScripts == <<"start", "dev", "serve">>
BootScripts == <<"start", "serve", "dev">>
DetectBootCommand(repo) ==
    LET i == SelectInSeq(BootScripts, LAMBDA s : s \in repo.scripts)
    IN  CASE repo.manifest # "ok" -> None
          [] repo.manifest = "ok" /\ i # 0 -> BootScripts[i]
          [] repo.manifest = "ok" /\ i = 0 /\ repo.bin \in {"string", "map"} -> "bin"
          [] repo.manifest = "ok" /\ i = 0 /\ repo.bin \notin {"string", "map"} /\ repo.main -> "main"
          [] OTHER -> None

\* The cause told for a failed install, by the first pattern found; output
\* is a set of phrases.
Causes == <<"ERESOLVE", "unmet peer", "ENOTFOUND", "ENOSPC", "command not found">>
ExplainInstallFailure(output) ==
    LET i == SelectInSeq(Causes, LAMBDA c : c \in output) IN IF i = 0 THEN None ELSE Causes[i]
CheckSandboxReadiness(tools, pm) ==
    LET missing == {pm, "git", "node"} \ tools
    IN  IF missing = {} THEN <<"ok">>
        ELSE <<"not ready", ExplainInstallFailure({"command not found"})>>

\* What is run is what the repository is made for: its own package manager,
\* a test command only with something to test, a boot that does not test; a
\* cached tree is shared only by repositories of one lockfile.
ToolsFit(repo, other) ==
    /\ repo.files \cap Range(LockfileForPm) # {} =>
         LockfileForPm[DetectPackageManager(repo)] \in repo.files
    /\ DetectTestCommand(repo) \notin {None, "throws"} => DetectTestRunner(repo) # None
    /\ DetectTestRunner(repo) \in {"vitest", "script"} => DetectTestCommand(repo) # None
    /\ DetectBootCommand(repo) \notin {"test", "no test", "build"}
    /\ DetectBootCommand(repo) = "dev" => repo.scripts \cap {"start", "serve"} = {}
    /\ LET k == ComputeCacheKey(repo, 22)
           m == ComputeCacheKey(other, 22)
       IN  k.pm # None /\ k = m =>
             \E f \in repo.files \cap other.files : repo.content[f] = other.content[f]

-----------------------------------------------------------------------------
(* Phases B and C *)

\* tsc runs on a repository with a tsconfig, the tests with a command; what
\* does not run does not fail.  outcome: what the steps would do, and whether
\* the container is killed.  Mutant: the marker of tsc counts for the tests.
TypecheckPassed(repo, outcome) == "tsconfig.json" \in repo.files => outcome.tsc
BugTestsPassed(repo, outcome) == DetectTestCommand(repo) # None => outcome.tsc
TestsPassed(repo, outcome) == DetectTestCommand(repo) # None => outcome.tests
PhaseB(repo, outcome) ==
    [success |-> ~outcome.killed /\ TypecheckPassed(repo, outcome) /\ TestsPassed(repo, outcome),
     timedOut |-> outcome.killed]

\* A phrase of the output, and the ready patterns it contains: "already at"
\* contains "ready at".
PatternsIn == [listening |-> {"listening on"}, already |-> {"ready at"}, banner |-> {}, mine |-> {"mine"}]
Defaults == {"listening on", "ready at"}

\* The pattern of the caller is exclusive.  Mutant: one of many.
BugDetectReadySignal(stdout, pattern) ==
    \E phrase \in stdout : PatternsIn[phrase] \cap (Defaults \cup {pattern}) # {}
DetectReadySignal(stdout, pattern) ==
    \E phrase \in stdout :
      IF pattern # None THEN pattern \in PatternsIn[phrase] ELSE PatternsIn[phrase] \cap Defaults # {}

\* The ready signal beats everything, then the timeout, then the exit code.
ResolvePhaseCReason(run, pattern) ==
    CASE DetectReadySignal(run.stdout, pattern) -> [booted |-> TRUE, reason |-> "ready-pattern-matched"]
      [] ~DetectReadySignal(run.stdout, pattern) /\ run.timedOut -> [booted |-> FALSE, reason |-> "timed-out"]
      [] ~DetectReadySignal(run.stdout, pattern) /\ ~run.timedOut /\ run.exitCode = 0 ->
           [booted |-> TRUE, reason |-> "clean-exit"]
      [] OTHER -> [booted |-> FALSE, reason |-> "crashed-non-zero-exit"]

\* In seconds: 1 to 90.
ResolveTimeout(raw) == IF raw < 1 THEN 1 ELSE IF raw > 90 THEN 90 ELSE raw

\* smoke: the configuration; command None asks for detection.
PhaseC(repo, smoke, run) ==
    LET command == IF smoke.command # None THEN smoke.command ELSE DetectBootCommand(repo)
        timedOut == run.seconds > ResolveTimeout(smoke.timeout)
        result == ResolvePhaseCReason(
                    [stdout |-> run.stdout, timedOut |-> timedOut,
                     exitCode |-> IF timedOut THEN 1 ELSE run.exitCode], smoke.pattern)
    IN  CASE ~smoke.enabled -> [attempted |-> FALSE, success |-> FALSE, reason |-> "smoke-disabled"]
          [] smoke.enabled /\ command = None ->
               [attempted |-> FALSE, success |-> FALSE, reason |-> "no-boot-command-detected"]
          [] OTHER -> [attempted |-> TRUE, success |-> result.booted, reason |-> result.reason]

\* A phase that was not run, was killed or saw a failure did not pass, and a
\* boot is one that printed a ready phrase, the pattern asked for if there is
\* one, or ended well; what happens after the phrase does not count.
PhasesAreHonest(repo, smoke, run, outcome) ==
    LET b == PhaseB(repo, outcome)
        c == PhaseC(repo, smoke, run)
    IN  /\ b.success => ~outcome.killed
        /\ b.success /\ "tsconfig.json" \in repo.files => outcome.tsc
        /\ b.success /\ DetectTestRunner(repo) \in {"vitest", "script"} => outcome.tests
        /\ ~b.success => outcome.killed \/ ~outcome.tsc \/ ~outcome.tests
        /\ c.success => smoke.enabled /\ c.attempted
        /\ c.success => \/ run.exitCode = 0 /\ run.seconds <= 90
                        \/ \E p \in run.stdout : PatternsIn[p] # {}
        /\ c.success /\ smoke.pattern # None /\ run.exitCode # 0 =>
             \E p \in run.stdout : smoke.pattern \in PatternsIn[p]
        /\ run.seconds > 90 /\ run.stdout \subseteq {"banner"} => ~c.success

\* Not true of the code: an app that ends with an error within its time has
\* not booted, whatever it printed.
CrashIsNotBoot(repo, smoke, run) ==
    run.seconds <= ResolveTimeout(smoke.timeout) /\ run.exitCode # 0 => ~PhaseC(repo, smoke, run).success

\* Not true of the code: verification that passes has checked something.
VerifiedMeansChecked(repo, outcome) ==
    PhaseB(repo, outcome).success =>
      "tsconfig.json" \in repo.files \/ DetectTestCommand(repo) # None

-----------------------------------------------------------------------------
(* The allowlist of phase A *)

\* A raw entry is a record [host, valid]; host is trimmed and in lower case,
\* valid tells whether it is a name and no IP address.
Tier2Reason(accepted, e) ==
    CASE ~e.valid -> "invalid hostname"
      [] e.valid /\ e.host \in Tier1 -> "already in tier-1 default allowlist"
      [] e.valid /\ e.host \notin Tier1 /\ e.host \in ToSet(accepted) -> "duplicate in tier-2 list"
      [] OTHER -> None

AddHost(res, e) ==
    LET reason == Tier2Reason(res.accepted, e)
    IN  IF reason = None THEN [res EXCEPT !.accepted = Append(@, e.host)]
        ELSE [res EXCEPT !.rejected = Append(@, <<e.host, reason>>)]

\* Mutant: what exceeds the cap is not reported.
BugCapHosts(res) ==
    IF Len(res.accepted) <= HostCap THEN res
    ELSE [res EXCEPT !.accepted = SubSeq(@, 1, HostCap)]
CapHosts(res) ==
    IF Len(res.accepted) <= HostCap THEN res
    ELSE [accepted |-> SubSeq(res.accepted, 1, HostCap),
          rejected |-> res.rejected
            \o [i \in 1..(Len(res.accepted) - HostCap) |->
                  <<res.accepted[HostCap + i], "exceeds 32-host sanity cap">>]]

NoHosts == [accepted |-> <<>>, rejected |-> <<>>]
AllowedHosts(res) == Tier1 \cup ToSet(CapHosts(res).accepted)

\* No entry is dropped in silence and none gets through twice or beside the
\* rules; the defaults stay.
EveryHostIsAnswered(tier2, res) ==
    LET a == CapHosts(res)
        hosts == AllowedHosts(res)
    IN  /\ Len(a.accepted) + Len(a.rejected) = Len(tier2)
        /\ IsInjective(a.accepted) /\ Len(a.accepted) <= HostCap
        /\ Tier1 \subseteq hosts
        /\ \A h \in hosts \ Tier1 : \E i \in DOMAIN tier2 : tier2[i].host = h /\ tier2[i].valid
        /\ \A i \in DOMAIN tier2 :
             tier2[i].valid /\ tier2[i].host \notin hosts =>
               \E j \in DOMAIN a.rejected : a.rejected[j] = <<tier2[i].host, "exceeds 32-host sanity cap">>

-----------------------------------------------------------------------------
(* The analyzers of Python, Go and Rust *)

\* docker: whether the daemon runs, has the image, can build it, and how a
\* container ends.  An image is built once, or the build throws.
ImageExists(docker) == docker.up /\ docker.image
EnsureImage(docker) ==
    CASE ImageExists(docker) -> docker
      [] ~ImageExists(docker) /\ docker.up /\ docker.builds -> [docker EXCEPT !.image = TRUE]
      [] OTHER -> [docker EXCEPT !.ends = "build failed"]

\* Go and Rust look for the image once more; without one the container of
\* Python does not start.  Mutant: what was printed before a timeout counts.
BugRunAnalyzer(lang, docker) ==
    IF ImageExists(docker) /\ docker.ends \in {"killed", "JSON"} THEN "output" ELSE "exited non-zero"
RunAnalyzer(lang, docker) ==
    CASE ~ImageExists(docker) -> IF lang = "python" THEN "exited non-zero" ELSE "image is not built"
      [] ImageExists(docker) /\ docker.ends = "killed" -> "timed out"
      [] ImageExists(docker) /\ docker.ends = "no JSON" -> "returned non-JSON output"
      [] ImageExists(docker) /\ docker.ends = "JSON" -> "output"
      [] OTHER -> "exited non-zero"

RunGriffe(docker) == RunAnalyzer("python", docker)
RunApidiff(docker) == RunAnalyzer("go", docker)
RunCargoSemverChecks(docker) == RunAnalyzer("rust", docker)

\* The adapter looks for the image and runs it; the daemon may change in
\* between.
Analyze(lang, before, after) ==
    CASE ~ImageExists(before) -> "no image"
      [] ImageExists(before) /\ lang = "python" -> RunGriffe(after)
      [] ImageExists(before) /\ lang = "go" -> RunApidiff(after)
      [] OTHER -> RunCargoSemverChecks(after)

\* An output is one an analyzer printed before it ended well; without an
\* image there is none until one was built.
OutputIsPrinted(lang, before, after) ==
    /\ Analyze(lang, before, after) = "output" => after.up /\ after.image /\ after.ends = "JSON"
    /\ LET built == EnsureImage(before)
       IN  before.ends = "JSON" /\ Analyze(lang, built, built) = "output" =>
             before.up /\ (before.image \/ before.builds)
=============================================================================
