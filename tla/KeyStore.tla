------------------------------ MODULE KeyStore ------------------------------
(***************************************************************************)
(* The keys a broker serves.  One goroutine reads the keystore directory,  *)
(* a mounted Secret, file by file on a ticker (internal/broker/reload.go,  *)
(* client.LoadKeyDir) while the mount may be relinked to another           *)
(* generation, and swaps the result in; unseals and the readiness probe    *)
(* read what is in place; SIGTERM drains the process before it stops       *)
(* (cmd/sealdbroker).                                                      *)
(*                                                                         *)
(* A file holds a project's identity, or nothing that parses (Bad); a key  *)
(* is one value.  Files are numbered in the order of their names.          *)
(***************************************************************************)
EXTENDS Naturals

CONSTANTS
  Files, Repositories, Identities, NoKey,
  Absent,       \* there is no such file
  Bad,          \* a file that does not parse or validate
  MaxRelinks,   \* bound on changes of the directory
  MaxFaults     \* bound on failed reads and on terminations

ASSUME KeyStoreAssumption ==
  /\ Files \subseteq Nat
  /\ NoKey \notin Identities
  /\ Absent # Bad /\ {Absent, Bad} \intersect (Repositories \X Identities) = {}
  /\ MaxRelinks \in Nat /\ MaxFaults \in Nat

VARIABLES
  dir,        \* the mounted directory: what each file holds
  serving,    \* the process has started and serves
  draining,   \* Broker.draining
  keys,       \* Broker.Keys.Identities
  skipped,    \* Broker.Skipped
  at,         \* where the loading goroutine is
  names,      \* the files listed and not yet read
  got,        \* the identities resolved so far
  bad,        \* the files skipped so far
  was,        \* history: what each file has held since the listing
  relinks, faults

load == <<at, names, got, bad>>
broker == <<serving, draining, keys, skipped>>
ksvars == <<dir, broker, load, was, relinks, faults>>

Content == {Absent, Bad} \union (Repositories \X Identities)
NoKeys  == [p \in Repositories |-> NoKey]

-----------------------------------------------------------------------------

KSInit ==
  /\ dir \in [Files -> Content]
  /\ serving = FALSE /\ draining = FALSE
  /\ keys = NoKeys /\ skipped = {}
  /\ at = "idle" /\ names = {} /\ got = NoKeys /\ bad = {}
  /\ was = [f \in Files |-> {}]
  /\ relinks = 0 /\ faults = 0

Fault == faults < MaxFaults /\ faults' = faults + 1

\* The kubelet relinks the mount to another generation, all files at once.
Relink ==
  /\ relinks < MaxRelinks /\ relinks' = relinks + 1
  /\ dir' \in [Files -> Content]
  /\ was' = [f \in Files |-> was[f] \union {dir'[f]}]
  /\ UNCHANGED <<broker, load, faults>>

\* LoadKeyDir lists the directory: at startup, then on each tick of PollReload
\* until SIGTERM cancels it.
List ==
  /\ at = "idle" /\ ~draining
  /\ at' = "read"
  /\ names' = {f \in Files : dir[f] # Absent}
  /\ got' = NoKeys /\ bad' = {}
  /\ was' = [f \in Files |-> {dir[f]}]
  /\ UNCHANGED <<dir, broker, relinks, faults>>

\* The directory cannot be listed: a reload keeps what is in place, a startup
\* exits and is started again.
ListFails ==
  /\ at = "idle" /\ ~draining /\ Fault
  /\ UNCHANGED <<dir, broker, load, was, relinks>>

\* The names are read in order.
First(f) == f \in names /\ \A g \in names : f <= g

\* A file that parses puts its project's identity in the map, over one an
\* earlier file gave.
Resolve(f) ==
  /\ dir[f] \in Repositories \X Identities
  /\ got' = [got EXCEPT ![dir[f][1]] = dir[f][2]]
  /\ UNCHANGED <<bad, faults>>

\* A file that is gone, malformed or unreadable is skipped.
Skip(f) ==
  /\ (dir[f] \in {Absent, Bad} /\ UNCHANGED faults) \/ Fault
  /\ bad' = bad \union {f}
  /\ UNCHANGED got

\* Mutant of ReadFile: the first file that is skipped ends the load.
BugReadFile ==
  /\ at = "read"
  /\ \E f \in names :
       /\ First(f)
       /\ \/ Resolve(f) /\ names' = names \ {f}
          \/ Skip(f) /\ names' = {}
  /\ UNCHANGED <<dir, broker, at, was, relinks>>

\* os.ReadFile and ParseKeyFile on the next name.
ReadFile ==
  /\ at = "read"
  /\ \E f \in names :
       /\ First(f)
       /\ names' = names \ {f}
       /\ Resolve(f) \/ Skip(f)
  /\ UNCHANGED <<dir, broker, at, was, relinks>>

\* Mutant of Swap: an empty result replaces the keys in place.
BugSwap ==
  /\ at = "read" /\ names = {}
  /\ at' = "idle"
  /\ keys' = got /\ skipped' = bad /\ serving' = TRUE
  /\ UNCHANGED <<dir, draining, names, got, bad, was, relinks, faults>>

\* Mutant of Swap: a project that is not in the load keeps its key.
BugMerge ==
  /\ at = "read" /\ names = {}
  /\ at' = "idle"
  /\ IF got = NoKeys THEN UNCHANGED <<keys, skipped, serving>>
     ELSE /\ keys' = [p \in Repositories |-> IF got[p] = NoKey THEN keys[p] ELSE got[p]]
          /\ skipped' = bad /\ serving' = TRUE
  /\ UNCHANGED <<dir, draining, names, got, bad, was, relinks, faults>>

\* The load is over.  With a key it is put in place (SwapKeys); with none a
\* reload is a no-op and a startup exits.
Swap ==
  /\ at = "read" /\ names = {}
  /\ at' = "idle"
  /\ IF got = NoKeys THEN UNCHANGED <<keys, skipped, serving>>
     ELSE keys' = got /\ skipped' = bad /\ serving' = TRUE
  /\ UNCHANGED <<dir, draining, names, got, bad, was, relinks, faults>>

\* SIGTERM: the polling is cancelled and the process drains; a load under way
\* still ends.
BeginDrain ==
  /\ serving /\ ~draining /\ Fault
  /\ draining' = TRUE
  /\ UNCHANGED <<dir, serving, keys, skipped, load, was, relinks>>

\* The process ends, and its replacement starts from nothing.
Shutdown ==
  /\ draining
  /\ serving' = FALSE /\ draining' = FALSE /\ keys' = NoKeys /\ skipped' = {}
  /\ at' = "idle" /\ names' = {} /\ got' = NoKeys /\ bad' = {}
  /\ UNCHANGED <<dir, was, relinks, faults>>

KSNext ==
  \/ Relink \/ List \/ ListFails \/ ReadFile \/ Swap \/ BeginDrain \/ Shutdown

KSSpec == KSInit /\ [][KSNext]_ksvars

\* The ticker ticks, a load ends, and so does a drain.
FairSpec == KSSpec /\ WF_ksvars(List \/ ReadFile \/ Swap) /\ WF_ksvars(Shutdown)

-----------------------------------------------------------------------------
(***************************************************************************)
(* Properties                                                              *)
(***************************************************************************)

\* Every variable keeps its shape.
KSTypeOK ==
  /\ dir \in [Files -> Content]
  /\ serving \in BOOLEAN /\ draining \in BOOLEAN
  /\ keys \in [Repositories -> Identities \union {NoKey}] /\ skipped \subseteq Files
  /\ at \in {"idle", "read"} /\ names \subseteq Files
  /\ got \in [Repositories -> Identities \union {NoKey}] /\ bad \subseteq Files
  /\ was \in [Files -> SUBSET Content]
  /\ relinks \in 0..MaxRelinks /\ faults \in 0..MaxFaults

\* HandleReadyz: a positive answer.
Ready == serving /\ ~draining /\ keys # NoKeys

\* A process that serves has a key whatever its reloads met: it is ready from
\* its start to its drain.
AlwaysReady == serving /\ ~draining => Ready

\* The file of p, and no other, held p's identity all through the load.
Steady(p, f, k) ==
  /\ was[f] = {<<p, k>>}
  /\ \A g \in Files \ {f}, c \in Identities : <<p, c>> \notin was[g]

\* One bad key, or any number, downs only its own repository: a project whose
\* file did not change and was not skipped is in the load, with its own key,
\* whatever the other files did meanwhile.
OthersKept ==
  at = "read" =>
    \A p \in Repositories, f \in Files, k \in Identities :
      Steady(p, f, k) => f \in names \union bad \/ got[p] = k

\* No load mixes up identities: every one was in a file during the load.
FromTheFiles ==
  at = "read" =>
    \A p \in Repositories : got[p] # NoKey => \E f \in Files : <<p, got[p]>> \in was[f]

\* The identities of a directory at rest: of several files with one project
\* the last name wins.
Loaded(d) ==
  [p \in Repositories |->
     LET own == {f \in Files : \E k \in Identities : d[f] = <<p, k>>}
     IN  IF own = {} THEN NoKey
         ELSE d[CHOOSE f \in own : \A g \in own : g <= f][2]]

\* Once the mount rests and the reads work, the broker serves what it holds,
\* unless that is nothing.
Converges == <>[](Loaded(dir) = NoKeys \/ (serving /\ keys = Loaded(dir)))

\* What is in the directory during a load has been there since its listing.
Present == at = "read" => \A f \in Files : dir[f] \in was[f]

\* The load met the directory as it is, and skipped only what does not parse.
Quiet ==
  /\ \A f \in Files : was[f] = {dir[f]}
  /\ \A f \in bad : dir[f] \in {Absent, Bad}

\* A quiet load has read the files before the ones it has left, and has of each
\* project the key of the last of them.
InOrder ==
  at = "read" /\ Quiet =>
    /\ \A f \in Files \ names, g \in names : dir[f] # Absent => f < g
    /\ \A p \in Repositories :
         LET own == {f \in Files \ names : \E k \in Identities : dir[f] = <<p, k>>}
         IN  \/ got[p] = NoKey /\ own = {}
             \/ \E f \in own : dir[f] = <<p, got[p]>> /\ \A g \in own : g <= f

\* The safety half of Converges: a quiet load ends with what the directory holds.
LoadsExactly == at = "read" /\ names = {} /\ Quiet => got = Loaded(dir)

\* What Converges comes to, and any load under way is quiet.
Served == serving /\ ~draining /\ keys = Loaded(dir) /\ (at = "read" => Quiet)

\* It stays so while the mount rests and nothing fails.
ServedStays == [][Served /\ UNCHANGED <<dir, faults>> => Served']_ksvars

\* The inductive invariant.
KSInv == KSTypeOK /\ AlwaysReady /\ Present /\ OthersKept /\ FromTheFiles /\ InOrder
=============================================================================
