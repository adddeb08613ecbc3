--------------------------- MODULE SimulationRuns ---------------------------
(***************************************************************************)
(* The simulation runner (iams/simulation.py): main reads a configuration, *)
(* generates one run for every combination of its products, and only then  *)
(* executes them, in this process or in a pool of processes.  It may be    *)
(* killed and invoked again; what it leaves are the files with results.    *)
(*                                                                         *)
(* The dictionary of settings of the configuration is shared by all runs   *)
(* that are generated; a run gets its own when main copies it.             *)
(***************************************************************************)
EXTENDS Naturals, Sequences, FiniteSets, SequencesExt

CONSTANTS
    Products,       \* the values of every key of the products
    Format,         \* what the formatter mentions: keys and "count", the number of the run
    Defaults,       \* the settings of the configuration
    Processes,      \* size of the pool
    Invocations,    \* how often the runner is invoked (bound of the model)
    None

Keys == DOMAIN Products

ASSUME RunsAssumption ==
    /\ Format \subseteq Keys \cup {"count"}
    /\ Processes \in Nat \ {0} /\ Invocations \in Nat

\* The combinations of the products, one after the other.
RowSet == {r \in [Keys -> UNION {Products[k] : k \in Keys}] :
              \A k \in Keys : r[k] \in Products[k]}
Rows == SetToSeq(RowSet)

\* The name of a run and of its files; a single run is named for its configuration only.
Name(i) ==
    [k \in IF Len(Rows) > 1 THEN Format ELSE {} |-> IF k = "count" THEN i ELSE Rows[i][k]]
Names == {Name(i) : i \in DOMAIN Rows}

\* The settings s after an update with row i.
Updated(s, i) == [k \in DOMAIN s \cup Keys |-> IF k \in Keys THEN Rows[i][k] ELSE s[k]]

\* What a run that has its own settings is given, and what is in a file of results.
Given == {Updated(Defaults, i) : i \in DOMAIN Rows}
File == [by : SUBSET Given, complete : BOOLEAN]

ASSUME RowsAssumption == IsFiniteSet(RowSet) /\ None \notin Given \cup File

VARIABLES
    stage,       \* what main does
    args,        \* the options of the command line
    next,        \* the row that is generated next
    settings,    \* the dictionary of the configuration
    list,        \* kwarg_list: the runs generated
    submitted,   \* the indices of the runs that were submitted and have not begun
    running,     \* the indices of the runs that are executed
    files,       \* the file of results for every name
    invocations  \* invocations that are left

runVars == <<stage, args, next, settings, list, submitted, running, files, invocations>>

Args == [force : BOOLEAN, dryrun : BOOLEAN, single : BOOLEAN]

RunsInit ==
    /\ stage = "idle"
    /\ args = [force |-> FALSE, dryrun |-> FALSE, single |-> FALSE]
    /\ next = 1
    /\ settings = Defaults
    /\ list = <<>>
    /\ submitted = {} /\ running = {}
    /\ files = [n \in Names |-> None]
    /\ invocations = Invocations

-----------------------------------------------------------------------------
(* Generation.                                                             *)

Invoke(a) ==
    /\ stage = "idle" /\ invocations > 0
    /\ stage' = "generate"
    /\ args' = a
    /\ next' = 1 /\ settings' = Defaults /\ list' = <<>>
    /\ invocations' = invocations - 1
    /\ UNCHANGED <<submitted, running, files>>

\* Faulty variant: the dictionary of the configuration itself.
Kwargs_Shared(i, s) == [name |-> Name(i), settings |-> None]

\* What a run is given: its own copy of the settings as they are now.
Kwargs(i, s) == [name |-> Name(i), settings |-> s]

\* Faulty variant: results that are there are not looked at.
Skipped_Never(i) == FALSE

\* The results of row i are there already.
Skipped(i) == ~args.dryrun /\ ~args.force /\ files[Name(i)] # None

\* process_config yields a run, and main copies it before the next is generated.
Generate ==
    /\ stage = "generate" /\ next <= Len(Rows)
    /\ settings' = Updated(settings, next)
    /\ list' = IF Skipped(next) THEN list ELSE Append(list, Kwargs(next, settings'))
    /\ next' = next + 1
    /\ UNCHANGED <<stage, args, submitted, running, files, invocations>>

\* The configuration has no simulation class, names a directory facilitator, or its
\* formatter mentions what is not there: nothing is executed.
GenerateFails ==
    /\ stage = "generate" /\ next = 1
    /\ stage' = "idle"
    /\ UNCHANGED <<args, next, settings, list, submitted, running, files, invocations>>

\* One run is executed here, the first one or the only one; more go to the pool.  With
\* nothing to do --single raises IndexError.
Submit ==
    /\ stage = "generate" /\ next > Len(Rows)
    /\ stage' = IF list = <<>> THEN "idle" ELSE "execute"
    /\ submitted' = IF args.single \/ Len(list) = 1 THEN DOMAIN list \cap {1} ELSE DOMAIN list
    /\ UNCHANGED <<args, next, settings, list, running, files, invocations>>

-----------------------------------------------------------------------------
(* Execution.                                                              *)

\* The settings of a run that has not got its own are those of the configuration.
SettingsOf(j) == IF list[j].settings = None THEN settings ELSE list[j].settings

\* In a dry run nothing is written.
Writes(j, file) ==
    files' = IF args.dryrun THEN files ELSE [files EXCEPT ![list[j].name] = file]

\* run_simulation opens the file of the results, which makes it empty.
Begin(j) ==
    /\ stage = "execute" /\ j \in submitted
    /\ \A k \in submitted : j <= k
    /\ Cardinality(running) < Processes
    /\ submitted' = submitted \ {j} /\ running' = running \cup {j}
    /\ Writes(j, [by |-> {}, complete |-> FALSE])
    /\ UNCHANGED <<stage, args, next, settings, list, invocations>>

Complete(j) ==
    /\ j \in running
    /\ running' = running \ {j}
    /\ Writes(j, [by |-> files[list[j].name].by \cup {SettingsOf(j)}, complete |-> TRUE])
    /\ UNCHANGED <<stage, args, next, settings, list, submitted, invocations>>

\* The simulation raises: the handler of the pool logs it, a run executed here ends main.
Fail(j) ==
    /\ j \in running
    /\ running' = running \ {j}
    /\ UNCHANGED <<stage, args, next, settings, list, submitted, files, invocations>>

\* A process of the pool dies: the executor gives up all runs that have not ended.
Break ==
    /\ stage = "execute" /\ running # {} /\ Len(list) > 1 /\ ~args.single
    /\ submitted' = {} /\ running' = {}
    /\ UNCHANGED <<stage, args, next, settings, list, files, invocations>>

\* The pool is shut down when all runs have ended.
Return ==
    /\ stage = "execute" /\ submitted = {} /\ running = {}
    /\ stage' = "idle"
    /\ UNCHANGED <<args, next, settings, list, submitted, running, files, invocations>>

\* The runner is killed together with its processes, as by Ctrl-C or the end of its container;
\* that they outlive a runner that is killed alone is not modelled.  The files stay as they are.
Kill ==
    /\ stage # "idle"
    /\ stage' = "idle" /\ submitted' = {} /\ running' = {}
    /\ UNCHANGED <<args, next, settings, list, files, invocations>>

RunsNext ==
    \/ \E a \in Args : Invoke(a)
    \/ Generate \/ GenerateFails \/ Submit \/ Break \/ Return \/ Kill
    \/ \E j \in DOMAIN list : Begin(j) \/ Complete(j) \/ Fail(j)

RunsSpec == RunsInit /\ [][RunsNext]_runVars

-----------------------------------------------------------------------------
(* Properties.                                                             *)

RunsTypeOK ==
    /\ stage \in {"idle", "generate", "execute"}
    /\ args \in Args
    /\ next \in 1 .. Len(Rows) + 1
    /\ DOMAIN settings = DOMAIN Defaults \/ DOMAIN settings = DOMAIN Defaults \cup Keys
    /\ submitted \subseteq DOMAIN list /\ running \subseteq DOMAIN list
    /\ \A n \in Names : files[n] = None \/ files[n].complete \in BOOLEAN
    /\ invocations \in 0 .. Invocations

\* Every complete file holds the results of one run only, and this run had the defaults
\* updated with the row that its name stands for, whatever was generated after it.
OwnResults ==
    \A n \in Names : files[n] # None /\ files[n].complete =>
        \E i \in DOMAIN Rows : Name(i) = n /\ files[n].by = {Updated(Defaults, i)}

\* Complete results are never touched again unless --force is given.
ResultsKept ==
    [][\A n \in Names : files[n] # None /\ files[n].complete /\ files'[n] # files[n]
            => args.force]_runVars

\* A run that has failed or was killed is repeated by the next invocation.
FailedRepeated ==
    [][Generate /\ files[Name(next)] # None => files[Name(next)].complete \/ list' # list]_runVars
=============================================================================
