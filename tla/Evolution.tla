-------------------------------- MODULE Evolution --------------------------------
(***************************************************************************)
(* The AI settings and the scheduler of stage 3 that lives by them.  A     *)
(* settings request commits the row and then, under aiApplyMu, loads it    *)
(* again, replaces the configuration in memory and leaves a wake-up in a   *)
(* channel of capacity one.  The scheduler reads the configuration, runs   *)
(* or sleeps until the interval since its last attempt is over, and reads  *)
(* it again when it is woken.                                              *)
(***************************************************************************)
EXTENDS Naturals

CONSTANTS Editor,
          Interval,   \* the intervals that can be set
          MaxSaves,   \* bound: commits of the row
          MaxNow      \* bound: of the clock

ASSUME Intervals == Interval \subseteq Nat \ {0} /\ MaxSaves \in Nat /\ MaxNow \in Nat \ {0}

Config == [rev : 0..MaxSaves, on : BOOLEAN, every : Interval]
Never == 0

VARIABLES
  storedRow,      \* the row runtime_ai_settings
  config,     \* aiCfg, the configuration in memory
  editing,    \* the settings request of each editor
  missed,     \* observation: a request committed and failed to apply
  wake,       \* stage3Wake holds a wake-up
  scheduler,  \* the stage 3 loop
  now         \* the clock, which starts at 1

evolutionVars == <<storedRow, config, editing, missed, wake, scheduler, now>>

AtRest(c) == [step |-> "idle", got |-> c]

EvolutionInit ==
  /\ storedRow \in [rev : {0}, on : BOOLEAN, every : Interval] /\ config = storedRow
  /\ editing = [e \in Editor |-> AtRest(storedRow)]
  /\ missed = FALSE /\ wake = FALSE /\ now = 1
  /\ scheduler = [at |-> "deciding", config |-> storedRow, last |-> Never]

Editing(e, step, got) == editing' = [editing EXCEPT ![e] = [step |-> step, got |-> got]]

(* An update that names a revision other than the row's is refused and     *)
(* changes nothing.                                                        *)
Save(e, on, every) ==
  /\ editing[e].step = "idle" /\ storedRow.rev < MaxSaves
  /\ storedRow' = [rev |-> storedRow.rev + 1, on |-> on, every |-> every]
  /\ Editing(e, "saved", editing[e].got)
  /\ UNCHANGED <<config, missed, wake, scheduler, now>>

\* Mutant: requests apply their settings at the same time.
ApplyShared == TRUE

ApplyFree == \A e \in Editor : editing[e].step \notin {"loaded", "set"}

LoadSaved(e) ==
  /\ editing[e].step = "saved" /\ ApplyFree
  /\ Editing(e, "loaded", storedRow) /\ missed' = FALSE
  /\ UNCHANGED <<storedRow, config, wake, scheduler, now>>

(* The request was cancelled: Load fails and memory keeps what it had.     *)
ApplyFails(e) ==
  /\ editing[e].step = "saved"
  /\ Editing(e, "idle", editing[e].got) /\ missed' = TRUE
  /\ UNCHANGED <<storedRow, config, wake, scheduler, now>>

SetConfig(e) ==
  /\ editing[e].step = "loaded"
  /\ config' = editing[e].got
  /\ Editing(e, "set", editing[e].got)
  /\ UNCHANGED <<storedRow, missed, wake, scheduler, now>>

(* A full channel already holds a wake-up.                                 *)
Notify(e) ==
  /\ editing[e].step = "set"
  /\ wake' = TRUE
  /\ Editing(e, "idle", editing[e].got)
  /\ UNCHANGED <<storedRow, config, missed, scheduler, now>>

Due(c) == scheduler.last = Never \/ scheduler.last + c.every <= now

Decide ==
  /\ scheduler.at = "deciding"
  /\ scheduler' = [at |-> CASE ~config.on -> "off"
                            [] config.on /\ Due(config) -> "running"
                            [] OTHER -> "waiting",
                   config |-> config,
                   last |-> IF config.on THEN scheduler.last ELSE Never]
  /\ UNCHANGED <<storedRow, config, editing, missed, wake, now>>

FinishRun ==
  /\ scheduler.at = "running"
  /\ scheduler' = [scheduler EXCEPT !.at = "deciding", !.last = now]
  /\ UNCHANGED <<storedRow, config, editing, missed, wake, now>>

WakeUp ==
  /\ scheduler.at \in {"off", "waiting"} /\ wake
  /\ wake' = FALSE
  /\ scheduler' = [scheduler EXCEPT !.at = "deciding"]
  /\ UNCHANGED <<storedRow, config, editing, missed, now>>

(* A timer that is due may win against a wake-up: the run then still has   *)
(* the configuration the scheduler went to sleep with.                     *)
TimerFires ==
  /\ scheduler.at = "waiting" /\ Due(scheduler.config)
  /\ scheduler' = [scheduler EXCEPT !.at = "running"]
  /\ UNCHANGED <<storedRow, config, editing, missed, wake, now>>

TimePasses == /\ now < MaxNow /\ now' = now + 1
              /\ UNCHANGED <<storedRow, config, editing, missed, wake, scheduler>>

EvolutionNext ==
  \/ \E e \in Editor : \/ \E on \in BOOLEAN, every \in Interval : Save(e, on, every)
                       \/ LoadSaved(e) \/ ApplyFails(e) \/ SetConfig(e) \/ Notify(e)
  \/ Decide \/ FinishRun \/ WakeUp \/ TimerFires \/ TimePasses

EvolutionSpec == EvolutionInit /\ [][EvolutionNext]_evolutionVars
--------------------------------------------------------------------------------
EvolutionTypeOK ==
  /\ storedRow \in Config /\ config \in Config
  /\ editing \in [Editor -> [step : {"idle", "saved", "loaded", "set"}, got : Config]]
  /\ missed \in BOOLEAN /\ wake \in BOOLEAN /\ now \in 1..MaxNow
  /\ scheduler \in [at : {"deciding", "running", "off", "waiting"}, config : Config,
                    last : 0..MaxNow]

(* Once the settings requests are over, memory holds the row they left,    *)
(* whichever of them was last to load it, and a scheduler that sleeps on   *)
(* sleeps by that row: no wake-up is lost between its reading and its      *)
(* sleeping.  Only a request that could not load the row breaks this.      *)
SchedulerFollows ==
  (~missed /\ \A e \in Editor : editing[e].step = "idle") =>
    /\ config = storedRow
    /\ (scheduler.at \in {"off", "waiting"} /\ ~wake) => scheduler.config = storedRow
=================================================================================
