------------------------------- MODULE ToolBatch -------------------------------
(* Several tool calls of one answer: ExecuteToolsParallel, which runs them one by one
   or as goroutines that share a semaphore (internal/agent/parallel.go), executeOne
   with its approval, and the hooks before and after a tool (internal/agent/hooks.go).
   The context of the batch ends when the caller's does and, with FailFast, after the
   first error. A goroutine ends at any pace. *)
EXTENDS Integers, FiniteSets

CONSTANTS
    CallCount,      \* calls of the batch, in their order
    Limits,         \* the values of MaxConcurrency
    HookCount       \* hooks that match a tool, before and after it

Calls == 1 .. CallCount

VARIABLES
    limit, failFast,        \* ParallelToolsOptions
    gated,      \* the calls whose tools need an approval
    unknown,    \* the calls of tools that do not exist
    pc,         \* per call: waiting, approve, lookup, pre, exec, post, done
    out,        \* per call: its ParallelOutcome
    parent,     \* the context of the caller is done
    cancelled,  \* cancel() was called
    ran,        \* the calls whose tool was started
    late,       \* the calls that were begun when the context was done
    stopped     \* the calls with a hook that the end of the context killed

options == <<limit, failFast, gated, unknown>>
seen == <<ran, late, stopped>>
vars == <<options, pc, out, parent, cancelled, seen>>

Nothing == [how |-> "none", err |-> FALSE]
Error(how) == [how |-> how, err |-> TRUE]

\* A batch with a call that needs an approval is a barrier: one call at a time.
\* Mutation: only the approvals themselves come one at a time.
SerialOnlyGated == limit <= 1 \/ gated = Calls
Serial == limit <= 1 \/ gated # {}

Done == parent \/ (~ Serial /\ cancelled)

Init ==
    /\ limit \in Limits /\ failFast \in BOOLEAN
    /\ gated \in SUBSET Calls /\ unknown \in {{}, {CallCount}}
    /\ pc = [i \in Calls |-> "waiting"] /\ out = [i \in Calls |-> Nothing]
    /\ parent = FALSE /\ cancelled = FALSE
    /\ ran = {} /\ late = {} /\ stopped = {}

Busy == {i \in Calls : pc[i] \notin {"waiting", "done"}}

-----------------------------------------------------------------------------
Goto(i, where) == pc' = [pc EXCEPT ![i] = where]

\* The outcome is stored, the slot of the semaphore is given back, and an error may
\* end the batch.
Ends(i, outcome) ==
    /\ out' = [out EXCEPT ![i] = outcome]
    /\ Goto(i, "done")
    /\ cancelled' = (cancelled \/ (~ Serial /\ failFast /\ outcome.err))

\* A goroutine that gets a slot looks at the context; the loop of the serial way
\* does not. Mutation: nor does the goroutine.
GivesUpNever == FALSE
GivesUp == ~ Serial /\ Done

Start(i) ==
    /\ pc[i] = "waiting"
    /\ IF Serial THEN \A j \in 1 .. i - 1 : pc[j] = "done"
                 ELSE Cardinality(Busy) < limit
    /\ late' = IF ~ Serial /\ Done THEN late \cup {i} ELSE late
    /\ IF GivesUp THEN /\ out' = [out EXCEPT ![i] = Error("cancelled")]
                       /\ Goto(i, "done")
                  ELSE /\ Goto(i, IF i \in gated THEN "approve" ELSE "lookup")
                       /\ UNCHANGED out
    /\ UNCHANGED <<options, parent, cancelled, ran, stopped>>

\* The decision of the reviewer, its default, or a failure of the broker.
Decide(i) ==
    /\ pc[i] = "approve"
    /\ \/ Goto(i, "lookup") /\ UNCHANGED <<out, cancelled>>
       \/ \E how \in {"denied", "failed"} : Ends(i, Error(how))
    /\ UNCHANGED <<options, parent, seen>>

Lookup(i) ==
    /\ pc[i] = "lookup"
    /\ IF i \in unknown THEN Ends(i, Error("unknown"))
                        ELSE Goto(i, "pre") /\ UNCHANGED <<out, cancelled>>
    /\ UNCHANGED <<options, parent, seen>>

\* How a hook may end: exit code 0, 2 or another, its own timeout, no start, or the
\* end of the context, which kills it or keeps it from starting.
HookEnds == {"0", "2", "other", "timeout", "nostart"}
               \cup (IF Done THEN {"interrupted"} ELSE {})

\* RunPre lets the tool run unless a hook says 2 or was interrupted. Mutation: what
\* is not exit code 2 is let through.
RefusesTwo(ends) == \E k \in DOMAIN ends : ends[k] = "2"
Refuses(ends) == \E k \in DOMAIN ends : ends[k] \in {"2", "interrupted"}

RunPre(i) ==
    /\ pc[i] = "pre"
    /\ \E ends \in [1 .. HookCount -> HookEnds] :
          /\ IF Refuses(ends) THEN Ends(i, Error("blocked")) /\ UNCHANGED ran
             ELSE /\ Goto(i, "exec") /\ ran' = ran \cup {i}
                  /\ UNCHANGED <<out, cancelled>>
          /\ stopped' = IF \E k \in DOMAIN ends : ends[k] = "interrupted"
                        THEN stopped \cup {i} ELSE stopped
    /\ UNCHANGED <<options, parent, late>>

\* The tool returns, then the hooks after it, whose ends mean nothing.
Execute(i) ==
    /\ pc[i] = "exec"
    /\ \E err \in BOOLEAN : out' = [out EXCEPT ![i] = [how |-> "ran", err |-> err]]
    /\ Goto(i, "post")
    /\ UNCHANGED <<options, parent, cancelled, seen>>
RunPost(i) ==
    /\ pc[i] = "post"
    /\ Ends(i, out[i])
    /\ UNCHANGED <<options, parent, seen>>

\* The caller's context ends.
Interrupt ==
    /\ ~ parent /\ parent' = TRUE
    /\ UNCHANGED <<options, pc, out, cancelled, seen>>

Step(i) == Start(i) \/ Decide(i) \/ Lookup(i) \/ RunPre(i) \/ Execute(i) \/ RunPost(i)
Next == (\E i \in Calls : Step(i)) \/ Interrupt
Spec == Init /\ [][Next]_vars

-----------------------------------------------------------------------------
\* The outcomes tell what happened: a tool ran exactly if its outcome says so, and
\* not if a hook was killed by an interruption or if the batch was over before its
\* turn. Never do more calls run than the semaphore has slots, and while a call
\* waits for an approval no other one runs (parallel.go:30-88, hooks.go:76-99).
OutcomesAreTrue ==
    /\ \A i \in Calls : pc[i] = "done" => (out[i].how = "ran" <=> i \in ran)
    /\ ran \cap (late \cup stopped \cup unknown) = {}
    /\ Cardinality(Busy) <= IF limit <= 1 THEN 1 ELSE limit
    /\ \A i \in Calls : pc[i] = "approve" => Busy = {i}
===============================================================================
