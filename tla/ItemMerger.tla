----------------------------- MODULE ItemMerger -----------------------------
(***************************************************************************)
(* FragmentedItemMerger (src/heal/merge.rs) on the passthrough path: an    *)
(* upstream that speaks the Responses protocol but breaks one logical item *)
(* into a run of adjacent items of one kind.  The merger shows the client  *)
(* the first fragment only, gives it the text of all, and closes it itself *)
(* when the run ends.  A stream without such runs must come out unchanged. *)
(*                                                                         *)
(* Items are numbered in the order the upstream opens them; the number is  *)
(* the item's id and its output index.  A piece of text is the number of   *)
(* the event that carried it.  Payloads that do not parse, and items       *)
(* without an id, are left out.                                            *)
(***************************************************************************)
EXTENDS Naturals, Sequences, FiniteSets, SequencesExt

CONSTANTS
    Enabled,   \* the quirk merge_fragmented is on for this request
    Keys,      \* the kinds of items the upstream opens
    NoCall,    \* the call_id of an item that has none
    Overlap,   \* whether the upstream goes on with an item after opening the next
    ManyParts, \* whether a message may have several parts
    MaxItems,  \* bound on the items of a stream
    MaxEvents  \* bound on the events of a stream

\* ItemType: the types that merge; everything else is "other".
Covered == {"message", "reasoning", "function_call"}

ASSUME MergerAssumption ==
    /\ {Enabled, Overlap, ManyParts} \subseteq BOOLEAN
    /\ \A k \in Keys : k = [type |-> k.type, call |-> k.call]
    /\ \A k \in Keys : k.type \in Covered \cup {"other"}
    /\ MaxItems \in Nat /\ MaxEvents \in Nat

VARIABLES
    keys,     \* the kinds of the items the upstream opened, by id
    closed,   \* the ids of those it closed
    received, \* history: the events it sent
    run,      \* run: the run being tracked
    merged,   \* merged_runs: the runs merged and closed
    out       \* history: the events passed on

vars == <<keys, closed, received, run, merged, out>>

-----------------------------------------------------------------------------
\* Events.  "partdone" is output_text.done or content_part.done; "untracked" is
\* any event of an item that push_event has no arm for, such as
\* function_call_arguments.done or reasoning_summary_part.added.

Event(type, id, key, data, output) ==
    [type |-> type, id |-> id, key |-> key, data |-> data, output |-> output]

\* What the deltas of item i say in a stream.
Said(log, i) ==
    FlattenSeq([n \in DOMAIN log |->
                  IF log[n].type = "delta" /\ log[n].id = i THEN log[n].data ELSE <<>>])

Item(id, key, data) == [id |-> id, key |-> key, data |-> data]

-----------------------------------------------------------------------------
\* The merger.

\* RunState: the run's length is that of fragment_ids.
NoRun == [key |-> [type |-> "none", call |-> NoCall], ids |-> <<>>, said |-> <<>>,
          part |-> FALSE]
NewRun(e) == [key |-> e.key, ids |-> <<e.id>>, said |-> <<>>, part |-> FALSE]

Init ==
    /\ keys = <<>> /\ closed = {} /\ received = <<>>
    /\ run = NoRun /\ merged = <<>> /\ out = <<>>

Merging(r) == Len(r.ids) >= 2

\* event_owned_by_run.
Owned(e) == e.id \in ToSet(run.ids)

\* synthesize_merged_item_value.
MergedItem(r) == Item(r.ids[1], r.key, r.said)

\* flush_run_synthesis: what closes a run that merged.
Dones(r) ==
    IF ~Merging(r) THEN <<>>
    ELSE LET close(type) == Event(type, r.ids[1], r.key, r.said, <<>>)
         IN  IF r.key.type = "message" THEN <<close("partdone"), close("done")>>
             ELSE <<close("done")>>

\* Bug: only the last run is kept.
RecordedLast(r) ==
    IF Merging(r) THEN <<[ids |-> r.ids, item |-> MergedItem(r)]>> ELSE merged

Recorded(r) ==
    IF Merging(r) THEN Append(merged, [ids |-> r.ids, item |-> MergedItem(r)])
    ELSE merged

PassOn(e) == out' = Append(out, e)

\* close_run_then: event e follows whatever closes the run.
CloseRunThen(e, next) ==
    /\ out' = out \o Append(Dones(run), e)
    /\ merged' = Recorded(run)
    /\ run' = next

\* on_added.
Continues(e) == run # NoRun /\ e.key = run.key

\* Bug: an item of a type that does not merge leaves the run as it is.
OnAddedKeepRun(e) ==
    IF Continues(e)
      THEN /\ run' = [run EXCEPT !.ids = Append(@, e.id)]
           /\ UNCHANGED <<merged, out>>
    ELSE IF e.key.type \in Covered THEN CloseRunThen(e, NewRun(e))
    ELSE PassOn(e) /\ UNCHANGED <<run, merged>>

OnAdded(e) ==
    IF Continues(e)
      THEN /\ run' = [run EXCEPT !.ids = Append(@, e.id)]
           /\ UNCHANGED <<merged, out>>
    ELSE CloseRunThen(e, IF e.key.type \in Covered THEN NewRun(e) ELSE NoRun)

\* Bug: the delta keeps the id of its fragment.
OnDeltaUnmoved(e) ==
    /\ PassOn(e) /\ UNCHANGED merged
    /\ IF run # NoRun /\ e.key.type = run.key.type
         THEN run' = [run EXCEPT !.said = @ \o e.data]
       ELSE UNCHANGED run

\* on_delta: the text goes to the run if the type of the delta fits, whatever
\* item it names.
OnDelta(e) ==
    /\ UNCHANGED merged
    /\ IF run # NoRun /\ e.key.type = run.key.type
         THEN /\ run' = [run EXCEPT !.said = @ \o e.data]
              /\ PassOn(IF Merging(run) THEN [e EXCEPT !.id = run.ids[1]] ELSE e)
       ELSE PassOn(e) /\ UNCHANGED run

\* on_content_part_added.
OnPart(e) ==
    /\ UNCHANGED merged
    /\ IF Owned(e)
         THEN /\ run' = [run EXCEPT !.part = TRUE]
              /\ IF run.part THEN UNCHANGED out ELSE PassOn(e)
       ELSE PassOn(e) /\ UNCHANGED run

\* Bug: the end of an item is withheld from the first fragment on.
OnDoneAlways(e) ==
    /\ IF Owned(e) THEN UNCHANGED out ELSE PassOn(e)
    /\ UNCHANGED <<run, merged>>

\* on_done.
OnDone(e) ==
    /\ IF Merging(run) /\ Owned(e) THEN UNCHANGED out ELSE PassOn(e)
    /\ UNCHANGED <<run, merged>>

\* The first of merged_runs that an item is a fragment of, if any.
RecordOf(item, records) ==
    {n \in DOMAIN records : /\ item.id \in ToSet(records[n].ids)
                            /\ \A k \in 1..(n - 1) : item.id \notin ToSet(records[k].ids)}

\* on_completed: every merged run takes the place of its first fragment.
Collapse(output, records) ==
    LET of(m) == RecordOf(output[m], records)
        repeated(m) == \E l \in 1..(m - 1) : of(l) = of(m)
        whole(m) == records[CHOOSE n \in of(m) : TRUE].item
    IN  FlattenSeq([m \in DOMAIN output |->
                      IF of(m) = {} THEN <<output[m]>>
                      ELSE IF repeated(m) THEN <<>> ELSE <<whole(m)>>])

OnCompleted(e) ==
    LET records == Recorded(run)
    IN  CloseRunThen(IF records = <<>> THEN e
                     ELSE [e EXCEPT !.output = Collapse(@, records)], NoRun)

\* push_event's last arm.
OnUntracked(e) == PassOn(e) /\ UNCHANGED <<run, merged>>

-----------------------------------------------------------------------------
\* The upstream, and push_event.

Live == \A n \in DOMAIN received : received[n].type # "completed"

\* The items the upstream may still speak of.
Open == (IF Overlap THEN DOMAIN keys ELSE {Len(keys)} \cap DOMAIN keys) \ closed

Speaks(e) ==
    /\ Live /\ Len(received) < MaxEvents
    /\ received' = Append(received, e)

\* push_event: the gate.
Handle(e, OnEvent(_)) ==
    IF Enabled THEN OnEvent(e) ELSE PassOn(e) /\ UNCHANGED <<run, merged>>

PushAdded(k) ==
    /\ Len(keys) < MaxItems
    /\ LET e == Event("added", Len(keys) + 1, k, <<>>, <<>>)
       IN  Speaks(e) /\ Handle(e, OnAdded)
    /\ keys' = Append(keys, k)
    /\ UNCHANGED closed

PushDelta(i) ==
    /\ LET e == Event("delta", i, keys[i], <<Len(received) + 1>>, <<>>)
       IN  Speaks(e) /\ Handle(e, OnDelta)
    /\ UNCHANGED <<keys, closed>>

\* A message's one part is announced before its text; if it may have several,
\* the others come at any time.
PushPart(i) ==
    /\ keys[i].type = "message"
    /\ \A n \in DOMAIN received : 
          received[n].id = i => received[n].type = "added" \/ ManyParts
    /\ LET e == Event("part", i, keys[i], <<>>, <<>>)
       IN  Speaks(e) /\ Handle(e, OnPart)
    /\ UNCHANGED <<keys, closed>>

PushPartDone(i) ==
    /\ keys[i].type = "message"
    /\ \A n \in DOMAIN received : received[n].id = i => received[n].type # "partdone"
    /\ LET e == Event("partdone", i, keys[i], Said(received, i), <<>>)
       IN  Speaks(e) /\ Handle(e, OnDone)
    /\ UNCHANGED <<keys, closed>>

PushDone(i) ==
    /\ LET e == Event("done", i, keys[i], Said(received, i), <<>>)
       IN  Speaks(e) /\ Handle(e, OnDone)
    /\ closed' = closed \cup {i}
    /\ UNCHANGED keys

PushUntracked(i) ==
    /\ LET e == Event("untracked", i, keys[i], Said(received, i), <<>>)
       IN  Speaks(e) /\ Handle(e, OnUntracked)
    /\ UNCHANGED <<keys, closed>>

\* The upstream lists what it sent, closed or not.
PushCompleted ==
    /\ LET items == [i \in DOMAIN keys |-> Item(i, keys[i], Said(received, i))]
           e == Event("completed", 0, NoRun.key, <<>>, items)
       IN  Speaks(e) /\ Handle(e, OnCompleted)
    /\ UNCHANGED <<keys, closed>>

Next ==
    \/ \E k \in Keys : PushAdded(k)
    \/ \E i \in Open :
          \/ PushDelta(i) \/ PushPart(i) \/ PushPartDone(i) \/ PushDone(i)
          \/ PushUntracked(i)
    \/ PushCompleted

Spec == Init /\ [][Next]_vars

-----------------------------------------------------------------------------
\* What the client may rely on.

EventTypes == {"added", "delta", "part", "partdone", "done", "untracked", "completed"}

\* The variables hold what the merger's fields can hold (RunState,
\* MergedRunRecord), and a run's fragments are distinct items the upstream
\* opened one after the other.
TypeOK ==
    /\ keys \in Seq(Keys) /\ closed \subseteq DOMAIN keys
    /\ \A log \in {received, out} : \A n \in DOMAIN log :
          log[n].type \in EventTypes /\ log[n].id \in 0..Len(keys)
    /\ run = NoRun \/ (run.key \in Keys /\ run.ids # <<>>)
    /\ \A n \in DOMAIN run.ids : run.ids[n] + Len(run.ids) = Len(keys) + n
    /\ \A n \in DOMAIN merged : Len(merged[n].ids) >= 2

\* Two items that follow each other are fragments of one.
Fragments(k1, k2) == k1 = k2 /\ k1.type \in Covered

Healthy == \A i \in 1..(Len(keys) - 1) : ~Fragments(keys[i], keys[i + 1])

\* The first fragments, the fragments of the item that i leads, and all that
\* the upstream said in them.
Leaders == {i \in DOMAIN keys : i = 1 \/ ~Fragments(keys[i - 1], keys[i])}
RunOf(i) ==
    {j \in DOMAIN keys : i <= j /\ \A n \in i..(j - 1) : Fragments(keys[n], keys[n + 1])}
WholeText(i) ==
    FlattenSeq([n \in DOMAIN keys |-> IF n \in RunOf(i) THEN Said(received, n) ELSE <<>>])

\* Where a stream holds the events of a type.
Places(log, type) == {n \in DOMAIN log : log[n].type = type}

\* A stream in which no item is broken up, or with the quirk off, reaches the
\* client event for event as it was sent (the module comment's "identity on
\* healthy streams"; push_event, on_completed).
HealthyIdentity == (Healthy \/ ~Enabled) => out = received

\* Text and the ends of items reach the client under items it saw opened
\* (on_delta, on_done).  The events push_event has no arm for keep the id of the
\* item they come with: under the first item of a run, or one that is whole, the
\* client knows it; those of a later fragment name an item it never saw.
OnlyShownItems ==
    \A n \in DOMAIN out :
      (out[n].type \in {"delta", "partdone", "done"}
         \/ (out[n].type = "untracked" /\ out[n].id \in Leaders))
        => \E m \in 1..(n - 1) : out[m].type = "added" /\ out[m].id = out[n].id

\* The client sees one item per run, its first fragment, in the upstream's
\* order (on_added); response.completed, which is also what the session store
\* keeps, lists just these, each with the text it was sent (on_completed).
CompletedMatchesStream ==
  LET added == Places(out, "added")
      listed == Last(out).output
  IN /\ {out[n].id : n \in added} = Leaders
     /\ \A m, n \in added : m < n => out[m].id < out[n].id
     /\ ~Live =>
          /\ {listed[n].id : n \in DOMAIN listed} = Leaders
          /\ \A m, n \in DOMAIN listed : m < n => listed[m].id < listed[n].id
          /\ \A n \in DOMAIN listed : \E m \in added :
               listed[n] = Item(out[m].id, out[m].key, Said(out, out[m].id))

\* No text is lost, doubled, reordered or given to another item: what the
\* client reads under an item is what the upstream said in its run (on_delta);
\* and by the end every item broken up, or closed by the upstream, has been
\* closed for the client, the last time with its whole text, and more than once
\* only if the upstream closed its first fragment before it opened the second
\* (close_run_then, on_done).
TextSurvives ==
  /\ \A i \in Leaders : Said(out, i) = WholeText(i)
  /\ ~Live => \A i \in Leaders :
        LET ends == {n \in Places(out, "done") : out[n].id = i}
            early == \E n \in Places(received, "added") : \E m \in Places(received, "done") :
                        m < n /\ received[m].id = i /\ received[n].id = i + 1
        IN  /\ RunOf(i) # {i} \/ i \in closed => ends # {}
            /\ \A n \in ends : (\A m \in ends : m <= n) => out[n].data = Said(out, i)
            /\ Cardinality(ends) > 1 => early
=============================================================================
