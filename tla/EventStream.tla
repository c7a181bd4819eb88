----------------------------- MODULE EventStream -----------------------------
(***************************************************************************)
(* evidence.py: one JSONL stream of a bundle, appended to by any process   *)
(* and read back.  Events are numbered as they come.  An append is one     *)
(* write at the end of the file; the death of its process can leave        *)
(* nothing, a proper part of the line, or all of it but the newline.       *)
(***************************************************************************)
EXTENDS Naturals, SequencesExt, FiniteSets

CONSTANTS
  MaxEvents,   \* bound on events
  Raised       \* what a read gives that meets a line it cannot parse

ASSUME StreamAssumption == MaxEvents \in Nat /\ Raised \notin Seq(Nat)

VARIABLES
  pieces,        \* the file: what the appends left, as [event, text]
  acknowledged,  \* the events whose append has returned
  deaths         \* how many appends did not return

streamVars == <<pieces, acknowledged, deaths>>

StreamInit ==
  /\ pieces = <<>>
  /\ acknowledged = <<>>
  /\ deaths = 0

Event == Len(acknowledged) + deaths + 1
Leave(text) == pieces' = Append(pieces, [event |-> Event, text |-> text])

write_jsonl_event ==
  /\ Event <= MaxEvents
  /\ Leave("line")
  /\ acknowledged' = Append(acknowledged, Event)
  /\ UNCHANGED deaths

WriteDies ==
  /\ Event <= MaxEvents
  /\ Leave("half") \/ Leave("body") \/ UNCHANGED pieces
  /\ deaths' = deaths + 1
  /\ UNCHANGED acknowledged

StreamNext == write_jsonl_event \/ WriteDies

-----------------------------------------------------------------------------
(* Split[n]: the lines the first n pieces make.  A piece opens a line at   *)
(* the start of the file and behind a newline, and goes on with it if not. *)
Split ==
  LET split[n \in 0..Len(pieces)] ==
        IF n = 0 THEN <<>>
        ELSE IF n = 1 \/ pieces[n-1].text = "line" THEN Append(split[n-1], <<pieces[n]>>)
        ELSE [split[n-1] EXCEPT ![Len(split[n-1])] = Append(@, pieces[n])]
  IN  split

Lines == Split[Len(pieces)]

(* json.loads takes one object, with or without its newline; not half of   *)
(* one, nor one with anything before or behind it.                         *)
Parses(line) == Len(line) = 1 /\ line[1].text # "half"

(* Mutant: lines that do not parse are passed over.                        *)
SkipBadLines ==
  LET good == SelectSeq(Lines, Parses)
  IN  [i \in DOMAIN good |-> good[i][1].event]

read_jsonl_stream ==
  IF \A i \in DOMAIN Lines : Parses(Lines[i])
  THEN [i \in DOMAIN Lines |-> Lines[i][1].event] ELSE Raised

-----------------------------------------------------------------------------
(* A read loses nothing silently: if it returns, it returns every          *)
(* acknowledged event, the events in the order of their appends, and       *)
(* beside the acknowledged ones only some whose append died late.  And     *)
(* only a death makes a stream unreadable.                                 *)
StreamFaithful ==
  LET events == read_jsonl_stream
  IN  IF events = Raised THEN deaths > 0
      ELSE /\ ToSet(acknowledged) \subseteq ToSet(events)
           /\ \A i, j \in DOMAIN events : i < j => events[i] < events[j]
           /\ Cardinality(ToSet(events) \ ToSet(acknowledged)) <= deaths
=============================================================================
