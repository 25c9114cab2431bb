------------------------------- MODULE Points -------------------------------
(***************************************************************************)
(* The breakpoints and watchpoints of one emulator: the command lines that *)
(* x16dbg.commands.breakpoints and .watchpoints send, the tables in the    *)
(* emulator that they change, the rows it lists and the parsers of         *)
(* x16dbg.models that read them.                                           *)
(*                                                                         *)
(* The tables are external, modelled from the docstrings of these modules, *)
(* docs/api and tests/test_breakpoints.py, test_watchpoints.py.  A line    *)
(* may always be refused, and a refused line changes nothing.  The count   *)
(* of hits is left out.                                                    *)
(***************************************************************************)
EXTENDS Integers, Sequences, SequencesExt, FiniteSets

CONSTANTS
    Location,    \* a bank and an address, of a breakpoint
    Banked,      \* the addresses of the $A000-$FFFF window
    Watch,       \* what a watchpoint watches: an access, a bank, an address or a range
    Condition,   \* if-clauses as their words, <<>> for none
    MaxBreakpoints, MaxWatchpoints,  \* sizes of the emulator's tables (16 in the program)
    KeepsMute    \* whether arming a muted breakpoint again leaves it muted

\* A listing marks a muted point by the word "off" after the condition, so the text
\* of a condition must not end in it.
ASSUME PointsAssumption ==
    /\ \A at \in Location : Len(at) = 2 /\ at[1] \in Nat
    /\ MaxBreakpoints \in Nat /\ MaxWatchpoints \in Nat \ {0}
    /\ KeepsMute \in BOOLEAN
    /\ \A c \in Condition : c \in Seq(STRING) /\ (c = <<>> \/ Last(c) # "off")

Slot == 0..(MaxWatchpoints - 1)

\* In place of a location, a slot, a watch or a table entry where there is none.
NoLocation == <<>>
AllSlots == -1  \* the argument "*"
BadSlot == -2   \* any other string
NoSlot == -3
NoWatch == "none"

-----------------------------------------------------------------------------
(* The command lines. *)

IfClause(condition) == IF condition = <<>> THEN <<>> ELSE <<"if">> \o condition

Arming == {"set_breakpoint", "set_watchpoint"}
Enabling == {"enable_breakpoint", "enable_watchpoint"}
Disabling == {"disable_breakpoint", "disable_watchpoint"}

\* Mutant of OnOff: the words are swapped.
OffOn(name) == IF name \in Enabling THEN "off" ELSE "on"

OnOff(name) == IF name \in Enabling THEN "on" ELSE "off"

\* The words of the line after the location or the slot.
Words(job) ==
    CASE job.name \in Arming -> IfClause(job.condition)
      [] job.name \in Enabling \cup Disabling -> <<OnOff(job.name)>>
      [] job.name = "clear_all_breakpoints" \/ job.slot = AllSlots -> <<"*">>
      [] OTHER -> <<>>

LineOf(job) == [cmd |-> job.cmd, at |-> job.at, slot |-> job.slot, watch |-> job.watch,
                file |-> job.file, words |-> Words(job)]

-----------------------------------------------------------------------------
(* The tables (external). *)

\* A breakpoint is where it is, whatever the bank, unless it is in the window.
Place(at) == IF at[2] \in Banked THEN at ELSE <<0, at[2]>>

Armed(bps, at, condition) ==
    LET place == Place(at)
    IN  IF \E i \in DOMAIN bps : bps[i].at = place
        THEN [i \in DOMAIN bps |->
                IF bps[i].at = place
                THEN [bps[i] EXCEPT !.condition = condition,
                                    !.flag = IF KeepsMute THEN @ ELSE "on"]
                ELSE bps[i]]
        ELSE Append(bps, [at |-> place, condition |-> condition, flag |-> "on"])

Cleared(bps, at) ==
    LET i == SelectInSeq(bps, LAMBDA bp : bp.at = Place(at))
    IN  IF i = 0 THEN bps ELSE RemoveAt(bps, i)

Flagged(bps, at, flag) ==
    [i \in DOMAIN bps |->
        IF bps[i].at = Place(at) THEN [bps[i] EXCEPT !.flag = flag] ELSE bps[i]]

NoWatchpoint == [watch |-> NoWatch, condition |-> <<>>, flag |-> "on"]
Watchpoint(watch, condition) == [watch |-> watch, condition |-> condition, flag |-> "on"]
ArmedSlots(wps) == {k \in Slot : wps[k] # NoWatchpoint}

EmptyTable == [bps |-> <<>>, wps |-> [k \in Slot |-> NoWatchpoint]]

OffMark(flag) == IF flag = "off" THEN <<"off">> ELSE <<>>

\* lbp prints the address and the program bank, not the bank it was armed with.
BpRow(bp) == [type |-> "bp", addr |-> bp.at[2],
              words |-> IfClause(bp.condition) \o OffMark(bp.flag)]

WpRow(k, wp) == [type |-> "wp", id |-> k, watch |-> wp.watch,
                 words |-> IfClause(wp.condition) \o OffMark(wp.flag)]

BpRows(bps) == [i \in DOMAIN bps |-> BpRow(bps[i])]
\* The armed slots in their order.
Ranked(wps) ==
    LET armed == ArmedSlots(wps)
        Rank(k) == Cardinality({j \in armed : j <= k})
    IN  [i \in 1..Cardinality(armed) |-> CHOOSE k \in armed : Rank(k) = i]

WpRows(wps) ==
    LET ids == Ranked(wps)
    IN  [i \in DOMAIN ids |-> WpRow(ids[i], wps[ids[i]])]

Done(table, data) == [terminator |-> "RDY", data |-> data, table |-> table]
Refusal(table) == [terminator |-> "ERR", data |-> <<>>, table |-> table]

Clause(words) == IF words = <<>> THEN <<>> ELSE Tail(words)

\* What the emulator may do when it obeys a line: nothing to choose from where it
\* must refuse (no such point, a full table).
Effects(table, line) ==
    LET bps == table.bps
        wps == table.wps
        there == line.at # NoLocation /\ \E i \in DOMAIN bps : bps[i].at = Place(line.at)
        WithBps(b) == {Done([table EXCEPT !.bps = b], <<>>)}
        WithWps(w) == {Done([table EXCEPT !.wps = w], <<>>)}
    IN  CASE line.cmd = "sbp" ->
               IF there \/ Len(bps) < MaxBreakpoints
               THEN WithBps(Armed(bps, line.at, Clause(line.words))) ELSE {}
          [] line.cmd = "cbp" ->
               IF line.words = <<"*">> THEN WithBps(<<>>)
               ELSE IF there THEN WithBps(Cleared(bps, line.at)) ELSE {}
          [] line.cmd = "bp" ->
               IF there THEN WithBps(Flagged(bps, line.at, line.words[1])) ELSE {}
          [] line.cmd = "lbp" -> {Done(table, BpRows(bps))}
          [] line.cmd = "swp" ->
               {Done([table EXCEPT !.wps[k] = Watchpoint(line.watch, Clause(line.words))],
                     <<[type |-> "echo", id |-> k]>>) : k \in Slot \ ArmedSlots(wps)}
          [] line.cmd = "cwp" ->
               IF line.words = <<"*">> THEN WithWps(EmptyTable.wps)
               ELSE IF line.slot \in ArmedSlots(wps)
               THEN WithWps([wps EXCEPT ![line.slot] = NoWatchpoint]) ELSE {}
          [] line.cmd = "wp" ->
               IF line.slot \in ArmedSlots(wps)
               THEN WithWps([wps EXCEPT ![line.slot].flag = line.words[1]]) ELSE {}
          [] line.cmd = "lwp" -> {Done(table, WpRows(wps))}
          [] OTHER -> {}

-----------------------------------------------------------------------------
(* The parsers of models.py. *)

\* Mutant of Peeled: the mark is left where it is, and taken for a part of the clause.
PeeledOfPlainRows(words) ==
    IF words = <<"off">> THEN [words |-> <<>>, flag |-> "off"]
                         ELSE [words |-> words, flag |-> "on"]

\* The words of a row without a final "off", and the flag that stood for.
Peeled(words) ==
    IF words # <<>> /\ Last(words) = "off" THEN [words |-> Front(words), flag |-> "off"]
                                            ELSE [words |-> words, flag |-> "on"]

\* Breakpoint.parse and Watchpoint.parse.
ParseBp(row) ==
    LET rest == Peeled(row.words)
    IN  [type |-> "breakpoint", addr |-> row.addr, flag |-> rest.flag,
         condition |-> Clause(rest.words)]

ParseWp(row) ==
    LET rest == Peeled(row.words)
    IN  [type |-> "watchpoint", id |-> row.id, watch |-> row.watch, flag |-> rest.flag,
         condition |-> Clause(rest.words)]
=============================================================================
