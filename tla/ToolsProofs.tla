----------------------------- MODULE ToolsProofs -----------------------------
(***************************************************************************)
(* Proofs about Tools: the replies of a session, whatever the other        *)
(* sessions do; what a caller knows of the tables; the temporary files.    *)
(***************************************************************************)
EXTENDS Tools, FiniteSetTheorems, WellFoundedInduction, TLAPS

-----------------------------------------------------------------------------
(* Sequences, of whatever they are. *)

IsSeq(s) == \E U : s \in Seq(U)

LEMMA SeqFacts ==
    ASSUME NEW s, IsSeq(s)
    PROVE  /\ Len(s) \in Nat /\ DOMAIN s = 1..Len(s)
           /\ s = <<>> <=> Len(s) = 0
<1>1. PICK U : s \in Seq(U)
  BY DEF IsSeq
<1> QED
  BY <1>1

LEMMA EmptyFacts == IsSeq(<<>>) /\ Len(<<>>) = 0 /\ DOMAIN <<>> = {}
<1>1. <<>> \in Seq({})
  OBVIOUS
<1> QED
  BY <1>1 DEF IsSeq

LEMMA OneFacts ==
    ASSUME NEW x
    PROVE  IsSeq(<<x>>) /\ Len(<<x>>) = 1 /\ DOMAIN <<x>> = {1} /\ <<x>>[1] = x /\ <<x>> # <<>>
<1>1. <<x>> \in Seq({x})
  OBVIOUS
<1>2. IsSeq(<<x>>)
  BY <1>1 DEF IsSeq
<1> QED
  BY <1>2

LEMMA AppendFacts ==
    ASSUME NEW s, IsSeq(s), NEW x
    PROVE  /\ IsSeq(Append(s, x)) /\ Len(Append(s, x)) = Len(s) + 1 /\ Append(s, x) # <<>>
           /\ \A i \in DOMAIN s : i \in DOMAIN Append(s, x) /\ Append(s, x)[i] = s[i]
           /\ \A i \in DOMAIN Append(s, x) :
                  i \in DOMAIN s \/ (i = Len(s) + 1 /\ Append(s, x)[i] = x)
<1>1. PICK U : s \in Seq(U)
  BY DEF IsSeq
<1> DEFINE V == U \cup {x}
<1>2. s \in Seq(V) /\ x \in V
  BY <1>1
<1> HIDE DEF V
<1>3. Append(s, x) \in Seq(V) /\ Len(Append(s, x)) = Len(s) + 1 /\ Len(s) \in Nat
  BY <1>2
<1>4. IsSeq(Append(s, x))
  BY <1>3 DEF IsSeq
<1>5. \A i \in 1..Len(s) : Append(s, x)[i] = s[i]
  BY <1>2
<1>6. Append(s, x)[Len(s) + 1] = x
  BY <1>2
<1>7. DOMAIN s = 1..Len(s) /\ DOMAIN Append(s, x) = 1..(Len(s) + 1)
  BY <1>2, <1>3
<1>8. Append(s, x) # <<>>
  BY <1>3
<1> QED
  BY <1>3, <1>4, <1>5, <1>6, <1>7, <1>8

LEMMA TailFacts ==
    ASSUME NEW s, IsSeq(s), s # <<>>
    PROVE  /\ IsSeq(Tail(s)) /\ Len(s) > 0 /\ Len(Tail(s)) = Len(s) - 1
           /\ 1 \in DOMAIN s /\ Head(s) = s[1]
           /\ \A i \in DOMAIN Tail(s) : i + 1 \in DOMAIN s /\ Tail(s)[i] = s[i + 1]
<1>1. PICK U : s \in Seq(U)
  BY DEF IsSeq
<1>2. Len(s) \in Nat /\ Len(s) > 0 /\ DOMAIN s = 1..Len(s)
  BY <1>1
<1>3. Tail(s) \in Seq(U) /\ Len(Tail(s)) = Len(s) - 1 /\ Head(s) = s[1]
  BY <1>1, <1>2
<1>4. DOMAIN Tail(s) = 1..(Len(s) - 1)
  BY <1>2, <1>3
<1>5. \A i \in 1..(Len(s) - 1) : Tail(s)[i] = s[i + 1]
  BY <1>1, <1>2
<1>6. IsSeq(Tail(s))
  BY <1>3 DEF IsSeq
<1> QED
  BY <1>2, <1>3, <1>4, <1>5, <1>6

\* What is made of the elements of a sequence one by one is a sequence of that length.
LEMMA MapFacts ==
    ASSUME NEW s, IsSeq(s), NEW f, DOMAIN f = DOMAIN s, f = [i \in DOMAIN s |-> f[i]]
    PROVE  IsSeq(f) /\ Len(f) = Len(s)
<1>1. Len(s) \in Nat /\ DOMAIN s = 1..Len(s)
  BY SeqFacts
<1> DEFINE U == {f[i] : i \in DOMAIN s}
           n == Len(s)
<1>2. \A i \in 1..n : f[i] \in U
  BY <1>1
<1>3. f = [i \in 1..n |-> f[i]] /\ n \in Nat
  BY <1>1
<1> HIDE DEF U, n
<1>4. f \in Seq(U) /\ Len(f) = n
  BY <1>2, <1>3
<1> QED
  BY <1>4 DEF IsSeq, n

LEMMA RemoveFacts ==
    ASSUME NEW s, IsSeq(s), NEW i \in DOMAIN s
    PROVE  IsSeq(RemoveAt(s, i)) /\ Len(RemoveAt(s, i)) = Len(s) - 1
<1>1. PICK U : s \in Seq(U)
  BY DEF IsSeq
<1>2. Len(s) \in Nat /\ i \in 1..Len(s)
  BY <1>1
<1>3. /\ SubSeq(s, 1, i - 1) \in Seq(U) /\ Len(SubSeq(s, 1, i - 1)) = i - 1
      /\ SubSeq(s, i + 1, Len(s)) \in Seq(U) /\ Len(SubSeq(s, i + 1, Len(s))) = Len(s) - i
  BY <1>1, <1>2
<1>4. RemoveAt(s, i) \in Seq(U) /\ Len(RemoveAt(s, i)) = (i - 1) + (Len(s) - i)
  BY <1>3 DEF RemoveAt
<1> QED
  BY <1>2, <1>4 DEF IsSeq

LEMMA MinFacts ==
    ASSUME NEW numbers \in SUBSET Nat, numbers # {}
    PROVE  Min(numbers) \in numbers /\ \A j \in numbers : Min(numbers) <= j
<1> DEFINE Less == {ss \in Nat \X Nat : ss[1] < ss[2]}
<1>1. IsWellFoundedOn(Less, Nat)
  BY NatLessThanWellFounded, Zenon DEF OpToRel
<1>2. \A i, j \in Nat : <<j, i>> \in Less <=> j < i
  OBVIOUS
<1> HIDE DEF Less
<1>3. PICK i \in numbers : \A j \in numbers : <<j, i>> \notin Less
  BY <1>1, WFMin
<1>4. \A j \in numbers : i \in Nat /\ j \in Nat /\ ~(j < i)
  BY <1>2, <1>3, Zenon
<1>5. \A j \in numbers : i =< j
  BY <1>4
<1> QED
  BY <1>3, <1>5 DEF Min

-----------------------------------------------------------------------------
(* The tables. *)

\* The flag and the condition of a point are such as a listing can tell.
GoodPoint(point) == point.flag \in {"on", "off"} /\ point.condition \in Condition \cup {<<>>}

GoodTable(table) ==
    /\ table = [bps |-> table.bps, wps |-> table.wps]
    /\ IsSeq(table.bps) /\ Len(table.bps) <= MaxBreakpoints
    /\ table.wps = [k \in Slot |-> table.wps[k]]

LEMMA EmptyTableGood == GoodTable(EmptyTable)
BY EmptyFacts, PointsAssumption DEF GoodTable, EmptyTable

LEMMA ClearedFacts ==
    ASSUME NEW bps, IsSeq(bps), NEW at
    PROVE  /\ IsSeq(Cleared(bps, at)) /\ Len(Cleared(bps, at)) <= Len(bps)
<1> DEFINE I == {i \in 1..Len(bps) : bps[i].at = Place(at)}
           i == IF I # {} THEN Min(I) ELSE 0
<1>1. Cleared(bps, at) = IF i = 0 THEN bps ELSE RemoveAt(bps, i)
  BY DEF Cleared, SelectInSeq
<1>2. Len(bps) \in Nat /\ DOMAIN bps = 1..Len(bps)
  BY SeqFacts
<1>3. I \in SUBSET Nat
  OBVIOUS
<1>4. i = 0 \/ i \in DOMAIN bps
  BY <1>2, <1>3, MinFacts
<1> HIDE DEF i
<1> QED
  BY <1>1, <1>2, <1>4, RemoveFacts

LEMMA FlaggedFacts ==
    ASSUME NEW bps, IsSeq(bps), NEW at, NEW flag
    PROVE  IsSeq(Flagged(bps, at, flag)) /\ Len(Flagged(bps, at, flag)) = Len(bps)
BY MapFacts DEF Flagged

LEMMA ArmedFacts ==
    ASSUME NEW bps, IsSeq(bps), NEW at, NEW condition
    PROVE  /\ IsSeq(Armed(bps, at, condition))
           /\ Len(Armed(bps, at, condition))
                  = IF \E i \in DOMAIN bps : bps[i].at = Place(at) THEN Len(bps) ELSE Len(bps) + 1
<1>1. CASE \E i \in DOMAIN bps : bps[i].at = Place(at)
  BY <1>1, MapFacts DEF Armed
<1>2. CASE ~\E i \in DOMAIN bps : bps[i].at = Place(at)
  BY <1>2, AppendFacts DEF Armed
<1> QED
  BY <1>1, <1>2

\* Whatever line an emulator obeys, its tables keep their sizes.
LEMMA EffectsGood ==
    ASSUME NEW table, GoodTable(table), NEW line, NEW o \in Effects(table, line)
    PROVE  GoodTable(o.table) /\ o.terminator = "RDY"
<1> DEFINE bps == table.bps
           wps == table.wps
           there == line.at # NoLocation /\ \E i \in DOMAIN bps : bps[i].at = Place(line.at)
<1>1. \A b : IsSeq(b) /\ Len(b) <= MaxBreakpoints => GoodTable([table EXCEPT !.bps = b])
  BY DEF GoodTable
<1>2. \A w : w = [k \in Slot |-> w[k]] => GoodTable([table EXCEPT !.wps = w])
  BY DEF GoodTable
<1>3. IsSeq(bps) /\ Len(bps) \in Nat /\ Len(bps) <= MaxBreakpoints /\ MaxBreakpoints \in Nat
  BY SeqFacts, PointsAssumption DEF GoodTable
<1>4. wps = [k \in Slot |-> wps[k]]
  BY DEF GoodTable
<1>5. \A t, d : Done(t, d).table = t /\ Done(t, d).terminator = "RDY"
  BY DEF Done
<1> HIDE DEF bps, wps
<1>a. CASE line.cmd = "sbp"
  <2>1. there \/ Len(bps) < MaxBreakpoints
    BY <1>a DEF Effects, bps, wps
  <2>2. o = Done([table EXCEPT !.bps = Armed(bps, line.at, Clause(line.words))], <<>>)
    BY <1>a, <2>1 DEF Effects, bps, wps
  <2>3. /\ IsSeq(Armed(bps, line.at, Clause(line.words)))
        /\ Len(Armed(bps, line.at, Clause(line.words))) <= MaxBreakpoints
    BY <1>3, <2>1, ArmedFacts
  <2> QED
    BY <1>1, <1>5, <2>2, <2>3
<1>b. CASE line.cmd = "cbp"
  <2>1. \/ o = Done([table EXCEPT !.bps = <<>>], <<>>)
        \/ o = Done([table EXCEPT !.bps = Cleared(bps, line.at)], <<>>)
    BY <1>b DEF Effects, bps, wps
  <2>2. /\ IsSeq(Cleared(bps, line.at)) /\ Len(Cleared(bps, line.at)) <= Len(bps)
        /\ IsSeq(<<>>) /\ Len(<<>>) = 0 /\ Len(Cleared(bps, line.at)) \in Nat
    BY <1>3, ClearedFacts, EmptyFacts, SeqFacts
  <2>3. Len(Cleared(bps, line.at)) <= MaxBreakpoints /\ Len(<<>>) <= MaxBreakpoints
    BY <1>3, <2>2
  <2> QED
    BY <1>1, <1>5, <2>1, <2>2, <2>3
<1>c. CASE line.cmd = "bp"
  <2>1. o = Done([table EXCEPT !.bps = Flagged(bps, line.at, line.words[1])], <<>>)
    BY <1>c DEF Effects, bps, wps
  <2> QED
    BY <1>1, <1>3, <1>5, <2>1, FlaggedFacts
<1>d. CASE line.cmd \in {"lbp", "lwp"}
  <2>1. o.table = table /\ o.terminator = "RDY"
    BY <1>5, <1>d DEF Effects
  <2> QED
    BY <2>1
<1>e. CASE line.cmd = "swp"
  <2>1. PICK k \in Slot :
            o = Done([table EXCEPT !.wps[k] = Watchpoint(line.watch, Clause(line.words))],
                     <<[type |-> "echo", id |-> k]>>)
    BY <1>e DEF Effects
  <2>2. [table EXCEPT !.wps[k] = Watchpoint(line.watch, Clause(line.words))]
            = [table EXCEPT !.wps = [wps EXCEPT ![k] = Watchpoint(line.watch, Clause(line.words))]]
    BY DEF wps
  <2> QED
    BY <1>2, <1>4, <1>5, <2>1, <2>2
<1>f. CASE line.cmd = "cwp"
  <2>1. \/ o = Done([table EXCEPT !.wps = EmptyTable.wps], <<>>)
        \/ o = Done([table EXCEPT !.wps = [wps EXCEPT ![line.slot] = NoWatchpoint]], <<>>)
    BY <1>f DEF Effects, bps, wps
  <2>2. EmptyTable.wps = [k \in Slot |-> EmptyTable.wps[k]]
    BY DEF EmptyTable
  <2> QED
    BY <1>2, <1>4, <1>5, <2>1, <2>2
<1>g. CASE line.cmd = "wp"
  <2>1. o = Done([table EXCEPT !.wps = [wps EXCEPT ![line.slot].flag = line.words[1]]], <<>>)
    BY <1>g DEF Effects, bps, wps
  <2> QED
    BY <1>2, <1>4, <1>5, <2>1
<1>h. line.cmd \in {"sbp", "cbp", "bp", "lbp", "swp", "cwp", "wp", "lwp"}
  BY DEF Effects
<1> QED
  BY <1>a, <1>b, <1>c, <1>d, <1>e, <1>f, <1>g, <1>h

-----------------------------------------------------------------------------
(* The tools. *)

\* No two classes have a tool of one name, so that each tool is the method of its class.
LEMMA ClassDomains ==
    /\ DOMAIN ExecutionCommands =
          {"continue", "break", "step", "step_over", "reset", "run_until"}
    /\ DOMAIN BreakpointCommands =
          {"set_breakpoint", "clear_breakpoint",
           "clear_all_breakpoints", "enable_breakpoint",
           "disable_breakpoint", "list_breakpoints"}
    /\ DOMAIN WatchpointCommands =
          {"set_watchpoint", "clear_watchpoint", "enable_watchpoint",
           "disable_watchpoint", "list_watchpoints"}
    /\ DOMAIN RegisterCommands =
          {"read_registers", "set_register"}
    /\ DOMAIN MemoryCommands =
          {"read_memory", "write_memory", "fill", "find"}
    /\ DOMAIN VramCommands =
          {"read_vram", "write_vram"}
    /\ DOMAIN DisasmCommands =
          {"disassemble"}
    /\ DOMAIN InspectionCommands =
          {"clocks", "stack", "zero_page_registers", "vera_state"}
    /\ DOMAIN CaptureCommands =
          {"screenshot"}
    /\ DOMAIN SessionCommands =
          {"mode", "state", "set_headers", "set_header_line"}
BY DEF ExecutionCommands, BreakpointCommands, WatchpointCommands, RegisterCommands, MemoryCommands,
       VramCommands, DisasmCommands, InspectionCommands, CaptureCommands, SessionCommands

LEMMA ClassesApart ==
    ASSUME NEW class \in Classes, NEW other \in Classes,
           NEW name \in DOMAIN class, name \in DOMAIN other
    PROVE  class = other
<1>1. CASE class = ExecutionCommands
  BY <1>1, ClassDomains DEF Classes
<1>2. CASE class = BreakpointCommands
  BY <1>2, ClassDomains DEF Classes
<1>3. CASE class = WatchpointCommands
  BY <1>3, ClassDomains DEF Classes
<1>4. CASE class = RegisterCommands
  BY <1>4, ClassDomains DEF Classes
<1>5. CASE class = MemoryCommands
  BY <1>5, ClassDomains DEF Classes
<1>6. CASE class = VramCommands
  BY <1>6, ClassDomains DEF Classes
<1>7. CASE class = DisasmCommands
  BY <1>7, ClassDomains DEF Classes
<1>8. CASE class = InspectionCommands
  BY <1>8, ClassDomains DEF Classes
<1>9. CASE class = CaptureCommands
  BY <1>9, ClassDomains DEF Classes
<1>10. CASE class = SessionCommands
  BY <1>10, ClassDomains DEF Classes
<1> QED
  BY <1>1, <1>2, <1>3, <1>4, <1>5, <1>6, <1>7, <1>8, <1>9, <1>10 DEF Classes

LEMMA MethodOf ==
    ASSUME NEW class \in Classes, NEW name \in DOMAIN class
    PROVE  name \in DOMAIN Methods /\ Methods[name] = class[name]
<1>1. \A c \in Classes : name \in DOMAIN c => c = class
  BY ClassesApart
<1>2. (CHOOSE c \in Classes : name \in DOMAIN c) = class
  BY <1>1, Zenon
<1>3. name \in UNION {DOMAIN c : c \in Classes}
  OBVIOUS
<1> QED
  BY <1>2, <1>3 DEF Methods

LEMMA ClassNamed ==
    ASSUME NEW name \in DOMAIN Methods
    PROVE  \E class \in Classes : name \in DOMAIN class /\ Methods[name] = class[name]
<1>1. PICK class \in Classes : name \in DOMAIN class
  BY DEF Methods
<1> QED
  BY <1>1, MethodOf


LEMMA PointMethods ==
    /\ Methods["set_breakpoint"] = Method("sbp", "none")
    /\ Methods["clear_breakpoint"] = Method("cbp", "none")
    /\ Methods["clear_all_breakpoints"] = Method("cbp", "none")
    /\ Methods["enable_breakpoint"] = Method("bp", "none")
    /\ Methods["disable_breakpoint"] = Method("bp", "none")
    /\ Methods["list_breakpoints"] = Method("lbp", "breakpoints")
    /\ Methods["set_watchpoint"] = Method("swp", "echo")
    /\ Methods["clear_watchpoint"] = Method("cwp", "none")
    /\ Methods["enable_watchpoint"] = Method("wp", "none")
    /\ Methods["disable_watchpoint"] = Method("wp", "none")
    /\ Methods["list_watchpoints"] = Method("lwp", "watchpoints")
    /\ PointTools \subseteq DOMAIN Methods
    /\ PointCommands = {"sbp", "cbp", "bp", "lbp", "swp", "cwp", "wp", "lwp"}
<1>1. BreakpointCommands \in Classes /\ WatchpointCommands \in Classes
  BY DEF Classes
<1>2. \A name \in DOMAIN BreakpointCommands :
          name \in DOMAIN Methods /\ Methods[name] = BreakpointCommands[name]
  BY <1>1, MethodOf
<1>3. \A name \in DOMAIN WatchpointCommands :
          name \in DOMAIN Methods /\ Methods[name] = WatchpointCommands[name]
  BY <1>1, MethodOf
<1>4. /\ Methods["set_breakpoint"] = Method("sbp", "none")
      /\ Methods["clear_breakpoint"] = Method("cbp", "none")
      /\ Methods["clear_all_breakpoints"] = Method("cbp", "none")
      /\ Methods["enable_breakpoint"] = Method("bp", "none")
      /\ Methods["disable_breakpoint"] = Method("bp", "none")
      /\ Methods["list_breakpoints"] = Method("lbp", "breakpoints")
  BY <1>2 DEF BreakpointCommands
<1>5. /\ Methods["set_watchpoint"] = Method("swp", "echo")
      /\ Methods["clear_watchpoint"] = Method("cwp", "none")
      /\ Methods["enable_watchpoint"] = Method("wp", "none")
      /\ Methods["disable_watchpoint"] = Method("wp", "none")
      /\ Methods["list_watchpoints"] = Method("lwp", "watchpoints")
  BY <1>3 DEF WatchpointCommands
<1>6. PointTools \subseteq DOMAIN Methods
  BY <1>2, <1>3 DEF PointTools
<1>7. PointTools = {"set_breakpoint", "clear_breakpoint", "clear_all_breakpoints",
                    "enable_breakpoint", "disable_breakpoint", "list_breakpoints",
                    "set_watchpoint", "clear_watchpoint", "enable_watchpoint",
                    "disable_watchpoint", "list_watchpoints"}
  BY ClassDomains DEF PointTools
<1>8. \A cmd, data : Method(cmd, data).cmd = cmd
  BY DEF Method
<1>9. PointCommands \subseteq {"sbp", "cbp", "bp", "lbp", "swp", "cwp", "wp", "lwp"}
  BY <1>4, <1>5, <1>7, <1>8 DEF PointCommands
<1>10. {"sbp", "cbp", "bp", "lbp", "swp", "cwp", "wp", "lwp"} \subseteq PointCommands
  <2>1. \A name \in PointTools : Methods[name].cmd \in PointCommands
    BY DEF PointCommands
  <2> QED
    BY <1>4, <1>5, <1>7, <1>8, <2>1
<1> QED
  BY <1>4, <1>5, <1>6, <1>9, <1>10

\* The tools that leave the tables alone, by what they send and do with the reply.
LEMMA OtherMethods ==
    ASSUME NEW name \in DOMAIN Methods, name \notin PointTools
    PROVE  /\ Methods[name].cmd \notin PointCommands \cup {"path", "echo"}
           /\ Methods[name].data \in {"first", "dump", "rows", "lines", "none", "file"}
           /\ Methods[name].cmd = "scr" => name = "screenshot"
           /\ name \in Resuming \cup {"write_memory"} => Methods[name].data = "none"
           /\ name = "screenshot" => Methods[name] = Method("scr", "file")
<1>1. PICK class \in Classes : name \in DOMAIN class /\ Methods[name] = class[name]
  BY ClassNamed
<1>2. class # BreakpointCommands /\ class # WatchpointCommands
  BY <1>1 DEF PointTools
<1>3. PointCommands = {"sbp", "cbp", "bp", "lbp", "swp", "cwp", "wp", "lwp"}
  BY PointMethods
<1>4. CASE class = ExecutionCommands
  BY <1>1, <1>3, <1>4 DEF ExecutionCommands, Method, Resuming
<1>5. CASE class = RegisterCommands
  BY <1>1, <1>3, <1>5 DEF RegisterCommands, Method, Resuming
<1>6. CASE class = MemoryCommands
  BY <1>1, <1>3, <1>6 DEF MemoryCommands, Method, Resuming
<1>7. CASE class = VramCommands
  BY <1>1, <1>3, <1>7 DEF VramCommands, Method, Resuming
<1>8. CASE class = DisasmCommands
  BY <1>1, <1>3, <1>8 DEF DisasmCommands, Method, Resuming
<1>9. CASE class = InspectionCommands
  BY <1>1, <1>3, <1>9 DEF InspectionCommands, Method, Resuming
<1>10. CASE class = CaptureCommands
  BY <1>1, <1>3, <1>10 DEF CaptureCommands, Method, Resuming
<1>11. CASE class = SessionCommands
  BY <1>1, <1>3, <1>11 DEF SessionCommands, Method, Resuming
<1> QED
  BY <1>2, <1>4, <1>5, <1>6, <1>7, <1>8, <1>9, <1>10, <1>11 DEF Classes

LEMMA NamesOther ==
    /\ Resuming \cup {"write_memory", "screenshot"} \subseteq DOMAIN Methods \ PointTools
    /\ Reads \cup Orders \subseteq DOMAIN Methods \ PointTools
    /\ (Reads \cup Orders) \cap (Resuming \cup {"write_memory", "screenshot"}) = {}
<1>1. {ExecutionCommands, MemoryCommands, CaptureCommands} \subseteq Classes
  BY DEF Classes
<1>2. Resuming \cup {"write_memory", "screenshot"} \subseteq DOMAIN Methods
  BY <1>1, MethodOf, ClassDomains DEF Resuming
<1>3. (Resuming \cup {"write_memory", "screenshot"}) \cap PointTools = {}
  BY ClassDomains DEF Resuming, PointTools
<1>4. \A name \in Resuming \cup {"write_memory", "screenshot"} :
          Methods[name].data \in {"none", "file"}
  BY <1>2, <1>3, OtherMethods DEF Method
<1>5. \A name \in PointTools : Methods[name].data \in {"none", "breakpoints", "echo", "watchpoints"}
  <2>1. PointTools = {"set_breakpoint", "clear_breakpoint", "clear_all_breakpoints",
                    "enable_breakpoint", "disable_breakpoint", "list_breakpoints",
                    "set_watchpoint", "clear_watchpoint", "enable_watchpoint",
                    "disable_watchpoint", "list_watchpoints"}
    BY ClassDomains DEF PointTools
  <2> QED
    BY <2>1, PointMethods DEF Method
<1>6. Reads \cap PointTools = {} /\ Reads \cap (Resuming \cup {"write_memory", "screenshot"}) = {}
  BY <1>4, <1>5 DEF Reads
<1> QED
  BY <1>2, <1>3, <1>6 DEF Reads, Orders

LEMMA ReadCommandsApart ==
    ReadCommands \cap (PointCommands \cup {"scr", "path", "echo"}) = {}
<1>1. ASSUME NEW name \in Reads
      PROVE  Methods[name].cmd \notin PointCommands \cup {"scr", "path", "echo"}
  BY <1>1, NamesOther, OtherMethods
<1> QED
  BY <1>1 DEF ReadCommands

-----------------------------------------------------------------------------
(* Types, and the tool in progress. *)

Busy == {"idle", "loop", "resumeLoop", "resumeWait"}

IsClient(c) ==
    /\ c = [sent |-> c.sent, handed |-> c.handed, busy |-> c.busy, outcome |-> c.outcome]
    /\ c.sent \in Nat /\ c.handed \in Nat /\ c.busy \in Busy

GoodEmu(e) ==
    /\ e = [process |-> e.process, table |-> e.table, pending |-> e.pending,
            replies |-> e.replies]
    /\ e.process \in {"up", "gone"} /\ GoodTable(e.table)
    /\ IsSeq(e.pending) /\ IsSeq(e.replies)
    /\ e.process = "gone" => e.pending = <<>>

PlainNames ==
    Reads \cup Orders \cup Resuming
    \cup {"write_memory", "clear_all_breakpoints", "list_breakpoints", "list_watchpoints"}

\* What a tool may ask for.
IsJob(job) ==
    \/ \E name \in PlainNames : job = Job(name)
    \/ \E n \in Nat \ {0} : job = [Job("screenshot") EXCEPT !.file = n]
    \/ \E at \in Location, condition \in Condition :
           job = [Job("set_breakpoint") EXCEPT !.at = at, !.condition = condition]
    \/ \E name \in {"clear_breakpoint", "enable_breakpoint", "disable_breakpoint"},
          at \in Location : job = [Job(name) EXCEPT !.at = at]
    \/ \E watch \in Watch, condition \in Condition :
           job = [Job("set_watchpoint") EXCEPT !.watch = watch, !.condition = condition]
    \/ \E name \in {"enable_watchpoint", "disable_watchpoint"}, slot \in Slot :
           job = [Job(name) EXCEPT !.slot = slot]
    \/ \E slot \in Slot \cup {AllSlots} : job = [Job("clear_watchpoint") EXCEPT !.slot = slot]
    \/ \E raw \in ReadCommands : job = [Job("state") EXCEPT !.name = "x16db", !.cmd = raw]

Calling(s) == ~Idle /\ tool.session = s

Waiting(s) == Calling(s) /\ tool.stage = "reply"

IsTool ==
    /\ tool = [session |-> tool.session, job |-> tool.job, stage |-> tool.stage,
               file |-> tool.file, left |-> tool.left]
    /\ tool.session \in SessionId /\ session[tool.session] = "open"
    /\ tool.stage \in {"reply", "line", "file"} /\ tool.left \in Nat
    /\ IsJob(tool.job)
    /\ tool.stage = "file" => tool.job.name = "screenshot"
    /\ tool.stage = "line" \/ tool.left > 0 => tool.job.name = "write_memory"
    /\ tool.stage = "line" => tool.left > 0

Shape ==
    /\ session \in [SessionId -> {"new", "open", "closed"}]
    /\ client = [s \in SessionId |-> client[s]] /\ \A s \in SessionId : IsClient(client[s])
    /\ emu = [s \in SessionId |-> emu[s]] /\ \A s \in SessionId : GoodEmu(emu[s])
    /\ view = [s \in SessionId |-> view[s]]
    /\ lost \in [SessionId -> {"never", "before", "now"}]
    /\ calls \in 0..MaxCalls

\* A call of a client is in progress exactly while its tool waits for a reply, and it is
\* the call of that tool.
BusyWith(s) ==
    /\ client[s].busy # "idle" <=> Waiting(s)
    /\ client[s].busy \in {"resumeLoop", "resumeWait"} => tool.job.name \in Resuming
    /\ client[s].busy = "loop" => tool.job.name \notin Resuming

ToolInv == (~Idle => IsTool) /\ \A s \in SessionId : BusyWith(s)

-----------------------------------------------------------------------------
(* What a step is to the client and the emulator of a session. *)

Over(s, kind, answers, took) ==
    client' = [client EXCEPT ![s] = Handed(@, kind, answers, took)]

Sends(s) ==
    /\ client[s].busy = "idle" /\ emu[s].process = "up"
    /\ \E busy \in {"loop", "resumeLoop"} :
           client' = [client EXCEPT ![s].sent = @ + 1, ![s].busy = busy]
    /\ \E line : emu' = [emu EXCEPT ![s].pending = Append(@, line)]
    /\ UNCHANGED lost

\* The call, or the write of its line, is over without a reply.
Leaves(s) ==
    /\ \/ client[s].busy = "idle" /\ UNCHANGED lost
          /\ Over(s, "BrokenPipeError", 0, 0)
       \/ client[s].busy # "idle" /\ lost' = [lost EXCEPT ![s] = "now"]
          /\ \E kind \in {"TimeoutError", "EOFError"} : Over(s, kind, 0, 0)
       \/ client[s].busy = "resumeWait" /\ UNCHANGED lost
          /\ Over(s, "events", 0, 0)
    /\ UNCHANGED emu

Takes(s) ==
    /\ TakeReply(s)
    /\ LET answers == Head(emu[s].replies).answers
       IN  \/ client[s].busy \in {"loop", "resumeLoop"} /\ Over(s, "X16dbgError", 0, 1)
           \/ client[s].busy = "loop" /\ Over(s, "reply", answers, 1)
           \/ client[s].busy \in {"resumeLoop", "resumeWait"} /\ Over(s, "events", answers, 1)
           \/ client[s].busy = "resumeLoop"
              /\ client' = [client EXCEPT ![s].busy = "resumeWait", ![s].handed = @ + 1]
    /\ UNCHANGED lost

Stops(s) == emu' = [emu EXCEPT ![s] = Closed(@)] /\ UNCHANGED <<client, lost>>

Obeys(s) ==
    /\ emu[s].process = "up" /\ emu[s].pending # <<>>
    /\ \E o \in Outcomes(emu[s].table, Head(emu[s].pending)) :
           emu' = [emu EXCEPT
               ![s].table = o.table,
               ![s].pending = Tail(@),
               ![s].replies = Append(@,
                   [answers |-> client[s].sent - Len(emu[s].pending) + 1,
                    terminator |-> o.terminator, data |-> o.data])]
    /\ UNCHANGED <<client, lost>>

ClientStep(s) ==
    \/ Sends(s) \/ Leaves(s) \/ Takes(s) \/ Stops(s) \/ Obeys(s)
    \/ Respawned(s) /\ client[s].busy = "idle"

\* A tool begins with a call of its client, or it raises without one.
Begins(s) ==
    \/ \E job : /\ IsJob(job) /\ (Begin(s, job) \/ BeginFails(s, job))
                /\ job.file = 0 \/ (job.file = calls + 1 /\ job.name = "screenshot")
    \/ UNCHANGED <<session, client, emu, tool, view, lost, files>>

LEMMA StartCases ==
    ASSUME Shape, NEW s, Start(s)
    PROVE  MayCall /\ Begins(s)
<1>1. ASSUME NEW job, IsJob(job), Call(s, job),
             job.file = 0 \/ (job.file = calls + 1 /\ job.name = "screenshot")
      PROVE  MayCall /\ Begins(s)
  BY <1>1 DEF Call, Begins
<1>2. ASSUME NEW name, NEW error, MayCall, NothingSent(s, name, error)
      PROVE  MayCall /\ Begins(s)
  BY <1>2 DEF NothingSent, Begins
<1>3. \A name : Job(name).file = 0
  BY DEF Job
<1>4. ASSUME NEW name \in PlainNames, Call(s, Job(name))
      PROVE  MayCall /\ Begins(s)
  BY <1>1, <1>3, <1>4 DEF IsJob
<1>a. CASE NoSession(s) \/ ProtocolVersion(s)
  BY <1>2, <1>a DEF NoSession, ProtocolVersion
<1>b. CASE Read(s)
  <2>1. ReadTools \subseteq PlainNames
    BY ToolsAssumption DEF PlainNames
  <2> QED
    BY <1>4, <1>b, <2>1 DEF Read
<1>c. CASE Order(s)
  <2>1. OrderTools \subseteq PlainNames
    BY ToolsAssumption DEF PlainNames
  <2> QED
    BY <1>4, <1>c, <2>1 DEF Order
<1>d. CASE Resume(s) \/ WriteMemory(s) \/ AllBreakpoints(s) \/ ListWatchpoints(s)
  BY <1>4, <1>d DEF Resume, WriteMemory, AllBreakpoints, ListWatchpoints, PlainNames
<1>e. CASE Screenshot(s)
  <2> DEFINE job == [Job("screenshot") EXCEPT !.file = calls + 1]
  <2>1. job.file = calls + 1 /\ job.name = "screenshot" /\ calls + 1 \in Nat \ {0}
    BY ToolsAssumption DEF Job, Shape
  <2>2. IsJob(job)
    BY <2>1 DEF IsJob
  <2>3. Call(s, job)
    BY <1>e DEF Screenshot
  <2> HIDE DEF job
  <2> QED
    BY <1>1, <2>1, <2>2, <2>3
<1>f. CASE SetBreakpoint(s)
  <2>1. PICK at \in Location, condition \in Condition :
            Call(s, [Job("set_breakpoint") EXCEPT !.at = at, !.condition = condition])
    BY <1>f DEF SetBreakpoint
  <2> DEFINE job == [Job("set_breakpoint") EXCEPT !.at = at, !.condition = condition]
  <2>2. job.file = 0 /\ IsJob(job) /\ Call(s, job)
    BY <2>1 DEF Job, IsJob
  <2> HIDE DEF job
  <2> QED
    BY <1>1, <2>2
<1>g. CASE OneBreakpoint(s)
  <2>1. PICK name \in {"clear_breakpoint", "enable_breakpoint", "disable_breakpoint"},
             at \in Location : Call(s, [Job(name) EXCEPT !.at = at])
    BY <1>g DEF OneBreakpoint
  <2> DEFINE job == [Job(name) EXCEPT !.at = at]
  <2>2. job.file = 0
    BY DEF Job
  <2>3. IsJob(job) /\ Call(s, job)
    BY <2>1 DEF IsJob
  <2> HIDE DEF job
  <2> QED
    BY <1>1, <2>2, <2>3
<1>h. CASE SetWatchpoint(s)
  <2>1. PICK watch \in Watch, condition \in Condition :
            Call(s, [Job("set_watchpoint") EXCEPT !.watch = watch, !.condition = condition])
    BY <1>h DEF SetWatchpoint
  <2> DEFINE job == [Job("set_watchpoint") EXCEPT !.watch = watch, !.condition = condition]
  <2>2. job.file = 0 /\ IsJob(job) /\ Call(s, job)
    BY <2>1 DEF Job, IsJob
  <2> HIDE DEF job
  <2> QED
    BY <1>1, <2>2
<1>i. CASE ToggleWatchpoint(s)
  <2>1. PICK name \in {"enable_watchpoint", "disable_watchpoint"}, slot \in Slot :
            Call(s, [Job(name) EXCEPT !.slot = slot])
    BY <1>i DEF ToggleWatchpoint
  <2> DEFINE job == [Job(name) EXCEPT !.slot = slot]
  <2>2. job.file = 0
    BY DEF Job
  <2>3. IsJob(job) /\ Call(s, job)
    BY <2>1 DEF IsJob
  <2> HIDE DEF job
  <2> QED
    BY <1>1, <2>2, <2>3
<1>j. CASE ClearWatchpoint(s)
  <2>1. PICK slot \in Slot \cup {AllSlots, BadSlot} :
            IF slot = BadSlot
            THEN /\ MayCall /\ session[s] = "open"
                 /\ NothingSent(s, "clear_watchpoint", "X16dbgError")
            ELSE Call(s, [Job("clear_watchpoint") EXCEPT !.slot = slot])
    BY <1>j DEF ClearWatchpoint
  <2>2. CASE slot = BadSlot
    BY <1>2, <2>1, <2>2
  <2>3. CASE slot # BadSlot
    <3> DEFINE job == [Job("clear_watchpoint") EXCEPT !.slot = slot]
    <3>1. job.file = 0
      BY DEF Job
    <3>2. IsJob(job) /\ Call(s, job)
      BY <2>1, <2>3 DEF IsJob
    <3> HIDE DEF job
    <3> QED
      BY <1>1, <3>1, <3>2
  <2> QED
    BY <2>2, <2>3
<1>k. CASE X16db(s)
  <2>1. PICK raw \in RawLines :
            IF raw \in Enders
            THEN MayCall /\ session[s] = "open" /\ NothingSent(s, "x16db", "ValueError")
            ELSE Call(s, [Job("state") EXCEPT !.name = "x16db", !.cmd = raw])
    BY <1>k DEF X16db
  <2>2. CASE raw \in Enders
    BY <1>2, <2>1, <2>2
  <2>3. CASE raw \notin Enders
    <3> DEFINE job == [Job("state") EXCEPT !.name = "x16db", !.cmd = raw]
    <3>1. job.file = 0
      BY DEF Job
    <3>2. raw \in ReadCommands
      BY <2>3, ToolsAssumption
    <3>3. IsJob(job) /\ Call(s, job)
      BY <2>1, <2>3, <3>2 DEF IsJob
    <3> HIDE DEF job
    <3> QED
      BY <1>1, <3>1, <3>3
  <2> QED
    BY <2>2, <2>3
<1> QED
  BY <1>a, <1>b, <1>c, <1>d, <1>e, <1>f, <1>g, <1>h, <1>i, <1>j, <1>k DEF Start

-----------------------------------------------------------------------------
(* Types are kept. *)

LEMMA OutcomesGood ==
    ASSUME NEW table, GoodTable(table), NEW line, NEW o \in Outcomes(table, line)
    PROVE  /\ GoodTable(o.table) /\ o.terminator \in {"ERR", "RDY"}
           /\ line.cmd \notin PointCommands \/ o.terminator = "ERR" => o.table = table
<1>1. \A data : Done(table, data).table = table /\ Done(table, data).terminator = "RDY"
  BY DEF Done
<1>2. Refusal(table).table = table /\ Refusal(table).terminator = "ERR"
  BY DEF Refusal
<1>3. CASE o = Refusal(table)
  BY <1>2, <1>3
<1>4. CASE o # Refusal(table) /\ line.cmd \in PointCommands
  <2>1. o \in Effects(table, line)
    BY <1>4 DEF Outcomes
  <2> QED
    BY <1>4, <2>1, EffectsGood
<1>5. CASE o # Refusal(table) /\ line.cmd \notin PointCommands
  <2>1. \E data : o = Done(table, data)
    BY <1>5 DEF Outcomes
  <2> QED
    BY <1>1, <2>1
<1> QED
  BY <1>3, <1>4, <1>5

\* A client or an emulator with a field of it changed.
LEMMA ClientRecord ==
    ASSUME NEW c, IsClient(c)
    PROVE  \E n, h \in Nat : \E b, o : c = [sent |-> n, handed |-> h, busy |-> b, outcome |-> o]
BY DEF IsClient

LEMMA ClientEdits ==
    ASSUME NEW c, IsClient(c)
    PROVE  /\ \A busy \in Busy : IsClient([c EXCEPT !.sent = @ + 1, !.busy = busy])
           /\ IsClient([c EXCEPT !.busy = "resumeWait", !.handed = @ + 1])
<1>1. \A n, h \in Nat : \A b \in Busy : \A o :
          IsClient([sent |-> n, handed |-> h, busy |-> b, outcome |-> o])
  BY DEF IsClient
<1>2. PICK n \in Nat, h \in Nat :
          \E b, o : c = [sent |-> n, handed |-> h, busy |-> b, outcome |-> o]
  BY ClientRecord
<1>3. PICK b, o : c = [sent |-> n, handed |-> h, busy |-> b, outcome |-> o]
  BY <1>2
<1>4. "resumeWait" \in Busy /\ n + 1 \in Nat /\ h + 1 \in Nat
  BY DEF Busy
<1>5. ASSUME NEW busy \in Busy, NEW d, d = [c EXCEPT !.sent = @ + 1, !.busy = busy]
      PROVE  IsClient(d)
  <2>1. d = [sent |-> n + 1, handed |-> h, busy |-> busy, outcome |-> o]
    BY <1>3, <1>5
  <2> QED
    BY <1>1, <1>4, <2>1
<1>6. ASSUME NEW d, d = [c EXCEPT !.busy = "resumeWait", !.handed = @ + 1]
      PROVE  IsClient(d)
  <2>1. d = [sent |-> n, handed |-> h + 1, busy |-> "resumeWait", outcome |-> o]
    BY <1>3, <1>6
  <2> QED
    BY <1>1, <1>4, <2>1
<1> QED
  BY <1>5, <1>6

LEMMA HandedFacts ==
    ASSUME NEW c, IsClient(c), NEW kind, NEW answers, NEW took \in {0, 1}
    PROVE  Handed(c, kind, answers, took)
               = [sent |-> c.sent, handed |-> c.handed + took, busy |-> "idle",
                  outcome |-> [kind |-> kind, command |-> c.sent, answers |-> answers,
                               events |-> {}]]
<1>1. PICK n \in Nat, h \in Nat :
          \E b, o : c = [sent |-> n, handed |-> h, busy |-> b, outcome |-> o]
  BY ClientRecord
<1>2. PICK b, o : c = [sent |-> n, handed |-> h, busy |-> b, outcome |-> o]
  BY <1>1
<1>3. c.sent = n /\ c.handed = h
  BY <1>2
<1> DEFINE x == [kind |-> kind, command |-> c.sent, answers |-> answers, events |-> {}]
           d == Handed(c, kind, answers, took)
<1>4. d = [c EXCEPT !.busy = "idle", !.handed = @ + took, !.outcome = x]
  BY Zenon DEF Handed
<1> HIDE DEF d, x
<1>5. d = [sent |-> n, handed |-> h + took, busy |-> "idle", outcome |-> x]
  BY <1>2, <1>4
<1> QED
  BY <1>3, <1>5 DEF d, x

LEMMA RaisedFacts ==
    ASSUME NEW c, IsClient(c), NEW kind
    PROVE  [c EXCEPT !.busy = "idle",
                     !.outcome = [kind |-> kind, command |-> c.sent, answers |-> 0,
                                  events |-> {}]]
               = Handed(c, kind, 0, 0)
<1>1. PICK n \in Nat, h \in Nat :
          \E b, o : c = [sent |-> n, handed |-> h, busy |-> b, outcome |-> o]
  BY ClientRecord
<1>2. PICK b, o : c = [sent |-> n, handed |-> h, busy |-> b, outcome |-> o]
  BY <1>1
<1>3. c.sent = n /\ c.handed = h /\ h + 0 = h
  BY <1>2
<1> DEFINE x == [kind |-> kind, command |-> c.sent, answers |-> 0, events |-> {}]
           d == [c EXCEPT !.busy = "idle", !.outcome = x]
<1> HIDE DEF x
<1>4. ASSUME NEW e, e = [c EXCEPT !.busy = "idle", !.outcome = x]
      PROVE  e = [sent |-> n, handed |-> h, busy |-> "idle", outcome |-> x]
  BY <1>2, <1>4
<1>5. d = [sent |-> n, handed |-> h, busy |-> "idle", outcome |-> x]
  BY <1>4
<1> HIDE DEF d
<1>6. Handed(c, kind, 0, 0)
          = [sent |-> n, handed |-> h, busy |-> "idle", outcome |-> x]
  <2>1. Handed(c, kind, 0, 0)
            = [sent |-> c.sent, handed |-> c.handed + 0, busy |-> "idle", outcome |-> x]
    BY HandedFacts DEF x
  <2> QED
    BY <1>3, <2>1
<1>7. d = Handed(c, kind, 0, 0)
  BY <1>5, <1>6
<1> QED
  BY <1>7 DEF d, x

LEMMA EmulatorEdits ==
    ASSUME NEW e, GoodEmu(e)
    PROVE  /\ e.process = "up" =>
                  \A q : IsSeq(q) => GoodEmu([e EXCEPT !.pending = q])
           /\ \A r : IsSeq(r) => GoodEmu([e EXCEPT !.replies = r])
           /\ e.process = "up" =>
                  \A t, q, r : GoodTable(t) /\ IsSeq(q) /\ IsSeq(r) =>
                      GoodEmu([e EXCEPT !.table = t, !.pending = q, !.replies = r])
           /\ GoodEmu(Closed(e))
           /\ Closed(e) = [process |-> "gone", table |-> EmptyTable, pending |-> <<>>,
                           replies |-> e.replies]
<1>1. \A p \in {"up", "gone"} : \A t, q, r :
          GoodTable(t) /\ IsSeq(q) /\ IsSeq(r) /\ (p = "gone" => q = <<>>) =>
              GoodEmu([process |-> p, table |-> t, pending |-> q, replies |-> r])
  BY DEF GoodEmu
<1>2. PICK p, t, q, r :
          /\ p \in {"up", "gone"}
          /\ e = [process |-> p, table |-> t, pending |-> q, replies |-> r]
          /\ GoodTable(t) /\ IsSeq(q) /\ IsSeq(r) /\ (p = "gone" => q = <<>>)
  BY DEF GoodEmu
<1>3. e.process = p /\ e.replies = r
  BY <1>2
<1>4. ASSUME NEW x, NEW d, d = [e EXCEPT !.pending = x]
      PROVE  d = [process |-> p, table |-> t, pending |-> x, replies |-> r]
  BY <1>2, <1>4
<1>5. ASSUME NEW x, NEW d, d = [e EXCEPT !.replies = x]
      PROVE  d = [process |-> p, table |-> t, pending |-> q, replies |-> x]
  BY <1>2, <1>5
<1>6. ASSUME NEW x, NEW y, NEW z, NEW d,
             d = [e EXCEPT !.table = x, !.pending = y, !.replies = z]
      PROVE  d = [process |-> p, table |-> x, pending |-> y, replies |-> z]
  BY <1>2, <1>6
<1>7. ASSUME NEW d, d = Closed(e)
      PROVE  d = [process |-> "gone", table |-> EmptyTable, pending |-> <<>>, replies |-> r]
  BY <1>2, <1>7 DEF Closed
<1>a. GoodEmu(Closed(e))
  BY <1>1, <1>2, <1>7, EmptyTableGood, EmptyFacts
<1>b. ASSUME NEW x, IsSeq(x)
      PROVE  GoodEmu([e EXCEPT !.replies = x])
  <2> DEFINE d == [e EXCEPT !.replies = x]
  <2>1. d = [process |-> p, table |-> t, pending |-> q, replies |-> x]
    BY <1>5
  <2> HIDE DEF d
  <2>2. GoodEmu(d)
    BY <1>1, <1>2, <1>b, <2>1
  <2> QED
    BY <2>2 DEF d
<1>c. ASSUME p = "up", NEW x, IsSeq(x)
      PROVE  GoodEmu([e EXCEPT !.pending = x])
  <2> DEFINE d == [e EXCEPT !.pending = x]
  <2>1. d = [process |-> p, table |-> t, pending |-> x, replies |-> r]
    BY <1>4
  <2> HIDE DEF d
  <2>2. GoodEmu(d)
    BY <1>1, <1>2, <1>c, <2>1
  <2> QED
    BY <2>2 DEF d
<1>d. ASSUME p = "up", NEW x, NEW y, NEW z, GoodTable(x), IsSeq(y), IsSeq(z)
      PROVE  GoodEmu([e EXCEPT !.table = x, !.pending = y, !.replies = z])
  <2> DEFINE d == [e EXCEPT !.table = x, !.pending = y, !.replies = z]
  <2>1. d = [process |-> p, table |-> x, pending |-> y, replies |-> z]
    BY <1>6, ZenonT(40)
  <2> HIDE DEF d
  <2>2. GoodEmu(d)
    BY <1>1, <1>2, <1>d, <2>1
  <2> QED
    BY <2>2 DEF d
<1>e. Closed(e) = [process |-> "gone", table |-> EmptyTable, pending |-> <<>>,
                   replies |-> e.replies]
  <2> DEFINE d == Closed(e)
  <2>1. d = [process |-> "gone", table |-> EmptyTable, pending |-> <<>>, replies |-> r]
    BY <1>7
  <2> HIDE DEF d
  <2>2. d = [process |-> "gone", table |-> EmptyTable, pending |-> <<>>, replies |-> e.replies]
    BY <1>3, <2>1
  <2> QED
    BY <2>2 DEF d
<1> QED
  BY <1>3, <1>a, <1>b, <1>c, <1>d, <1>e

LEMMA OverFacts ==
    ASSUME Shape, NEW s \in SessionId, NEW kind, NEW answers, NEW took \in {0, 1},
           Over(s, kind, answers, took)
    PROVE  /\ client' = [t \in SessionId |-> client'[t]]
           /\ \A t \in SessionId : IsClient(client'[t])
           /\ \A t \in SessionId \ {s} : client'[t] = client[t]
           /\ client'[s].sent = client[s].sent /\ client'[s].handed = client[s].handed + took
           /\ client'[s].busy = "idle"
           /\ client'[s].outcome = [kind |-> kind, command |-> client[s].sent,
                                    answers |-> answers, events |-> {}]
<1>1. IsClient(client[s])
  BY DEF Shape
<1>2. client'[s] = Handed(client[s], kind, answers, took)
  BY DEF Over, Shape
<1>3. /\ client'[s].sent = client[s].sent /\ client'[s].handed = client[s].handed + took
      /\ client'[s].busy = "idle"
      /\ client'[s].outcome = [kind |-> kind, command |-> client[s].sent,
                               answers |-> answers, events |-> {}]
      /\ IsClient(client'[s])
  <2>1. client'[s] = [sent |-> client[s].sent, handed |-> client[s].handed + took,
                      busy |-> "idle",
                      outcome |-> [kind |-> kind, command |-> client[s].sent,
                                   answers |-> answers, events |-> {}]]
    BY <1>1, <1>2, HandedFacts
  <2> QED
    BY <1>1, <2>1 DEF IsClient, Busy
<1>4. /\ client' = [t \in SessionId |-> client'[t]]
      /\ \A t \in SessionId \ {s} : client'[t] = client[t]
  BY DEF Over, Shape
<1> QED
  BY <1>3, <1>4 DEF Shape

LEMMA RaisesIsOver ==
    ASSUME Shape, NEW s \in SessionId, NEW kind, Raises(s, kind)
    PROVE  Over(s, kind, 0, 0)
<1>1. IsClient(client[s])
  BY DEF Shape
<1>2. [client[s] EXCEPT !.busy = "idle",
                        !.outcome = [kind |-> kind, command |-> client[s].sent,
                                     answers |-> 0, events |-> {}]]
        = Handed(client[s], kind, 0, 0)
  BY <1>1, RaisedFacts
<1> QED
  BY <1>2 DEF Raises, Over, Shape

\* What is unchanged, and what the types are, whichever of these a step is.
LEMMA ClientStepFacts ==
    ASSUME Shape, NEW s \in SessionId, ClientStep(s)
    PROVE  /\ client' = [t \in SessionId |-> client'[t]]
           /\ \A t \in SessionId : IsClient(client'[t])
           /\ emu' = [t \in SessionId |-> emu'[t]] /\ \A t \in SessionId : GoodEmu(emu'[t])
           /\ lost' \in [SessionId -> {"never", "before", "now"}]
           /\ \A t \in SessionId \ {s} :
                  client'[t] = client[t] /\ emu'[t] = emu[t] /\ lost'[t] = lost[t]
<1> DEFINE Clients == /\ client' = [t \in SessionId |-> client'[t]]
                      /\ \A t \in SessionId : IsClient(client'[t])
                      /\ \A t \in SessionId \ {s} : client'[t] = client[t]
           Emulators == /\ emu' = [t \in SessionId |-> emu'[t]]
                        /\ \A t \in SessionId : GoodEmu(emu'[t])
                        /\ \A t \in SessionId \ {s} : emu'[t] = emu[t]
           Losses == /\ lost' \in [SessionId -> {"never", "before", "now"}]
                     /\ \A t \in SessionId \ {s} : lost'[t] = lost[t]
<1>1. IsClient(client[s]) /\ GoodEmu(emu[s])
  BY DEF Shape
<1>2. UNCHANGED client => Clients
  BY DEF Shape
<1>3. UNCHANGED emu => Emulators
  BY DEF Shape
<1>4. UNCHANGED lost => Losses
  BY DEF Shape
<1>5. \A kind, answers : \A took \in {0, 1} : Over(s, kind, answers, took) => Clients
  BY OverFacts, ZenonT(40)
<1>6. ASSUME NEW c, IsClient(c), client' = [client EXCEPT ![s] = c]
      PROVE  Clients
  BY <1>6 DEF Shape
<1>7. ASSUME NEW e, GoodEmu(e), emu' = [emu EXCEPT ![s] = e]
      PROVE  Emulators
  BY <1>7 DEF Shape
<1>8. ASSUME NEW l \in {"never", "before", "now"}, lost' = [lost EXCEPT ![s] = l]
      PROVE  Losses
  BY <1>8 DEF Shape
<1> HIDE DEF Clients, Emulators, Losses
<1>a. CASE Sends(s)
  <2>1. PICK busy \in {"loop", "resumeLoop"} :
            client' = [client EXCEPT ![s].sent = @ + 1, ![s].busy = busy]
    BY <1>a DEF Sends
  <2> DEFINE c == [client[s] EXCEPT !.sent = @ + 1, !.busy = busy]
  <2>2. client' = [client EXCEPT ![s] = c]
    BY <2>1 DEF Shape
  <2>3. IsClient(c)
    BY <1>1, ClientEdits DEF Busy
  <2>4. Clients
    BY <1>6, <2>2, <2>3
  <2>5. PICK line : emu' = [emu EXCEPT ![s].pending = Append(@, line)]
    BY <1>a DEF Sends
  <2> DEFINE e == [emu[s] EXCEPT !.pending = Append(@, line)]
  <2>6. emu' = [emu EXCEPT ![s] = e]
    BY <2>5 DEF Shape
  <2>7. IsSeq(Append(emu[s].pending, line)) /\ emu[s].process = "up"
    BY <1>1, <1>a, AppendFacts DEF GoodEmu, Sends
  <2>8. GoodEmu(e)
    BY <1>1, <2>7, EmulatorEdits
  <2>9. Emulators
    BY <1>7, <2>6, <2>8
  <2> QED
    BY <1>4, <1>a, <2>4, <2>9 DEF Sends, Clients, Emulators, Losses
<1>b. CASE Leaves(s)
  BY <1>3, <1>4, <1>5, <1>8, <1>b DEF Leaves, Clients, Emulators, Losses
<1>c. CASE Takes(s)
  <2> DEFINE e == [emu[s] EXCEPT !.replies = Tail(@)]
  <2>1. emu' = [emu EXCEPT ![s] = e]
    BY <1>c DEF Shape, Takes, TakeReply
  <2>2. IsSeq(Tail(emu[s].replies))
    BY <1>1, <1>c, TailFacts DEF GoodEmu, Takes, TakeReply
  <2>3. GoodEmu(e)
    BY <1>1, <2>2, EmulatorEdits
  <2>4. Emulators
    BY <1>7, <2>1, <2>3
  <2> DEFINE c == [client[s] EXCEPT !.busy = "resumeWait", !.handed = @ + 1]
  <2>5. IsClient(c)
    BY <1>1, ClientEdits
  <2>6. client' = [client EXCEPT ![s].busy = "resumeWait", ![s].handed = @ + 1] => Clients
    <3>1. [client EXCEPT ![s].busy = "resumeWait", ![s].handed = @ + 1]
              = [client EXCEPT ![s] = c]
      BY DEF Shape
    <3> QED
      BY <1>6, <2>5, <3>1
  <2>7. Clients
    BY <1>5, <1>c, <2>6 DEF Takes
  <2> QED
    BY <1>4, <1>c, <2>4, <2>7 DEF Takes, Clients, Emulators, Losses
<1>d. CASE Stops(s)
  <2>1. GoodEmu(Closed(emu[s]))
    BY <1>1, EmulatorEdits
  <2>2. emu' = [emu EXCEPT ![s] = Closed(emu[s])]
    BY <1>d DEF Stops, Shape
  <2> QED
    BY <1>2, <1>4, <1>7, <1>d, <2>1, <2>2 DEF Stops, Clients, Emulators, Losses
<1>e. CASE Obeys(s)
  <2>1. PICK o \in Outcomes(emu[s].table, Head(emu[s].pending)) :
            emu' = [emu EXCEPT
                ![s].table = o.table,
                ![s].pending = Tail(@),
                ![s].replies = Append(@,
                    [answers |-> client[s].sent - Len(emu[s].pending) + 1,
                     terminator |-> o.terminator, data |-> o.data])]
    BY <1>e DEF Obeys
  <2> DEFINE reply == [answers |-> client[s].sent - Len(emu[s].pending) + 1,
                       terminator |-> o.terminator, data |-> o.data]
             e == [emu[s] EXCEPT !.table = o.table, !.pending = Tail(@),
                                 !.replies = Append(@, reply)]
  <2> HIDE DEF reply
  <2>2. emu' = [emu EXCEPT ![s] = e]
    BY <2>1 DEF Shape, reply
  <2>3. GoodTable(o.table)
    BY <1>1, OutcomesGood DEF GoodEmu
  <2>4. IsSeq(Tail(emu[s].pending)) /\ IsSeq(Append(emu[s].replies, reply))
    BY <1>1, <1>e, TailFacts, AppendFacts DEF GoodEmu, Obeys
  <2>5. GoodEmu(e)
    BY <1>1, <1>e, <2>3, <2>4, EmulatorEdits DEF Obeys
  <2>6. Emulators
    BY <1>7, <2>2, <2>5
  <2> QED
    BY <1>2, <1>4, <1>e, <2>6 DEF Obeys, Clients, Emulators, Losses
<1>f. CASE Respawned(s)
  <2>1. IsClient(NewClient)
    BY DEF IsClient, NewClient, Busy
  <2>2. GoodEmu(NewEmulator)
    BY EmptyTableGood, EmptyFacts DEF GoodEmu, NewEmulator
  <2>3. /\ client' = [client EXCEPT ![s] = NewClient] /\ emu' = [emu EXCEPT ![s] = NewEmulator]
        /\ lost' = [lost EXCEPT ![s] = IF lost[s] = "now" THEN "before" ELSE lost[s]]
    BY <1>f DEF Respawned, Shape
  <2> QED
    BY <1>6, <1>7, <1>8, <2>1, <2>2, <2>3 DEF Clients, Emulators, Losses, Shape
<1> QED
  BY <1>a, <1>b, <1>c, <1>d, <1>e, <1>f DEF ClientStep

-----------------------------------------------------------------------------
(* What each action is to the tool in progress and to the client. *)

Kept == UNCHANGED <<client, emu, lost>>

\* The calls of the other clients are over while a tool of this one is in progress.
LEMMA OneTool ==
    ASSUME ToolInv, NEW s \in SessionId, Idle \/ tool.session = s,
           \A t \in SessionId \ {s} : client'[t] = client[t],
           \/ tool' = NoTool /\ client'[s].busy = "idle"
           \/ tool'.session = s /\ IsTool' /\ BusyWith(s)'
    PROVE  ToolInv'
<1>1. ASSUME NEW t \in SessionId \ {s}
      PROVE  client'[t].busy = "idle" /\ ~Waiting(t)'
  <2>1. ~Waiting(t)
    BY <1>1 DEF Waiting, Calling
  <2>2. client[t].busy = "idle"
    BY <1>1, <2>1 DEF ToolInv, BusyWith
  <2>3. ~Waiting(t)'
    BY <1>1 DEF Waiting, Calling, Idle
  <2> QED
    BY <1>1, <2>2, <2>3
<1>2. \A t \in SessionId \ {s} : BusyWith(t)'
  BY <1>1 DEF BusyWith
<1>3. CASE tool' = NoTool /\ client'[s].busy = "idle"
  <2>1. BusyWith(s)' /\ Idle'
    BY <1>3 DEF BusyWith, Waiting, Calling, Idle
  <2> QED
    BY <1>2, <2>1 DEF ToolInv
<1>4. CASE tool'.session = s /\ IsTool' /\ BusyWith(s)'
  BY <1>2, <1>4 DEF ToolInv
<1> QED
  BY <1>3, <1>4

\* The tool in progress, after its client's call has ended and before its next one.
LEMMA ToolGoesOn ==
    ASSUME NEW s \in SessionId, tool' # NoTool, tool'.session = s, IsTool',
           client'[s].busy = "idle", tool'.stage # "reply"
    PROVE  BusyWith(s)'
BY DEF BusyWith, Waiting, Calling, Idle

LEMMA BeginStep ==
    ASSUME Shape, ToolInv, Idle, NEW s \in SessionId, NEW job, IsJob(job), Begin(s, job)
    PROVE  Sends(s) /\ ToolInv' /\ tool'.session = s /\ tool'.job = job /\ tool'.stage = "reply"
<1> DEFINE busy == IF job.name \in Resuming THEN "resumeLoop" ELSE "loop"
<1>1. /\ client' = [client EXCEPT ![s].sent = @ + 1, ![s].busy = busy]
      /\ emu' = [emu EXCEPT ![s].pending = Append(@, LineOf(job))]
      /\ emu[s].process = "up" /\ UNCHANGED lost
  BY DEF Begin, Send
<1>2. busy \in {"loop", "resumeLoop"}
  OBVIOUS
<1>3. client[s].busy = "idle"
  BY DEF ToolInv, BusyWith, Waiting, Calling
<1> HIDE DEF busy
<1>4. Sends(s)
  BY <1>1, <1>2, <1>3 DEF Sends
<1>5. IsClient(client[s])
  BY DEF Shape
<1>6. client'[s].busy = busy
  BY <1>1, <1>5 DEF Shape, IsClient
<1>7. \A t \in SessionId \ {s} : client'[t] = client[t]
  BY <1>1 DEF Shape
<1>8. tool' = [session |-> s, job |-> job, stage |-> "reply", file |-> NoFile,
               left |-> IF job.name = "write_memory" THEN Chunks - 1 ELSE 0]
  BY DEF Begin
<1>9. /\ tool'.session = s /\ tool'.job = job /\ tool'.stage = "reply" /\ tool' # NoTool
      /\ tool'.left = IF job.name = "write_memory" THEN Chunks - 1 ELSE 0
      /\ tool' = [session |-> tool'.session, job |-> tool'.job, stage |-> tool'.stage,
                  file |-> tool'.file, left |-> tool'.left]
  BY <1>8 DEF NoTool
<1>10. session'[s] = "open" /\ tool'.left \in Nat
  BY <1>9, ToolsAssumption DEF Begin
<1>11. IsTool'
  BY <1>9, <1>10 DEF IsTool
<1>12. BusyWith(s)'
  BY <1>6, <1>9 DEF BusyWith, Waiting, Calling, Idle, busy
<1>13. ToolInv'
  BY <1>7, <1>9, <1>11, <1>12, OneTool
<1> QED
  BY <1>4, <1>9, <1>13

\* Nothing is changed of the tool or of what its client does.
LEMMA ToolKept ==
    ASSUME ToolInv, UNCHANGED <<tool, session>>,
           \A s \in SessionId : client'[s].busy = client[s].busy
    PROVE  ToolInv'
<1>1. IsTool' <=> IsTool
  BY DEF IsTool
<1>2. \A s \in SessionId : BusyWith(s)' <=> BusyWith(s)
  BY DEF BusyWith, Waiting, Calling, Idle
<1> QED
  BY <1>1, <1>2 DEF ToolInv, Idle

LEMMA BeginFailsStep ==
    ASSUME Shape, ToolInv, Idle, NEW s \in SessionId, NEW job, BeginFails(s, job)
    PROVE  Leaves(s) /\ ToolInv'
<1>1. client[s].busy = "idle"
  BY DEF ToolInv, BusyWith, Waiting, Calling
<1>2. Over(s, "BrokenPipeError", 0, 0) /\ UNCHANGED <<emu, lost, tool, session>>
  BY RaisesIsOver DEF BeginFails
<1>3. Leaves(s)
  BY <1>1, <1>2 DEF Leaves
<1>4. ToolInv'
  BY <1>1, <1>2, OverFacts, ToolKept
<1> QED
  BY <1>3, <1>4

\* The tool is over, and so is the call of its client.
LEMMA EndStep ==
    ASSUME Shape, ToolInv, NEW s \in SessionId, Calling(s), NEW error, NEW value,
           Ends(s, error, value), NEW kind, NEW answers, NEW took \in {0, 1},
           Over(s, kind, answers, took)
    PROVE  ToolInv'
<1>1. tool.session = s /\ tool' = NoTool
  BY DEF Calling, Ends
<1>2. client'[s].busy = "idle" /\ \A t \in SessionId \ {s} : client'[t] = client[t]
  BY OverFacts
<1> QED
  BY <1>1, <1>2, OneTool

LEMMA RefusedStep ==
    ASSUME Shape, ToolInv, NEW s \in SessionId, Refused(s)
    PROVE  Takes(s) /\ ToolInv'
<1>1. Calling(s) /\ client[s].busy \in {"loop", "resumeLoop"}
  BY DEF Refused, Answers, Calling
<1>2. Over(s, "X16dbgError", 0, 1) /\ TakeReply(s) /\ UNCHANGED lost
      /\ Ends(s, "X16dbgError", <<>>)
  BY DEF Refused, Over
<1> QED
  BY <1>1, <1>2, EndStep DEF Takes

LEMMA RepliedStep ==
    ASSUME Shape, ToolInv, NEW s \in SessionId, Replied(s)
    PROVE  Takes(s) /\ ToolInv'
<1> DEFINE reply == Head(emu[s].replies)
<1>1. Calling(s) /\ client[s].busy = "loop" /\ IsTool /\ tool.session = s
  BY DEF Replied, Answers, Calling, ToolInv
<1>2. Over(s, "reply", reply.answers, 1) /\ TakeReply(s) /\ UNCHANGED <<lost, session>>
  BY DEF Replied, Over
<1>3. Takes(s)
  BY <1>1, <1>2 DEF Takes
<1>4. client'[s].busy = "idle" /\ \A t \in SessionId \ {s} : client'[t] = client[t]
  BY <1>2, OverFacts
<1> HIDE DEF reply
<1>5. CASE tool.left > 0 /\ tool' = [tool EXCEPT !.stage = "line"]
  <2>1. /\ tool'.session = s /\ tool'.stage = "line" /\ tool' # NoTool
        /\ tool'.left = tool.left /\ tool'.job = tool.job
        /\ tool' = [session |-> tool'.session, job |-> tool'.job, stage |-> tool'.stage,
                    file |-> tool'.file, left |-> tool'.left]
    BY <1>1, <1>5 DEF IsTool, NoTool
  <2>2. IsTool'
    BY <1>1, <1>2, <1>5, <2>1 DEF IsTool
  <2>3. BusyWith(s)'
    BY <1>4, <2>1, <2>2, ToolGoesOn
  <2> QED
    BY <1>1, <1>3, <1>4, <2>1, <2>2, <2>3, OneTool
<1>6. CASE /\ tool.job.name = "screenshot"
           /\ \E file : tool' = [tool EXCEPT !.stage = "file", !.file = file]
  <2>1. tool.left = 0
    BY <1>1, <1>6 DEF IsTool
  <2>2. /\ tool'.session = s /\ tool'.stage = "file" /\ tool' # NoTool
        /\ tool'.left = tool.left /\ tool'.job = tool.job
        /\ tool' = [session |-> tool'.session, job |-> tool'.job, stage |-> tool'.stage,
                    file |-> tool'.file, left |-> tool'.left]
    BY <1>1, <1>6 DEF IsTool, NoTool
  <2>3. IsTool'
    BY <1>1, <1>2, <1>6, <2>1, <2>2 DEF IsTool
  <2>4. BusyWith(s)'
    BY <1>4, <2>2, <2>3, ToolGoesOn
  <2> QED
    BY <1>1, <1>3, <1>4, <2>2, <2>3, <2>4, OneTool
<1>7. CASE \E error, value : Ends(s, error, value)
  BY <1>1, <1>2, <1>3, <1>7, EndStep
<1>8. \/ tool.left > 0 /\ tool' = [tool EXCEPT !.stage = "line"]
      \/ /\ tool.job.name = "screenshot"
         /\ \E file : tool' = [tool EXCEPT !.stage = "file", !.file = file]
      \/ \E error, value : Ends(s, error, value)
  BY DEF Replied
<1> QED
  BY <1>5, <1>6, <1>7, <1>8

LEMMA NextLineStep ==
    ASSUME Shape, ToolInv, NEW s \in SessionId, NextLine(s)
    PROVE  (Sends(s) \/ Leaves(s)) /\ ToolInv'
<1>1. /\ Calling(s) /\ IsTool /\ tool.session = s /\ tool.stage = "line"
      /\ UNCHANGED <<session, lost>>
  BY DEF NextLine, Calling, ToolInv
<1>2. client[s].busy = "idle"
  BY <1>1 DEF ToolInv, BusyWith, Waiting
<1>3. CASE /\ emu[s].process = "up" /\ Send(s, tool.job)
           /\ tool' = [tool EXCEPT !.stage = "reply", !.left = @ - 1]
  <2> DEFINE busy == IF tool.job.name \in Resuming THEN "resumeLoop" ELSE "loop"
  <2>1. /\ client' = [client EXCEPT ![s].sent = @ + 1, ![s].busy = busy]
        /\ emu' = [emu EXCEPT ![s].pending = Append(@, LineOf(tool.job))]
    BY <1>3 DEF Send
  <2>2. busy \in {"loop", "resumeLoop"}
    OBVIOUS
  <2> HIDE DEF busy
  <2>3. Sends(s)
    BY <1>1, <1>2, <1>3, <2>1, <2>2 DEF Sends
  <2>4. IsClient(client[s])
    BY DEF Shape
  <2>5. client'[s].busy = busy
    BY <2>1, <2>4 DEF Shape, IsClient
  <2>6. \A t \in SessionId \ {s} : client'[t] = client[t]
    BY <2>1 DEF Shape
  <2>7. /\ tool'.session = s /\ tool'.stage = "reply" /\ tool' # NoTool
        /\ tool'.left = tool.left - 1 /\ tool'.job = tool.job
        /\ tool' = [session |-> tool'.session, job |-> tool'.job, stage |-> tool'.stage,
                    file |-> tool'.file, left |-> tool'.left]
    BY <1>1, <1>3 DEF IsTool, NoTool
  <2>8. tool.left \in Nat /\ tool.left > 0
    BY <1>1 DEF IsTool
  <2>9. IsTool'
    BY <1>1, <2>7, <2>8 DEF IsTool
  <2>10. BusyWith(s)'
    BY <2>5, <2>7 DEF BusyWith, Waiting, Calling, Idle, busy
  <2> QED
    BY <1>1, <2>3, <2>6, <2>7, <2>9, <2>10, OneTool
<1>4. CASE Raises(s, "BrokenPipeError") /\ Ends(s, "BrokenPipeError", <<>>) /\ UNCHANGED emu
  <2>1. Over(s, "BrokenPipeError", 0, 0)
    BY <1>4, RaisesIsOver
  <2>2. Leaves(s)
    BY <1>1, <1>2, <1>4, <2>1 DEF Leaves
  <2> QED
    BY <1>1, <1>4, <2>1, <2>2, EndStep
<1> QED
  BY <1>3, <1>4 DEF NextLine

LEMMA OpenFileStep ==
    ASSUME Shape, ToolInv, NEW s \in SessionId, OpenFile(s)
    PROVE  Kept /\ ToolInv'
<1>1. /\ Calling(s) /\ tool.session = s /\ tool.stage = "file" /\ Kept /\ tool' = NoTool
  BY DEF OpenFile, Calling, Kept, Ends
<1>2. client'[s].busy = "idle"
  BY <1>1 DEF ToolInv, BusyWith, Waiting, Kept
<1> QED
  BY <1>1, <1>2, OneTool DEF Kept

LEMMA ResumedStep ==
    ASSUME Shape, ToolInv, NEW s \in SessionId, Resumed(s)
    PROVE  Takes(s) /\ ToolInv'
<1>1. /\ Calling(s) /\ client[s].busy = "resumeLoop" /\ TakeReply(s)
      /\ UNCHANGED <<lost, session>>
  BY DEF Resumed, Answers, Calling
<1>2. CASE /\ Over(s, "events", Head(emu[s].replies).answers, 1)
           /\ Ends(s, "none", <<>>)
  <2>1. Takes(s)
    BY <1>1, <1>2 DEF Takes
  <2> QED
    BY <1>1, <1>2, <2>1, EndStep
<1>3. CASE /\ client' = [client EXCEPT ![s].busy = "resumeWait", ![s].handed = @ + 1]
           /\ UNCHANGED tool
  <2>1. Takes(s)
    BY <1>1, <1>3 DEF Takes
  <2>2. IsClient(client[s])
    BY DEF Shape
  <2>3. client'[s].busy = "resumeWait" /\ \A t \in SessionId \ {s} : client'[t] = client[t]
    BY <1>3, <2>2 DEF Shape, IsClient
  <2>4. IsTool' /\ tool'.session = s
    BY <1>1, <1>3 DEF ToolInv, IsTool, Calling
  <2>5. BusyWith(s)'
    BY <1>1, <1>3, <2>3 DEF ToolInv, BusyWith, Waiting, Calling, Idle
  <2> QED
    BY <2>1, <2>3, <2>4, <2>5, <1>1, OneTool DEF Calling
<1> QED
  BY <1>2, <1>3 DEF Resumed, Over

LEMMA ObservedStep ==
    ASSUME Shape, ToolInv, NEW s \in SessionId, Observed(s)
    PROVE  (Takes(s) \/ Leaves(s)) /\ ToolInv'
<1>1. /\ Calling(s) /\ client[s].busy = "resumeWait" /\ Ends(s, "none", <<>>)
      /\ UNCHANGED lost
  BY DEF Observed, Calling
<1>2. CASE Over(s, "events", 0, 0) /\ UNCHANGED emu
  BY <1>1, <1>2, EndStep DEF Leaves
<1>3. CASE Over(s, "events", Head(emu[s].replies).answers, 1) /\ TakeReply(s)
  BY <1>1, <1>3, EndStep DEF Takes
<1> QED
  BY <1>2, <1>3 DEF Observed, Over

LEMMA GiveUpStep ==
    ASSUME Shape, ToolInv, NEW s \in SessionId, GiveUp(s)
    PROVE  Leaves(s) /\ ToolInv'
<1>1. PICK error \in {"TimeoutError", "EOFError"} :
          /\ client[s].busy # "idle" /\ Raises(s, error) /\ Ends(s, error, <<>>)
  BY DEF GiveUp
<1>2. Calling(s) /\ UNCHANGED emu /\ lost' = [lost EXCEPT ![s] = "now"]
  BY DEF GiveUp, Calling
<1>3. Over(s, error, 0, 0)
  BY <1>1, RaisesIsOver
<1>4. Leaves(s)
  BY <1>1, <1>2, <1>3 DEF Leaves
<1> QED
  BY <1>1, <1>2, <1>3, <1>4, EndStep

LEMMA RespawnedFacts ==
    ASSUME Shape, NEW s \in SessionId, Respawned(s)
    PROVE  /\ client'[s] = NewClient /\ emu'[s] = NewEmulator
           /\ lost'[s] # "now" /\ (lost[s] = "never" => lost'[s] = "never")
           /\ view' = [t \in SessionId |-> IF t = s THEN EmptyTable ELSE view[t]]
           /\ \A t \in SessionId \ {s} :
                  client'[t] = client[t] /\ emu'[t] = emu[t] /\ lost'[t] = lost[t]
BY DEF Respawned, Shape

\* No tool is in progress, and none begins.
LEMMA IdleStep ==
    ASSUME ToolInv, Idle, UNCHANGED tool,
           \A t \in SessionId : client'[t].busy \in {"idle", client[t].busy}
    PROVE  ToolInv'
BY DEF ToolInv, BusyWith, Waiting, Calling, Idle

LEMMA SessionsStep ==
    ASSUME Shape, ToolInv, NEW s \in SessionId,
           CreateSession(s) \/ CloseSession(s) \/ BootProgram(s)
    PROVE  ((Respawned(s) /\ client[s].busy = "idle") \/ Stops(s)) /\ ToolInv'
<1>1. Idle /\ UNCHANGED tool
  BY DEF CreateSession, CloseSession, BootProgram, MayCall
<1>2. Respawned(s) \/ Stops(s)
  BY DEF CreateSession, CloseSession, BootProgram, Stops
<1>3. client[s].busy = "idle"
  BY <1>1 DEF ToolInv, BusyWith, Waiting, Calling
<1>4. \A t \in SessionId : client'[t].busy \in {"idle", client[t].busy}
  <2>1. CASE Respawned(s)
    <3>1. client'[s].busy = "idle"
      BY <2>1, RespawnedFacts DEF NewClient
    <3> QED
      BY <2>1, <3>1, RespawnedFacts
  <2>2. CASE Stops(s)
    BY <2>2 DEF Stops
  <2> QED
    BY <1>2, <2>1, <2>2
<1> QED
  BY <1>1, <1>2, <1>3, <1>4, IdleStep

LEMMA EmulatorStep ==
    ASSUME Shape, ToolInv, NEW s \in SessionId, Obey(s) \/ Exit(s)
    PROVE  (Obeys(s) \/ Stops(s)) /\ ToolInv' /\ UNCHANGED <<client, lost, tool, session>>
<1>1. UNCHANGED <<client, lost, tool, session>>
  BY DEF Obey, Exit
<1>2. ToolInv'
  BY <1>1, ToolKept
<1>3. CASE Obey(s)
  BY <1>1, <1>2, <1>3 DEF Obey, Obeys
<1>4. CASE Exit(s)
  BY <1>1, <1>2, <1>4 DEF Exit, Stops
<1> QED
  BY <1>3, <1>4

LEMMA StartStep ==
    ASSUME Shape, ToolInv, NEW s \in SessionId, Start(s)
    PROVE  (ClientStep(s) \/ Kept) /\ ToolInv'
<1>1. MayCall /\ Begins(s)
  BY StartCases
<1>2. Idle
  BY <1>1 DEF MayCall
<1>3. CASE UNCHANGED <<session, client, emu, tool, view, lost, files>>
  BY <1>3, ToolKept DEF Kept
<1>4. ASSUME NEW job, IsJob(job), Begin(s, job) \/ BeginFails(s, job)
      PROVE  (ClientStep(s) \/ Kept) /\ ToolInv'
  BY <1>2, <1>4, BeginStep, BeginFailsStep DEF ClientStep
<1> QED
  BY <1>1, <1>3, <1>4 DEF Begins

LEMMA WorkStep ==
    ASSUME Shape, ToolInv, NEW s \in SessionId, Work(s)
    PROVE  (ClientStep(s) \/ Kept) /\ ToolInv'
BY RefusedStep, RepliedStep, NextLineStep, OpenFileStep, ResumedStep, ObservedStep, GiveUpStep
   DEF Work, ClientStep

\* The session, the view and the number of calls.
LEMMA RestOfShape ==
    ASSUME Shape, Next
    PROVE  /\ session' \in [SessionId -> {"new", "open", "closed"}]
           /\ view' = [s \in SessionId |-> view'[s]] /\ calls' \in 0..MaxCalls
<1> PICK s \in SessionId :
        \/ CreateSession(s) \/ CloseSession(s) \/ BootProgram(s)
        \/ Start(s) \/ Work(s) \/ Obey(s) \/ Exit(s)
  BY DEF Next
<1>1. MaxCalls \in Nat
  BY ToolsAssumption
<1>2. MayCall => calls' \in 0..MaxCalls
  BY <1>1 DEF MayCall, Shape
<1>3. \A table : (view' = [view EXCEPT ![s] = table]) => view' = [t \in SessionId |-> view'[t]]
  BY DEF Shape
<1>4. CASE CreateSession(s) \/ CloseSession(s) \/ BootProgram(s)
  BY <1>2, <1>3, <1>4 DEF CreateSession, CloseSession, BootProgram, Respawned, Shape
<1>5. CASE Start(s)
  <2>1. MayCall /\ Begins(s)
    BY <1>5, StartCases
  <2> QED
    BY <1>2, <2>1 DEF Begins, Begin, BeginFails, Shape
<1>6. CASE Work(s)
  <2>1. UNCHANGED <<session, calls>>
    BY <1>6 DEF Work, Refused, Replied, NextLine, OpenFile, Resumed, Observed, GiveUp
  <2>2. UNCHANGED view \/ \E table : view' = [view EXCEPT ![s] = table]
    <3>1. CASE Replied(s)
      BY <3>1 DEF Replied, Tell
    <3>2. CASE GiveUp(s)
      BY <3>2 DEF GiveUp
    <3>3. CASE Refused(s) \/ NextLine(s) \/ OpenFile(s) \/ Resumed(s) \/ Observed(s)
      BY <3>3 DEF Refused, NextLine, OpenFile, Resumed, Observed
    <3> QED
      BY <1>6, <3>1, <3>2, <3>3 DEF Work
  <2> QED
    BY <1>3, <2>1, <2>2 DEF Shape
<1>7. CASE Obey(s) \/ Exit(s)
  BY <1>7 DEF Obey, Exit, Shape
<1> QED
  BY <1>4, <1>5, <1>6, <1>7

LEMMA NextFacts ==
    ASSUME Shape, ToolInv, Next
    PROVE  /\ Shape' /\ ToolInv'
           /\ \E s \in SessionId : ClientStep(s) \/ Kept
<1>1. PICK s \in SessionId :
          \/ CreateSession(s) \/ CloseSession(s) \/ BootProgram(s)
          \/ Start(s) \/ Work(s) \/ Obey(s) \/ Exit(s)
  BY DEF Next
<1>2. (ClientStep(s) \/ Kept) /\ ToolInv'
  BY <1>1, SessionsStep, StartStep, WorkStep, EmulatorStep DEF ClientStep
<1>3. CASE ClientStep(s)
  BY <1>2, <1>3, ClientStepFacts, RestOfShape DEF Shape
<1>4. CASE Kept
  BY <1>2, <1>4, RestOfShape DEF Shape, Kept
<1> QED
  BY <1>2, <1>3, <1>4

LEMMA InitFacts ==
    ASSUME Init
    PROVE  Shape /\ ToolInv
<1>1. MaxCalls \in Nat
  BY ToolsAssumption
<1>2. IsClient(NewClient)
  BY DEF IsClient, NewClient, Busy
<1>3. GoodEmu(NewEmulator)
  BY EmptyTableGood, EmptyFacts DEF GoodEmu, NewEmulator
<1>4. GoodEmu(Closed(NewEmulator))
  BY <1>3, EmulatorEdits
<1>5. Shape
  BY <1>1, <1>2, <1>4 DEF Shape, Init
<1>6. ToolInv
  BY DEF Init, ToolInv, BusyWith, Waiting, Calling, Idle, NewClient
<1> QED
  BY <1>5, <1>6

\* What is unchanged keeps every invariant of these.
LEMMA StutterFacts ==
    ASSUME Shape, ToolInv, UNCHANGED vars
    PROVE  Shape' /\ ToolInv'
<1>1. Shape'
  BY DEF Shape, vars
<1>2. ToolInv'
  BY ToolKept DEF vars
<1> QED
  BY <1>1, <1>2

-----------------------------------------------------------------------------
(* The replies of a session, in the order of its commands. *)

InCall(s) == client[s].busy \in {"loop", "resumeLoop"}

\* The replies not yet read are numbered from the last one handed out, and with the lines
\* not yet obeyed they are all there are; while no call has given up, every command but
\* that of the call in progress has had its reply.
OrderOf(s) ==
    /\ \A i \in DOMAIN emu[s].replies :
           emu[s].replies[i].answers = client[s].handed + i
    /\ client[s].handed + Len(emu[s].pending) + Len(emu[s].replies) <= client[s].sent
    /\ emu[s].process = "up" =>
           client[s].sent = client[s].handed + Len(emu[s].pending) + Len(emu[s].replies)
    /\ Sure(s) => client[s].sent = client[s].handed + (IF InCall(s) THEN 1 ELSE 0)
    /\ Sure(s) /\ client[s].outcome.answers # 0 =>
           client[s].outcome.answers = client[s].outcome.command

OrderInv == \A s \in SessionId : OrderOf(s)

LEMMA SendsFacts ==
    ASSUME Shape, NEW s \in SessionId, Sends(s)
    PROVE  /\ client'[s].sent = client[s].sent + 1 /\ client'[s].handed = client[s].handed
           /\ client[s].busy = "idle" /\ client'[s].busy \in {"loop", "resumeLoop"}
           /\ client'[s].outcome = client[s].outcome
           /\ emu[s].process = "up" /\ emu'[s].process = "up"
           /\ emu'[s].table = emu[s].table /\ emu'[s].replies = emu[s].replies
           /\ \E line : emu'[s].pending = Append(emu[s].pending, line)
           /\ lost'[s] = lost[s]
<1>1. IsClient(client[s]) /\ GoodEmu(emu[s])
  BY DEF Shape
<1>2. PICK busy \in {"loop", "resumeLoop"} :
          client' = [client EXCEPT ![s].sent = @ + 1, ![s].busy = busy]
  BY DEF Sends
<1>3. PICK line : emu' = [emu EXCEPT ![s].pending = Append(@, line)]
  BY DEF Sends
<1>4. /\ client'[s].sent = client[s].sent + 1 /\ client'[s].handed = client[s].handed
      /\ client'[s].busy = busy /\ client'[s].outcome = client[s].outcome
  BY <1>1, <1>2 DEF Shape, IsClient
<1>5. /\ emu'[s].process = emu[s].process /\ emu'[s].table = emu[s].table
      /\ emu'[s].replies = emu[s].replies
      /\ emu'[s].pending = Append(emu[s].pending, line)
  BY <1>1, <1>3 DEF Shape, GoodEmu
<1> QED
  BY <1>2, <1>4, <1>5 DEF Sends

LEMMA TakesFacts ==
    ASSUME Shape, NEW s \in SessionId, Takes(s)
    PROVE  /\ emu[s].replies # <<>>
           /\ client'[s].sent = client[s].sent /\ client'[s].handed = client[s].handed + 1
           /\ emu'[s].process = emu[s].process /\ emu'[s].table = emu[s].table
           /\ emu'[s].pending = emu[s].pending /\ emu'[s].replies = Tail(emu[s].replies)
           /\ lost'[s] = lost[s]
           /\ LET answers == Head(emu[s].replies).answers
                  Outcome(kind, number) == [kind |-> kind, command |-> client[s].sent,
                                            answers |-> number, events |-> {}]
              IN  \/ /\ InCall(s) /\ client'[s].busy = "idle"
                     /\ client'[s].outcome = Outcome("X16dbgError", 0)
                  \/ /\ client[s].busy = "loop" /\ client'[s].busy = "idle"
                     /\ client'[s].outcome = Outcome("reply", answers)
                  \/ /\ client[s].busy \in {"resumeLoop", "resumeWait"}
                     /\ client'[s].busy = "idle"
                     /\ client'[s].outcome = Outcome("events", answers)
                  \/ /\ client[s].busy = "resumeLoop" /\ client'[s].busy = "resumeWait"
                     /\ client'[s].outcome = client[s].outcome
<1>1. IsClient(client[s]) /\ GoodEmu(emu[s])
  BY DEF Shape
<1>2. /\ emu[s].replies # <<>> /\ emu' = [emu EXCEPT ![s].replies = Tail(@)]
      /\ lost'[s] = lost[s]
  BY DEF Takes, TakeReply
<1>3. /\ emu'[s].process = emu[s].process /\ emu'[s].table = emu[s].table
      /\ emu'[s].pending = emu[s].pending /\ emu'[s].replies = Tail(emu[s].replies)
  BY <1>1, <1>2 DEF Shape, GoodEmu
<1> DEFINE answers == Head(emu[s].replies).answers
           Outcome(kind, number) == [kind |-> kind, command |-> client[s].sent,
                                     answers |-> number, events |-> {}]
<1> HIDE DEF answers
<1>4. ASSUME NEW kind, NEW number, Over(s, kind, number, 1)
      PROVE  /\ client'[s].sent = client[s].sent /\ client'[s].handed = client[s].handed + 1
             /\ client'[s].busy = "idle" /\ client'[s].outcome = Outcome(kind, number)
  BY <1>4, OverFacts
<1> HIDE DEF Outcome
<1>a. CASE InCall(s) /\ Over(s, "X16dbgError", 0, 1)
  BY <1>2, <1>3, <1>4, <1>a DEF answers, Outcome
<1>b. CASE client[s].busy = "loop" /\ Over(s, "reply", answers, 1)
  BY <1>2, <1>3, <1>4, <1>b DEF answers, Outcome
<1>c. CASE client[s].busy \in {"resumeLoop", "resumeWait"} /\ Over(s, "events", answers, 1)
  BY <1>2, <1>3, <1>4, <1>c DEF answers, Outcome
<1>d. CASE /\ client[s].busy = "resumeLoop"
           /\ client' = [client EXCEPT ![s].busy = "resumeWait", ![s].handed = @ + 1]
  <2>1. /\ client'[s].sent = client[s].sent /\ client'[s].handed = client[s].handed + 1
        /\ client'[s].busy = "resumeWait" /\ client'[s].outcome = client[s].outcome
    BY <1>1, <1>d DEF Shape, IsClient
  <2> QED
    BY <1>2, <1>3, <1>d, <2>1
<1> QED
  BY <1>a, <1>b, <1>c, <1>d DEF Takes, InCall, answers

LEMMA LeavesFacts ==
    ASSUME Shape, NEW s \in SessionId, Leaves(s)
    PROVE  /\ client'[s].sent = client[s].sent /\ client'[s].handed = client[s].handed
           /\ client'[s].busy = "idle" /\ UNCHANGED emu
           /\ \/ client[s].busy \in {"idle", "resumeWait"} /\ UNCHANGED lost
              \/ lost'[s] = "now"
           /\ \E kind \in {"BrokenPipeError", "TimeoutError", "EOFError", "events"} :
                  /\ client'[s].outcome = [kind |-> kind, command |-> client[s].sent,
                                           answers |-> 0, events |-> {}]
                  /\ kind = "BrokenPipeError" => client[s].busy = "idle"
                  /\ kind = "events" => client[s].busy = "resumeWait"
                  /\ kind \in {"TimeoutError", "EOFError"} => client[s].busy # "idle"
<1>1. ASSUME NEW kind, Over(s, kind, 0, 0)
      PROVE  /\ client'[s].sent = client[s].sent /\ client'[s].handed = client[s].handed + 0
             /\ client'[s].busy = "idle"
             /\ client'[s].outcome = [kind |-> kind, command |-> client[s].sent,
                                      answers |-> 0, events |-> {}]
  BY <1>1, OverFacts
<1>2. client[s].handed + 0 = client[s].handed
  BY DEF Shape, IsClient
<1>3. UNCHANGED emu
  BY DEF Leaves
<1>a. CASE client[s].busy = "idle" /\ UNCHANGED lost /\ Over(s, "BrokenPipeError", 0, 0)
  BY <1>1, <1>2, <1>3, <1>a
<1>b. CASE /\ client[s].busy # "idle" /\ lost' = [lost EXCEPT ![s] = "now"]
           /\ \E kind \in {"TimeoutError", "EOFError"} : Over(s, kind, 0, 0)
  BY <1>1, <1>2, <1>3, <1>b DEF Shape
<1>c. CASE client[s].busy = "resumeWait" /\ UNCHANGED lost /\ Over(s, "events", 0, 0)
  BY <1>1, <1>2, <1>3, <1>c
<1> QED
  BY <1>a, <1>b, <1>c DEF Leaves

LEMMA StopsFacts ==
    ASSUME Shape, NEW s \in SessionId, Stops(s)
    PROVE  /\ UNCHANGED <<client, lost>>
           /\ emu'[s].process = "gone" /\ emu'[s].table = EmptyTable
           /\ emu'[s].pending = <<>> /\ emu'[s].replies = emu[s].replies
<1>1. GoodEmu(emu[s])
  BY DEF Shape
<1>2. emu'[s] = Closed(emu[s])
  BY DEF Stops, Shape
<1>3. emu'[s] = [process |-> "gone", table |-> EmptyTable, pending |-> <<>>,
                 replies |-> emu[s].replies]
  BY <1>1, <1>2, EmulatorEdits
<1> QED
  BY <1>3 DEF Stops

LEMMA ObeysFacts ==
    ASSUME Shape, NEW s \in SessionId, Obeys(s)
    PROVE  /\ UNCHANGED <<client, lost>>
           /\ emu[s].process = "up" /\ emu'[s].process = "up"
           /\ emu[s].pending # <<>> /\ emu'[s].pending = Tail(emu[s].pending)
           /\ \E o \in Outcomes(emu[s].table, Head(emu[s].pending)) :
                  /\ emu'[s].table = o.table
                  /\ emu'[s].replies =
                        Append(emu[s].replies,
                               [answers |-> client[s].sent - Len(emu[s].pending) + 1,
                                terminator |-> o.terminator, data |-> o.data])
<1>1. GoodEmu(emu[s])
  BY DEF Shape
<1>2. PICK o \in Outcomes(emu[s].table, Head(emu[s].pending)) :
          emu' = [emu EXCEPT
              ![s].table = o.table,
              ![s].pending = Tail(@),
              ![s].replies = Append(@,
                  [answers |-> client[s].sent - Len(emu[s].pending) + 1,
                   terminator |-> o.terminator, data |-> o.data])]
  BY DEF Obeys
<1> DEFINE reply == [answers |-> client[s].sent - Len(emu[s].pending) + 1,
                     terminator |-> o.terminator, data |-> o.data]
<1> HIDE DEF reply
<1>3. emu' = [emu EXCEPT ![s].table = o.table, ![s].pending = Tail(@),
                         ![s].replies = Append(@, reply)]
  BY <1>2 DEF reply
<1>4. /\ emu'[s].process = emu[s].process /\ emu'[s].table = o.table
      /\ emu'[s].pending = Tail(emu[s].pending)
      /\ emu'[s].replies = Append(emu[s].replies, reply)
  BY <1>1, <1>3 DEF Shape, GoodEmu
<1>5. emu[s].process = "up" /\ emu[s].pending # <<>> /\ UNCHANGED <<client, lost>>
  BY DEF Obeys
<1> QED
  BY <1>4, <1>5 DEF reply

LEMMA OrderStep ==
    ASSUME Shape, NEW s \in SessionId, OrderOf(s), ClientStep(s)
    PROVE  OrderOf(s)'
<1> DEFINE sent == client[s].sent
           handed == client[s].handed
           p == Len(emu[s].pending)
           r == Len(emu[s].replies)
<1>1. sent \in Nat /\ handed \in Nat /\ p \in Nat /\ r \in Nat
  BY SeqFacts DEF Shape, IsClient, GoodEmu
<1>2. IsSeq(emu[s].pending) /\ IsSeq(emu[s].replies) /\ DOMAIN emu[s].replies = 1..r
  BY SeqFacts DEF Shape, GoodEmu
<1>3. handed + p + r <= sent /\ (emu[s].process = "up" => sent = handed + p + r)
  BY DEF OrderOf
<1>4. Sure(s) => sent = handed + (IF InCall(s) THEN 1 ELSE 0)
  BY DEF OrderOf
<1> HIDE DEF sent, handed, p, r
<1>a. CASE Sends(s)
  <2>1. PICK line : emu'[s].pending = Append(emu[s].pending, line)
    BY <1>a, SendsFacts
  <2>2. Len(emu'[s].pending) = p + 1
    BY <1>2, <2>1, AppendFacts DEF p
  <2>3. /\ client'[s].sent = sent + 1 /\ client'[s].handed = handed /\ InCall(s)' /\ ~InCall(s)
        /\ client'[s].outcome = client[s].outcome
        /\ emu[s].process = "up" /\ emu'[s].process = "up" /\ emu'[s].replies = emu[s].replies
        /\ Sure(s)' <=> Sure(s)
    BY <1>a, SendsFacts DEF InCall, Sure, sent, handed
  <2>4. sent = handed + p + r /\ (Sure(s) => sent = handed)
    BY <1>1, <1>3, <1>4, <2>3
  <2>5. Len(emu'[s].replies) = r
    BY <2>3 DEF r
  <2>6. \A i \in DOMAIN emu'[s].replies : emu'[s].replies[i].answers = handed + i
    BY <2>3 DEF OrderOf, handed
  <2>7. Sure(s)' /\ client'[s].outcome.answers # 0 =>
            client'[s].outcome.answers = client'[s].outcome.command
    BY <2>3 DEF OrderOf
  <2> HIDE DEF OrderOf
  <2>8. handed + (p + 1) + r = sent + 1 /\ sent + 1 <= sent + 1
    BY <1>1, <2>4
  <2> QED
    BY <2>2, <2>3, <2>4, <2>5, <2>6, <2>7, <2>8 DEF OrderOf
<1>b. CASE Leaves(s)
  <2>1. /\ client'[s].sent = sent /\ client'[s].handed = handed /\ ~InCall(s)' /\ UNCHANGED emu
        /\ client'[s].outcome.answers = 0
        /\ Sure(s)' => Sure(s) /\ ~InCall(s)
    <3>1. PICK kind : client'[s].outcome = [kind |-> kind, command |-> client[s].sent,
                                            answers |-> 0, events |-> {}]
      BY <1>b, LeavesFacts
    <3>2. \/ client[s].busy \in {"idle", "resumeWait"} /\ UNCHANGED lost
          \/ lost'[s] = "now"
      BY <1>b, LeavesFacts
    <3>3. Sure(s)' => Sure(s) /\ ~InCall(s)
      BY <3>2 DEF Sure, InCall
    <3>4. /\ client'[s].sent = client[s].sent /\ client'[s].handed = client[s].handed
          /\ client'[s].busy = "idle" /\ UNCHANGED emu
      BY <1>b, LeavesFacts
    <3> QED
      BY <3>1, <3>3, <3>4 DEF InCall, sent, handed
  <2> QED
    BY <1>1, <1>4, <2>1 DEF OrderOf, sent, handed
<1>c. CASE Takes(s)
  <2> DEFINE answers == Head(emu[s].replies).answers
  <2>1. emu[s].replies # <<>> /\ emu'[s].replies = Tail(emu[s].replies)
    BY <1>c, TakesFacts
  <2>2. /\ r > 0 /\ Len(emu'[s].replies) = r - 1 /\ IsSeq(emu'[s].replies)
        /\ \A i \in DOMAIN emu'[s].replies :
               i + 1 \in DOMAIN emu[s].replies /\ emu'[s].replies[i] = emu[s].replies[i + 1]
        /\ 1 \in DOMAIN emu[s].replies /\ Head(emu[s].replies) = emu[s].replies[1]
    BY <1>2, <2>1, TailFacts DEF r
  <2>3. answers = handed + 1
    BY <2>2 DEF OrderOf, handed
  <2>4. /\ client'[s].sent = sent /\ client'[s].handed = handed + 1
        /\ emu'[s].process = emu[s].process /\ emu'[s].pending = emu[s].pending
        /\ Sure(s)' <=> Sure(s)
    BY <1>c, TakesFacts DEF Sure, sent, handed
  <2>5. /\ \/ client'[s].outcome = client[s].outcome
           \/ client'[s].outcome.answers \in {0, answers} /\ client'[s].outcome.command = sent
        /\ ~InCall(s)'
    <3>1. \/ client'[s].outcome = client[s].outcome
          \/ \E kind : \E number \in {0, answers} :
                 client'[s].outcome = [kind |-> kind, command |-> client[s].sent,
                                       answers |-> number, events |-> {}]
      BY <1>c, TakesFacts, ZenonT(40)
    <3>2. client'[s].busy \in {"idle", "resumeWait"}
      BY <1>c, TakesFacts
    <3>3. ASSUME NEW kind, NEW number \in {0, answers},
                 client'[s].outcome = [kind |-> kind, command |-> client[s].sent,
                                       answers |-> number, events |-> {}]
          PROVE  client'[s].outcome.answers \in {0, answers} /\ client'[s].outcome.command = sent
      BY <3>3 DEF sent
    <3>4. ~InCall(s)'
      BY <3>2 DEF InCall
    <3> QED
      BY <3>1, <3>3, <3>4
  <2> HIDE DEF answers
  <2>6. Sure(s) => InCall(s) /\ sent = handed + 1
    BY <1>1, <1>3, <1>4, <2>2
  <2>7. \A i \in DOMAIN emu'[s].replies : emu'[s].replies[i].answers = (handed + 1) + i
    <3>1. ASSUME NEW i \in DOMAIN emu'[s].replies
          PROVE  emu'[s].replies[i].answers = (handed + 1) + i
      <4>1. emu'[s].replies[i].answers = handed + (i + 1)
        BY <2>2 DEF OrderOf, handed
      <4>2. i + 1 \in 1..r /\ i \in Nat
        BY <1>2, <2>2, SeqFacts
      <4> QED
        BY <1>1, <4>1, <4>2
    <3> QED
      BY <3>1
  <2>8. /\ (handed + 1) + p + (r - 1) <= sent
        /\ emu[s].process = "up" => sent = (handed + 1) + p + (r - 1)
    BY <1>1, <1>3
  <2>9. Sure(s) /\ client'[s].outcome.answers # 0 =>
            client'[s].outcome.answers = client'[s].outcome.command
    BY <2>3, <2>5, <2>6 DEF OrderOf
  <2>10. (Sure(s) => client[s].sent = client[s].handed + (IF InCall(s) THEN 1 ELSE 0))'
    BY <1>1, <2>4, <2>5, <2>6
  <2> QED
    BY <2>2, <2>4, <2>7, <2>8, <2>9, <2>10 DEF OrderOf, p
<1>d. CASE Stops(s)
  <2>1. /\ UNCHANGED <<client, lost>> /\ emu'[s].process = "gone"
        /\ emu'[s].pending = <<>> /\ emu'[s].replies = emu[s].replies
    BY <1>d, StopsFacts
  <2>2. Len(emu'[s].pending) = 0
    BY <2>1, EmptyFacts
  <2>3. handed + 0 + r <= sent
    BY <1>1, <1>3
  <2> QED
    BY <2>1, <2>2, <2>3 DEF OrderOf, Sure, InCall, sent, handed, r
<1>e. CASE Obeys(s)
  <2>0. PICK o \in Outcomes(emu[s].table, Head(emu[s].pending)) :
            emu'[s].replies =
                Append(emu[s].replies,
                       [answers |-> client[s].sent - Len(emu[s].pending) + 1,
                        terminator |-> o.terminator, data |-> o.data])
    BY <1>e, ObeysFacts
  <2> DEFINE reply == [answers |-> client[s].sent - Len(emu[s].pending) + 1,
                       terminator |-> o.terminator, data |-> o.data]
  <2>1. /\ emu'[s].replies = Append(emu[s].replies, reply)
        /\ reply.answers = client[s].sent - Len(emu[s].pending) + 1
    BY <2>0
  <2> HIDE DEF reply
  <2>2. /\ UNCHANGED <<client, lost>> /\ emu[s].process = "up" /\ emu'[s].process = "up"
        /\ emu[s].pending # <<>> /\ emu'[s].pending = Tail(emu[s].pending)
    BY <1>e, ObeysFacts
  <2>3. p > 0 /\ Len(emu'[s].pending) = p - 1
    BY <1>2, <2>2, TailFacts DEF p
  <2>4. /\ Len(emu'[s].replies) = r + 1
        /\ \A i \in DOMAIN emu'[s].replies :
               (i \in DOMAIN emu[s].replies /\ emu'[s].replies[i] = emu[s].replies[i])
                   \/ (i = r + 1 /\ emu'[s].replies[i] = reply)
    BY <1>2, <2>1, AppendFacts DEF r
  <2>5. reply.answers = handed + (r + 1)
    <3>1. reply.answers = sent - p + 1 /\ sent = handed + p + r
      BY <1>3, <2>1, <2>2 DEF sent, p
    <3> QED
      BY <1>1, <3>1
  <2>6. \A i \in DOMAIN emu'[s].replies : emu'[s].replies[i].answers = handed + i
    BY <2>4, <2>5 DEF OrderOf, handed
  <2>7. sent = handed + (p - 1) + (r + 1)
    BY <1>1, <1>3, <2>2
  <2> QED
    BY <1>1, <2>2, <2>3, <2>4, <2>6, <2>7 DEF OrderOf, Sure, InCall, sent, handed
<1>f. CASE Respawned(s)
  <2>1. client'[s] = NewClient /\ emu'[s] = NewEmulator
    BY <1>f, RespawnedFacts
  <2>2. /\ client'[s].sent = 0 /\ client'[s].handed = 0 /\ client'[s].busy = "idle"
        /\ client'[s].outcome.answers = 0
        /\ emu'[s].pending = <<>> /\ emu'[s].replies = <<>>
    BY <2>1 DEF NewClient, NewEmulator
  <2> QED
    BY <2>2, EmptyFacts DEF OrderOf, InCall
<1> QED
  BY <1>a, <1>b, <1>c, <1>d, <1>e, <1>f DEF ClientStep

\* Where no call of a session is over its time, the oldest reply is that to its command.
ServiceInv == Shape /\ ToolInv /\ OrderInv

LEMMA ServiceInit == Init => ServiceInv
<1> SUFFICES ASSUME Init PROVE ServiceInv
  OBVIOUS
<1>1. \A s \in SessionId : OrderOf(s)
  <2> SUFFICES ASSUME NEW s \in SessionId PROVE OrderOf(s)
    OBVIOUS
  <2>1. client[s] = NewClient /\ emu[s] = Closed(NewEmulator)
    BY DEF Init
  <2>2. GoodEmu(NewEmulator)
    BY EmptyTableGood, EmptyFacts DEF GoodEmu, NewEmulator
  <2>3. /\ emu[s].process = "gone" /\ emu[s].pending = <<>>
        /\ emu[s].replies = NewEmulator.replies
    <3>1. Closed(NewEmulator)
              = [process |-> "gone", table |-> EmptyTable, pending |-> <<>>,
                 replies |-> NewEmulator.replies]
      BY <2>2, EmulatorEdits
    <3>2. emu[s] = [process |-> "gone", table |-> EmptyTable, pending |-> <<>>,
                    replies |-> NewEmulator.replies]
      BY <2>1, <3>1, Zenon
    <3> QED
      BY <3>2
  <2>4. NewEmulator.replies = <<>>
    BY DEF NewEmulator
  <2>5. /\ client[s].sent = 0 /\ client[s].handed = 0 /\ ~InCall(s)
        /\ client[s].outcome.answers = 0
    BY <2>1 DEF NewClient, InCall
  <2> QED
    BY <2>3, <2>4, <2>5, EmptyFacts DEF OrderOf
<1> QED
  BY <1>1, InitFacts DEF ServiceInv, OrderInv

LEMMA ServiceNext == ServiceInv /\ [Next]_vars => ServiceInv'
<1> SUFFICES ASSUME ServiceInv, [Next]_vars PROVE ServiceInv'
  OBVIOUS
<1> USE DEF ServiceInv
<1>1. CASE Next
  <2>1. Shape' /\ ToolInv'
    BY <1>1, NextFacts
  <2>2. PICK s \in SessionId : ClientStep(s) \/ Kept
    BY <1>1, NextFacts
  <2>3. ASSUME NEW t \in SessionId PROVE OrderOf(t)'
    <3>1. OrderOf(t)
      BY DEF OrderInv
    <3>2. CASE client'[t] = client[t] /\ emu'[t] = emu[t] /\ lost'[t] = lost[t]
      BY <3>1, <3>2 DEF OrderOf, InCall, Sure
    <3>3. CASE ClientStep(s)
      BY <3>1, <3>2, <3>3, OrderStep, ClientStepFacts
    <3>4. CASE Kept
      BY <3>2, <3>4 DEF Kept
    <3> QED
      BY <2>2, <3>3, <3>4
  <2> QED
    BY <2>1, <2>3 DEF OrderInv
<1>2. CASE UNCHANGED vars
  <2>1. OrderInv'
    BY <1>2 DEF OrderInv, OrderOf, InCall, Sure, vars
  <2> QED
    BY <1>2, <2>1, StutterFacts
<1> QED
  BY <1>1, <1>2

LEMMA ServiceAlways == Spec => []ServiceInv
BY ServiceInit, ServiceNext, PTL DEF Spec

LEMMA TypesOfService == ServiceInv => TypeOK
<1> SUFFICES ASSUME ServiceInv PROVE TypeOK
  OBVIOUS
<1>1. Shape /\ ToolInv
  BY DEF ServiceInv
<1>2. ASSUME NEW s \in SessionId
      PROVE  /\ client[s].sent \in Nat /\ client[s].handed \in 0..client[s].sent
             /\ client[s].busy # "idle" <=>
                   tool # NoTool /\ tool.session = s /\ tool.stage = "reply"
             /\ emu[s].process \in {"up", "gone"}
             /\ emu[s].process = "up" =>
                   client[s].sent
                       = client[s].handed + Len(emu[s].pending) + Len(emu[s].replies)
             /\ Len(emu[s].table.bps) <= MaxBreakpoints
             /\ DOMAIN emu[s].table.wps = Slot
  <2>1. GoodEmu(emu[s]) /\ IsClient(client[s]) /\ OrderOf(s)
    BY <1>1 DEF Shape, ServiceInv, OrderInv
  <2>2. Len(emu[s].pending) \in Nat /\ Len(emu[s].replies) \in Nat
    BY <2>1, SeqFacts DEF GoodEmu
  <2>3. client[s].sent \in Nat /\ client[s].handed \in Nat
    BY <2>1 DEF IsClient
  <2>4. client[s].handed + Len(emu[s].pending) + Len(emu[s].replies) <= client[s].sent
    BY <2>1 DEF OrderOf
  <2>5. client[s].handed \in 0..client[s].sent
    BY <2>2, <2>3, <2>4
  <2>6. client[s].busy # "idle" <=> tool # NoTool /\ tool.session = s /\ tool.stage = "reply"
    BY <1>1 DEF ToolInv, BusyWith, Waiting, Calling, Idle
  <2>7. Len(emu[s].table.bps) <= MaxBreakpoints /\ DOMAIN emu[s].table.wps = Slot
    BY <2>1 DEF GoodEmu, GoodTable
  <2>8. emu[s].process \in {"up", "gone"}
    BY <2>1 DEF GoodEmu
  <2> QED
    BY <2>1, <2>3, <2>5, <2>6, <2>7, <2>8 DEF OrderOf
<1> QED
  BY <1>1, <1>2 DEF TypeOK, Shape

\* Tools keeps its types, and a call of a client is in progress exactly while its tool
\* waits for a reply (server.py: _getClient, and each tool awaits its client's method).
THEOREM TypeCorrect == Spec => []TypeOK
BY ServiceAlways, TypesOfService, PTL

\* A call gets the reply to its own command unless a call of its session has given up
\* since that session's emulator was started, whatever the other sessions do.
THEOREM RepliesOfOwnSession == Spec => []SessionsApart
<1>1. ServiceInv => SessionsApart
  BY DEF ServiceInv, OrderInv, OrderOf, SessionsApart
<1> QED
  BY <1>1, ServiceAlways, PTL

-----------------------------------------------------------------------------
(* Each client is what CommandService describes. *)

LEMMA ServiceStep ==
    ASSUME ServiceInv, NEW s \in SessionId, ClientStep(s)
    PROVE  S(s)!Next \/ S(s)!Init' \/ UNCHANGED client[s]
<1>1. Shape /\ OrderOf(s)
  BY DEF ServiceInv, OrderInv
<1>2. IsClient(client[s]) /\ GoodEmu(emu[s])
  BY <1>1 DEF Shape
<1> DEFINE answers == Head(emu[s].replies).answers
<1>3. emu[s].replies # <<>> =>
          answers = client[s].handed + 1 /\ client[s].handed < client[s].sent
  <2> SUFFICES ASSUME emu[s].replies # <<>>
               PROVE  answers = client[s].handed + 1 /\ client[s].handed < client[s].sent
    OBVIOUS
  <2>1. 1 \in DOMAIN emu[s].replies /\ Head(emu[s].replies) = emu[s].replies[1]
        /\ Len(emu[s].replies) > 0
    BY <1>2, TailFacts DEF GoodEmu
  <2>2. Len(emu[s].pending) \in Nat /\ Len(emu[s].replies) \in Nat
    BY <1>2, SeqFacts DEF GoodEmu
  <2>3. client[s].handed + Len(emu[s].pending) + Len(emu[s].replies) <= client[s].sent
        /\ answers = client[s].handed + 1
    BY <1>1, <2>1 DEF OrderOf
  <2> QED
    BY <1>2, <2>1, <2>2, <2>3 DEF IsClient
<1> HIDE DEF answers
<1>a. CASE Sends(s)
  <2>1. \E call \in {"loop", "resumeLoop"} : S(s)!Call(call)
    BY <1>1, <1>a, SendsFacts DEF S!Call
  <2> QED
    BY <2>1 DEF S!Next
<1>b. CASE Leaves(s)
  <2>1. PICK kind \in {"BrokenPipeError", "TimeoutError", "EOFError", "events"} :
            /\ client'[s].outcome = [kind |-> kind, command |-> client[s].sent,
                                     answers |-> 0, events |-> {}]
            /\ kind = "BrokenPipeError" => client[s].busy = "idle"
            /\ kind = "events" => client[s].busy = "resumeWait"
            /\ kind \in {"TimeoutError", "EOFError"} => client[s].busy # "idle"
    BY <1>1, <1>b, LeavesFacts
  <2>2. /\ client'[s].sent = client[s].sent /\ client'[s].handed = client[s].handed
        /\ client'[s].busy = "idle"
    BY <1>1, <1>b, LeavesFacts
  <2>3. CASE kind \in {"BrokenPipeError", "TimeoutError", "EOFError"}
    <3>1. S(s)!GiveUp
      BY <2>1, <2>2, <2>3 DEF S!GiveUp, S!Raised, S!Finish
    <3> QED
      BY <3>1 DEF S!Next
  <2>4. CASE kind = "events"
    <3>1. S(s)!Observe
      BY <2>1, <2>2, <2>4 DEF S!Observe, S!Returned, S!Finish
    <3> QED
      BY <3>1 DEF S!Next
  <2> QED
    BY <2>3, <2>4
<1>c. CASE Takes(s)
  <2>1. /\ client'[s].sent = client[s].sent /\ client'[s].handed = client[s].handed + 1
        /\ answers = client[s].handed + 1 /\ client[s].handed < client[s].sent
    BY <1>1, <1>3, <1>c, TakesFacts
  <2> DEFINE Outcome(kind, number) == [kind |-> kind, command |-> client[s].sent,
                                       answers |-> number, events |-> {}]
  <2>2. \/ /\ InCall(s) /\ client'[s].busy = "idle"
           /\ client'[s].outcome = Outcome("X16dbgError", 0)
        \/ /\ client[s].busy = "loop" /\ client'[s].busy = "idle"
           /\ client'[s].outcome = Outcome("reply", answers)
        \/ /\ client[s].busy \in {"resumeLoop", "resumeWait"}
           /\ client'[s].busy = "idle"
           /\ client'[s].outcome = Outcome("events", answers)
        \/ /\ client[s].busy = "resumeLoop" /\ client'[s].busy = "resumeWait"
           /\ client'[s].outcome = client[s].outcome
    BY <1>1, <1>c, TakesFacts DEF answers
  <2>3. CASE /\ InCall(s) /\ client'[s].busy = "idle"
             /\ client'[s].outcome = Outcome("X16dbgError", 0)
    <3>1. S(s)!Refuse
      BY <2>1, <2>3 DEF S!Refuse, S!HandNext, S!Raised, S!Finish, InCall
    <3> QED
      BY <3>1 DEF S!Next
  <2>4. CASE /\ client[s].busy = "loop" /\ client'[s].busy = "idle"
             /\ client'[s].outcome = Outcome("reply", answers)
    <3>1. S(s)!Reply
      BY <2>1, <2>4 DEF S!Reply, S!HandNext, S!Returned, S!Finish
    <3> QED
      BY <3>1 DEF S!Next
  <2>5. CASE /\ client[s].busy = "resumeLoop" /\ client'[s].busy = "idle"
             /\ client'[s].outcome = Outcome("events", answers)
    <3>1. S(s)!ResumeReply
      BY <2>1, <2>5 DEF S!ResumeReply, S!HandNext, S!Returned, S!Finish
    <3> QED
      BY <3>1 DEF S!Next
  <2>6. CASE /\ client[s].busy = "resumeWait" /\ client'[s].busy = "idle"
             /\ client'[s].outcome = Outcome("events", answers)
    <3>1. S(s)!Observe
      BY <2>1, <2>6 DEF S!Observe, S!HandNext, S!Returned, S!Finish
    <3> QED
      BY <3>1 DEF S!Next
  <2>7. CASE /\ client[s].busy = "resumeLoop" /\ client'[s].busy = "resumeWait"
             /\ client'[s].outcome = client[s].outcome
    <3>1. S(s)!ResumeWaits
      BY <2>1, <2>7 DEF S!ResumeWaits, S!HandNext
    <3> QED
      BY <3>1 DEF S!Next
  <2> QED
    BY <2>2, <2>3, <2>4, <2>5, <2>6, <2>7
<1>d. CASE Stops(s) \/ Obeys(s)
  BY <1>d DEF Stops, Obeys
<1>e. CASE Respawned(s)
  <2>1. client'[s] = NewClient
    BY <1>1, <1>e, RespawnedFacts
  <2>2. S(s)!Init'
    BY <2>1 DEF S!Init, NewClient
  <2> QED
    BY <2>2
<1> QED
  BY <1>a, <1>b, <1>c, <1>d, <1>e DEF ClientStep

\* The client of each session is at every step what CommandService describes, or is
\* replaced by a new one (transport.py, command and resumeCollectingEvents).
THEOREM ClientsAreServices == Spec => UsesService
<1>1. Init => \A s \in SessionId : S(s)!Init
  BY DEF Init, NewClient, S!Init
<1>2. ServiceInv /\ [Next]_vars =>
          [\A s \in SessionId : S(s)!Next \/ S(s)!Init' \/ UNCHANGED client[s]]_vars
  <2> SUFFICES ASSUME ServiceInv, Next, NEW t \in SessionId
               PROVE  S(t)!Next \/ S(t)!Init' \/ UNCHANGED client[t]
    OBVIOUS
  <2>1. PICK s \in SessionId : ClientStep(s) \/ Kept
    BY NextFacts DEF ServiceInv
  <2>2. CASE ClientStep(s) /\ s = t
    BY <2>2, ServiceStep
  <2>3. CASE ClientStep(s) /\ s # t
    BY <2>3, ClientStepFacts DEF ServiceInv
  <2>4. CASE Kept
    BY <2>4 DEF Kept
  <2> QED
    BY <2>1, <2>2, <2>3, <2>4
<1> QED
  BY <1>1, <1>2, ServiceAlways, PTL DEF Spec, UsesService

-----------------------------------------------------------------------------
(* The line of the call in progress. *)

\* Between its calls, a session whose calls have not given up has nothing under way.
LEMMA QuietFacts ==
    ASSUME Shape, NEW s \in SessionId, OrderOf(s), Sure(s)
    PROVE  /\ ~InCall(s) => emu[s].pending = <<>>
           /\ ~InCall(s) => emu[s].replies = <<>>
           /\ emu[s].pending # <<>> => Len(emu[s].pending) = 1 /\ emu[s].replies = <<>>
           /\ emu[s].replies # <<>> => emu[s].pending = <<>> /\ Len(emu[s].replies) = 1
<1> DEFINE sent == client[s].sent
           handed == client[s].handed
           p == Len(emu[s].pending)
           r == Len(emu[s].replies)
<1>1. sent \in Nat /\ handed \in Nat
  BY DEF Shape, IsClient
<1>2. IsSeq(emu[s].pending) /\ IsSeq(emu[s].replies)
  BY DEF Shape, GoodEmu
<1>3. /\ p \in Nat /\ (emu[s].pending = <<>> <=> p = 0)
      /\ r \in Nat /\ (emu[s].replies = <<>> <=> r = 0)
  BY <1>2, SeqFacts
<1>4. handed + p + r <= sent /\ sent = handed + (IF InCall(s) THEN 1 ELSE 0)
  BY DEF OrderOf
<1> HIDE DEF sent, handed, p, r
<1>5. (~InCall(s) => p = 0 /\ r = 0) /\ (p > 0 => p = 1 /\ r = 0) /\ (r > 0 => p = 0 /\ r = 1)
  BY <1>1, <1>3, <1>4
<1>6. /\ ~InCall(s) => emu[s].pending = <<>> /\ emu[s].replies = <<>>
      /\ emu[s].pending # <<>> => p = 1 /\ emu[s].replies = <<>>
      /\ emu[s].replies # <<>> => emu[s].pending = <<>> /\ r = 1
  BY <1>3, <1>5
<1> QED
  BY <1>6 DEF p, r

\* The clients' calls that are in progress after a step.
LEMMA CallCases ==
    ASSUME ServiceInv, Next, NEW t \in SessionId, InCall(t)'
    PROVE  /\ tool' # NoTool /\ tool'.session = t /\ UNCHANGED <<view, lost>>
           /\ \/ /\ ~InCall(t) /\ Sends(t) /\ tool'.stage = "reply"
                 /\ emu'[t].pending = Append(emu[t].pending, LineOf(tool'.job))
              \/ /\ InCall(t) /\ UNCHANGED <<tool, client>>
                 /\ UNCHANGED emu[t] \/ Obey(t) \/ Stops(t)
<1> USE DEF ServiceInv
<1>1. PICK s \in SessionId :
          \/ CreateSession(s) \/ CloseSession(s) \/ BootProgram(s)
          \/ Start(s) \/ Work(s) \/ Obey(s) \/ Exit(s)
  BY DEF Next
<1>2. tool' # NoTool /\ tool'.session = t /\ tool'.stage = "reply"
  <2>1. ToolInv'
    BY NextFacts
  <2>2. client'[t].busy # "idle"
    BY DEF InCall
  <2> QED
    BY <2>1, <2>2 DEF ToolInv, BusyWith, Waiting, Calling, Idle
<1>3. ASSUME Sends(s), emu' = [emu EXCEPT ![s].pending = Append(@, LineOf(tool'.job))],
             tool'.session = s, UNCHANGED <<view, lost>>
      PROVE  /\ ~InCall(t) /\ Sends(t)
             /\ emu'[t].pending = Append(emu[t].pending, LineOf(tool'.job))
  <2>1. s = t
    BY <1>2, <1>3
  <2>2. ~InCall(t)
    BY <1>3, <2>1, SendsFacts DEF InCall
  <2>3. GoodEmu(emu[t])
    BY DEF Shape
  <2>4. emu'[t].pending = Append(emu[t].pending, LineOf(tool'.job))
    BY <1>3, <2>1, <2>3 DEF Shape, GoodEmu
  <2> QED
    BY <1>3, <2>1, <2>2, <2>4
<1>a. CASE CreateSession(s) \/ CloseSession(s) \/ BootProgram(s)
  BY <1>2, <1>a DEF CreateSession, CloseSession, BootProgram, MayCall, Idle
<1>b. CASE Start(s)
  <2>1. MayCall /\ Begins(s) /\ Idle
    BY <1>b, StartCases DEF MayCall
  <2>2. PICK job : IsJob(job) /\ Begin(s, job)
    BY <1>2, <2>1 DEF Begins, BeginFails, Idle
  <2>3. Sends(s) /\ tool'.session = s /\ tool'.job = job
    BY <2>1, <2>2, BeginStep
  <2>4. emu' = [emu EXCEPT ![s].pending = Append(@, LineOf(job))] /\ UNCHANGED <<view, lost>>
    BY <2>2 DEF Begin, Send
  <2> QED
    BY <1>2, <1>3, <2>3, <2>4
<1>c. CASE Work(s)
  <2>1. CASE NextLine(s)
    <3>1. /\ emu[s].process = "up" /\ Send(s, tool.job)
          /\ tool' = [tool EXCEPT !.stage = "reply", !.left = @ - 1]
      BY <1>2, <2>1 DEF NextLine, Ends
    <3>2. /\ IsTool /\ Calling(s) /\ tool.session = s /\ tool.stage = "line"
          /\ UNCHANGED <<view, lost>>
      BY <2>1 DEF NextLine, Calling, ToolInv
    <3>3. tool'.job = tool.job /\ tool'.session = s
      BY <3>1, <3>2 DEF IsTool
    <3>4. emu' = [emu EXCEPT ![s].pending = Append(@, LineOf(tool.job))]
      BY <3>1 DEF Send
    <3>5. client[s].busy = "idle"
      BY <3>2 DEF ToolInv, BusyWith, Waiting
    <3>6. Sends(s)
      BY <2>1, <3>1, <3>2, <3>4, <3>5 DEF Sends, Send
    <3> QED
      BY <1>2, <1>3, <3>2, <3>3, <3>4, <3>6
  <2>2. CASE Replied(s)
    <3>1. ~Idle /\ IsTool
      BY <2>2 DEF Replied, ToolInv
    <3>2. \/ tool' = [tool EXCEPT !.stage = "line"]
          \/ \E file : tool' = [tool EXCEPT !.stage = "file", !.file = file]
          \/ tool' = NoTool
      BY <2>2 DEF Replied, Ends
    <3> QED
      BY <1>2, <3>1, <3>2 DEF IsTool
  <2>3. CASE Resumed(s)
    <3>1. /\ client' = [client EXCEPT ![s].busy = "resumeWait", ![s].handed = @ + 1]
          /\ UNCHANGED tool /\ tool.session = s
      BY <1>2, <2>3 DEF Resumed, Ends, Answers
    <3>2. IsClient(client[s])
      BY DEF Shape
    <3>3. client'[s].busy = "resumeWait"
      BY <3>1, <3>2 DEF Shape, IsClient
    <3> QED
      BY <1>2, <3>1, <3>3 DEF InCall
  <2>4. CASE Refused(s) \/ OpenFile(s) \/ Observed(s) \/ GiveUp(s)
    BY <1>2, <2>4 DEF Refused, OpenFile, Observed, GiveUp, Ends
  <2> QED
    BY <1>c, <2>1, <2>2, <2>3, <2>4 DEF Work
<1>d. CASE Obey(s) \/ Exit(s)
  <2>1. UNCHANGED <<tool, client, view, lost>>
    BY <1>d DEF Obey, Exit
  <2>2. InCall(t)
    BY <2>1 DEF InCall
  <2>3. s # t => UNCHANGED emu[t]
    BY <1>d DEF Obey, Exit, Shape
  <2>4. s = t => Obey(t) \/ Stops(t)
    BY <1>d DEF Exit, Stops
  <2> QED
    BY <1>2, <2>1, <2>2, <2>3, <2>4
<1> QED
  BY <1>1, <1>a, <1>b, <1>c, <1>d

\* While no call of a session has given up, a line not yet obeyed is that of its tool.
LineInv ==
    \A s \in SessionId :
        Sure(s) /\ InCall(s) =>
            \A i \in DOMAIN emu[s].pending : emu[s].pending[i] = LineOf(tool.job)

LEMMA LineNext ==
    ASSUME ServiceInv, LineInv, Next
    PROVE  LineInv'
<1> SUFFICES ASSUME NEW s \in SessionId, Sure(s)', InCall(s)'
             PROVE  \A i \in DOMAIN emu'[s].pending : emu'[s].pending[i] = LineOf(tool'.job)
  BY DEF LineInv
<1>1. Shape /\ OrderOf(s) /\ Sure(s) /\ IsSeq(emu[s].pending)
  BY CallCases DEF ServiceInv, OrderInv, Sure, Shape, GoodEmu
<1>2. CASE /\ ~InCall(s)
           /\ emu'[s].pending = Append(emu[s].pending, LineOf(tool'.job))
  <2>1. emu[s].pending = <<>>
    BY <1>1, <1>2, QuietFacts
  <2> QED
    BY <1>1, <1>2, <2>1, AppendFacts, EmptyFacts
<1>3. CASE InCall(s) /\ UNCHANGED tool /\ UNCHANGED emu[s]
  BY <1>1, <1>3 DEF LineInv
<1>4. CASE InCall(s) /\ UNCHANGED tool /\ Obey(s)
  <2>1. Obeys(s)
    BY <1>4 DEF Obey, Obeys
  <2>2. emu[s].pending # <<>> /\ emu'[s].pending = Tail(emu[s].pending)
    BY <1>1, <2>1, ObeysFacts
  <2>3. \A i \in DOMAIN emu'[s].pending :
            i + 1 \in DOMAIN emu[s].pending /\ emu'[s].pending[i] = emu[s].pending[i + 1]
    BY <1>1, <2>2, TailFacts
  <2> QED
    BY <1>1, <1>4, <2>3 DEF LineInv
<1>5. CASE Stops(s)
  <2>1. emu'[s].pending = <<>>
    BY <1>1, <1>5, StopsFacts
  <2> QED
    BY <2>1, EmptyFacts
<1> QED
  BY <1>2, <1>3, <1>4, <1>5, CallCases

-----------------------------------------------------------------------------
(* The files: none is left behind. *)

\* A file is that of the tool in progress, or it holds what a line wrote whose call had
\* given up.
FileInv ==
    \A f \in files :
        /\ f.of \in SessionId
        /\ \/ lost[f.of] # "never" /\ f.shot # 0
           \/ ~Idle /\ f.name = tool.job.file

LEMMA LossesStay ==
    ASSUME ServiceInv, Next, NEW t \in SessionId, lost[t] # "never"
    PROVE  lost'[t] # "never"
<1> USE DEF ServiceInv
<1>1. PICK s \in SessionId : ClientStep(s) \/ Kept
  BY NextFacts
<1>2. CASE ClientStep(s) /\ s # t
  BY <1>2, ClientStepFacts
<1>3. CASE ClientStep(s) /\ s = t
  <2>1. CASE Sends(s)
    BY <2>1, <1>3 DEF Sends
  <2>2. CASE Leaves(s)
    BY <2>2, <1>3, LeavesFacts
  <2>3. CASE Takes(s) \/ Stops(s) \/ Obeys(s)
    BY <2>3, <1>3 DEF Takes, Stops, Obeys
  <2>4. CASE Respawned(s)
    BY <2>4, <1>3 DEF Respawned, Shape
  <2> QED
    BY <1>3, <2>1, <2>2, <2>3, <2>4 DEF ClientStep
<1>4. CASE Kept
  BY <1>4 DEF Kept
<1> QED
  BY <1>1, <1>2, <1>3, <1>4

LEMMA FileCases ==
    ASSUME ServiceInv, Next
    PROVE  \/ UNCHANGED files /\ Idle /\ Idle'
           \/ ~Idle /\ Idle' /\ files' = {f \in files : f.name # tool.job.file}
           \/ ~Idle /\ ~Idle' /\ tool'.job = tool.job /\ UNCHANGED files
           \/ /\ Idle /\ ~Idle' /\ tool'.session \in SessionId /\ IsJob(tool'.job)
              /\ \A f \in files' :
                     \/ f \in files
                     \/ /\ tool'.job.file # 0
                        /\ f = [name |-> tool'.job.file, of |-> tool'.session, shot |-> 0]
           \/ UNCHANGED tool /\ \E s \in SessionId : Obey(s)
<1> USE DEF ServiceInv
<1> PICK s \in SessionId :
        \/ CreateSession(s) \/ CloseSession(s) \/ BootProgram(s)
        \/ Start(s) \/ Work(s) \/ Obey(s) \/ Exit(s)
  BY DEF Next
<1>a. CASE CreateSession(s) \/ CloseSession(s) \/ BootProgram(s)
  BY <1>a DEF CreateSession, CloseSession, BootProgram, MayCall, Idle
<1>b. CASE Start(s)
  <2>1. MayCall /\ Begins(s) /\ Idle
    BY <1>b, StartCases DEF MayCall
  <2>2. CASE UNCHANGED <<tool, files>>
    BY <2>1, <2>2 DEF Idle
  <2>3. ASSUME NEW job, IsJob(job), Begin(s, job)
        PROVE  /\ Idle /\ ~Idle' /\ tool'.session \in SessionId /\ IsJob(tool'.job)
               /\ \A f \in files' :
                      \/ f \in files
                      \/ /\ tool'.job.file # 0
                         /\ f = [name |-> tool'.job.file, of |-> tool'.session, shot |-> 0]
    <3>1. tool'.session = s /\ tool'.job = job /\ tool'.stage = "reply"
      BY <2>1, <2>3, BeginStep
    <3>2. ~Idle'
      BY <3>1 DEF Idle, NoTool
    <3> QED
      BY <2>1, <2>3, <3>1, <3>2 DEF Begin
  <2> QED
    BY <2>1, <2>2, <2>3 DEF Begins, BeginFails
<1>c. CASE Work(s)
  <2>1. ~Idle /\ IsTool
    BY <1>c DEF Work, Refused, Replied, NextLine, OpenFile, Resumed, Observed, GiveUp, ToolInv
  <2>2. ASSUME NEW error, NEW value, Ends(s, error, value)
        PROVE  ~Idle /\ Idle' /\ files' = {f \in files : f.name # tool.job.file}
    BY <2>1, <2>2 DEF Ends, Idle
  <2>3. CASE Refused(s) \/ OpenFile(s) \/ Observed(s) \/ GiveUp(s)
    BY <2>2, <2>3 DEF Refused, OpenFile, Observed, GiveUp
  <2>4. ASSUME UNCHANGED files, NEW stage \in {"line", "file", "reply"},
               tool'.job = tool.job, tool'.stage = stage
        PROVE  ~Idle /\ ~Idle' /\ tool'.job = tool.job /\ UNCHANGED files
    BY <2>1, <2>4 DEF Idle, NoTool
  <2>5. CASE Replied(s)
    <3>1. \/ tool' = [tool EXCEPT !.stage = "line"] /\ UNCHANGED files
          \/ UNCHANGED files /\ \E file : tool' = [tool EXCEPT !.stage = "file", !.file = file]
          \/ \E error, value : Ends(s, error, value)
      BY <2>5 DEF Replied
    <3>2. CASE tool' = [tool EXCEPT !.stage = "line"] /\ UNCHANGED files
      <4>1. tool'.job = tool.job /\ tool'.stage = "line"
        BY <2>1, <3>2 DEF IsTool
      <4> QED
        BY <2>4, <3>2, <4>1
    <3>3. CASE UNCHANGED files /\ \E file : tool' = [tool EXCEPT !.stage = "file", !.file = file]
      <4>1. tool'.job = tool.job /\ tool'.stage = "file"
        BY <2>1, <3>3 DEF IsTool
      <4> QED
        BY <2>4, <3>3, <4>1
    <3> QED
      BY <2>2, <3>1, <3>2, <3>3
  <2>6. CASE NextLine(s)
    <3>1. CASE tool' = [tool EXCEPT !.stage = "reply", !.left = @ - 1] /\ UNCHANGED files
      <4>1. tool'.job = tool.job /\ tool'.stage = "reply"
        BY <2>1, <3>1 DEF IsTool
      <4> QED
        BY <2>4, <3>1, <4>1
    <3>2. CASE Ends(s, "BrokenPipeError", <<>>)
      BY <2>2, <3>2
    <3> QED
      BY <2>6, <3>1, <3>2 DEF NextLine
  <2>7. CASE Resumed(s)
    <3>1. CASE UNCHANGED <<tool, files>>
      BY <2>1, <3>1 DEF Idle
    <3> QED
      BY <2>2, <2>7, <3>1 DEF Resumed
  <2> QED
    BY <1>c, <2>3, <2>5, <2>6, <2>7 DEF Work
<1>d. CASE Obey(s)
  BY <1>d DEF Obey
<1>e. CASE Exit(s)
  BY <1>e DEF Exit, Idle
<1> QED
  BY <1>a, <1>b, <1>c, <1>d, <1>e

LEMMA LineFacts ==
    ASSUME NEW job
    PROVE  LineOf(job).cmd = job.cmd /\ LineOf(job).file = job.file
BY DEF LineOf

\* The file a line has written, if it has, is named by the line and numbered by it.
LEMMA ObeyFiles ==
    ASSUME ServiceInv, NEW s \in SessionId, Obey(s)
    PROVE  LET line == Head(emu[s].pending)
               n == client[s].sent - Len(emu[s].pending) + 1
           IN  /\ emu[s].pending # <<>> /\ line = emu[s].pending[1]
               /\ 1 \in DOMAIN emu[s].pending
               /\ n \in Nat \ {0}
               /\ Sure(s) => InCall(s) /\ n = client[s].sent
               /\ \/ UNCHANGED files
                  \/ /\ line.cmd = "scr"
                     /\ files' = {f \in files : f.name # line.file}
                                   \cup {[name |-> line.file, of |-> s, shot |-> n]}
<1> DEFINE line == Head(emu[s].pending)
           n == client[s].sent - Len(emu[s].pending) + 1
           sent == client[s].sent
           handed == client[s].handed
           p == Len(emu[s].pending)
           r == Len(emu[s].replies)
<1>1. /\ Shape /\ OrderOf(s) /\ IsSeq(emu[s].pending) /\ IsSeq(emu[s].replies)
      /\ emu[s].pending # <<>> /\ emu[s].process = "up"
  BY DEF ServiceInv, OrderInv, Shape, GoodEmu, Obey
<1>2. sent \in Nat /\ handed \in Nat
  BY <1>1 DEF Shape, IsClient
<1>3. p \in Nat /\ r \in Nat /\ p > 0 /\ line = emu[s].pending[1] /\ 1 \in DOMAIN emu[s].pending
  BY <1>1, SeqFacts, TailFacts
<1>4. sent = handed + p + r
  BY <1>1 DEF OrderOf
<1>5. Sure(s) => InCall(s) /\ p = 1
  BY <1>1, QuietFacts
<1>6. \/ UNCHANGED files
      \/ /\ line.cmd = "scr"
         /\ files' = {f \in files : f.name # line.file}
                       \cup {[name |-> line.file, of |-> s, shot |-> n]}
  BY DEF Obey
<1>7. n = sent - p + 1
  OBVIOUS
<1> HIDE DEF line, n, sent, handed, p, r
<1>8. n \in Nat \ {0} /\ (p = 1 => n = sent)
  BY <1>2, <1>3, <1>4, <1>7
<1>9. Sure(s) => InCall(s) /\ n = sent
  BY <1>5, <1>8
<1> QED
  BY <1>1, <1>3, <1>6, <1>8, <1>9 DEF line, n, sent

LEMMA FileNext ==
    ASSUME ServiceInv, LineInv, FileInv, Next
    PROVE  FileInv'
<1> SUFFICES ASSUME NEW f \in files'
             PROVE  /\ f.of \in SessionId
                    /\ \/ lost'[f.of] # "never" /\ f.shot # 0
                       \/ ~Idle' /\ f.name = tool'.job.file
  BY DEF FileInv
<1>1. f \in files => /\ f.of \in SessionId
                     /\ \/ lost'[f.of] # "never" /\ f.shot # 0
                        \/ ~Idle /\ f.name = tool.job.file
  BY LossesStay DEF FileInv
<1>2. CASE UNCHANGED files /\ Idle /\ Idle'
  BY <1>1, <1>2
<1>3. CASE ~Idle /\ Idle' /\ files' = {g \in files : g.name # tool.job.file}
  BY <1>1, <1>3
<1>4. CASE ~Idle /\ ~Idle' /\ tool'.job = tool.job /\ UNCHANGED files
  BY <1>1, <1>4
<1>5. CASE /\ Idle /\ ~Idle' /\ tool'.session \in SessionId
           /\ \A g \in files' :
                  \/ g \in files
                  \/ /\ tool'.job.file # 0
                     /\ g = [name |-> tool'.job.file, of |-> tool'.session, shot |-> 0]
  BY <1>1, <1>5
<1>6. ASSUME UNCHANGED tool, NEW s \in SessionId, Obey(s)
      PROVE  /\ f.of \in SessionId
             /\ \/ lost'[f.of] # "never" /\ f.shot # 0
                \/ ~Idle' /\ f.name = tool'.job.file
  <2> DEFINE line == Head(emu[s].pending)
             n == client[s].sent - Len(emu[s].pending) + 1
  <2>1. /\ line = emu[s].pending[1] /\ 1 \in DOMAIN emu[s].pending /\ n \in Nat \ {0}
        /\ Sure(s) => InCall(s)
        /\ f \in files \/ f = [name |-> line.file, of |-> s, shot |-> n]
    BY <1>6, ObeyFiles
  <2>2. Idle' <=> Idle
    BY <1>6 DEF Idle
  <2>3. CASE f \in files
    BY <1>1, <1>6, <2>2, <2>3
  <2>4. CASE f = [name |-> line.file, of |-> s, shot |-> n]
    <3>1. f.name = line.file /\ f.of = s /\ f.shot = n
      BY <2>4
    <3>2. CASE lost[s] # "never"
      BY <2>1, <3>1, <3>2, LossesStay
    <3>3. CASE lost[s] = "never"
      <4>1. Sure(s) /\ InCall(s)
        BY <2>1, <3>3 DEF Sure
      <4>2. line = LineOf(tool.job)
        BY <2>1, <4>1 DEF LineInv
      <4>3. ~Idle
        BY <4>1 DEF ServiceInv, ToolInv, BusyWith, Waiting, Calling, InCall
      <4> QED
        BY <1>6, <2>2, <3>1, <4>2, <4>3, LineFacts
    <3> QED
      BY <3>2, <3>3
  <2> QED
    BY <2>1, <2>3, <2>4
<1> QED
  BY <1>2, <1>3, <1>4, <1>5, <1>6, FileCases

\* Lines and files with the service they rest on.
FilesInv == ServiceInv /\ LineInv /\ FileInv

LEMMA FilesAlways == Spec => []FilesInv
<1>1. Init => FilesInv
  <2>1. Init => LineInv /\ FileInv
    BY DEF Init, LineInv, FileInv, InCall, NewClient
  <2> QED
    BY <2>1, ServiceInit DEF FilesInv
<1>2. FilesInv /\ [Next]_vars => FilesInv'
  <2>1. FilesInv /\ Next => FilesInv'
    BY ServiceNext, LineNext, FileNext DEF FilesInv
  <2>2. LineInv /\ FileInv /\ UNCHANGED vars => (LineInv /\ FileInv)'
    BY DEF LineInv, FileInv, vars, Sure, InCall, Idle
  <2> QED
    BY <2>1, <2>2, ServiceNext DEF FilesInv
<1> QED
  BY <1>1, <1>2, PTL DEF Spec

\* However a screenshot ends, its file is removed; what stays was written for a call that
\* had given up, and holds what was written (capture.py: the finally clause).
THEOREM FilesRemoved == Spec => []NoFileLeft
<1>1. FilesInv => NoFileLeft
  BY DEF FilesInv, FileInv, NoFileLeft
<1> QED
  BY <1>1, FilesAlways, PTL

-----------------------------------------------------------------------------
(* The names of the files: no two sessions share one. *)

NamesFile(reply, n) ==
    reply.data # <<>> /\ reply.data[1].type = "path" /\ reply.data[1].file = n

\* The session has that name to do with: it is the name of a file of its own, in a line
\* or a reply of its own, or with the tool that works for it.
Named(s, n) ==
    \/ \E f \in files : f.of = s /\ f.name = n
    \/ \E i \in DOMAIN emu[s].pending : emu[s].pending[i].file = n
    \/ \E i \in DOMAIN emu[s].replies : NamesFile(emu[s].replies[i], n)
    \/ Calling(s) /\ n \in {tool.job.file, tool.file}

NameInv ==
    /\ \A f \in files : f.of \in SessionId /\ f.name > 0
    /\ \A s \in SessionId : \A i \in DOMAIN emu[s].pending :
           emu[s].pending[i].cmd = "scr" => emu[s].pending[i].file > 0
    /\ \A s \in SessionId : \A n :
           Named(s, n) => /\ n \in -1..calls
                          /\ n > 0 => \A t \in SessionId \ {s} : ~Named(t, n)

\* No name of a file, or that of the file that is made in this step.
NewName(n) == n \in {-1, 0} \/ (n = calls + 1 /\ calls' = calls + 1)

\* A session has no names to do with in a step but those it had and a new one.
LEMMA NamesFrom ==
    ASSUME Shape, NEW s \in SessionId,
           \A t \in SessionId \ {s} : emu'[t] = emu[t],
           \A f \in files' : f \in files \/ (f.of = s /\ (Named(s, f.name) \/ NewName(f.name))),
           \A i \in DOMAIN emu'[s].pending :
               LET n == emu'[s].pending[i].file IN Named(s, n) \/ NewName(n),
           \A i \in DOMAIN emu'[s].replies : \A n :
               NamesFile(emu'[s].replies[i], n) => Named(s, n) \/ NewName(n),
           \/ tool' = tool \/ tool' = NoTool
           \/ tool'.session = s /\ \A n \in {tool'.job.file, tool'.file} : Named(s, n) \/ NewName(n),
           NEW t \in SessionId, NEW n, Named(t, n)'
    PROVE  Named(t, n) \/ (t = s /\ NewName(n))
<1>1. CASE \E f \in files' : f.of = t /\ f.name = n
  BY <1>1 DEF Named
<1>2. CASE \E i \in DOMAIN emu'[t].pending : emu'[t].pending[i].file = n
  <2>1. CASE t = s
    BY <1>2, <2>1
  <2>2. CASE t # s
    BY <1>2, <2>2 DEF Named
  <2> QED
    BY <2>1, <2>2
<1>3. CASE \E i \in DOMAIN emu'[t].replies : NamesFile(emu'[t].replies[i], n)
  <2>1. CASE t = s
    BY <1>3, <2>1
  <2>2. CASE t # s
    BY <1>3, <2>2 DEF Named
  <2> QED
    BY <2>1, <2>2
<1>4. CASE Calling(t)' /\ n \in {tool'.job.file, tool'.file}
  <2>1. tool' # NoTool /\ tool'.session = t
    BY <1>4 DEF Calling, Idle
  <2>2. CASE tool' = tool
    BY <1>4, <2>1, <2>2 DEF Named, Calling, Idle
  <2>3. CASE /\ tool'.session = s
             /\ \A k \in {tool'.job.file, tool'.file} : Named(s, k) \/ NewName(k)
    BY <1>4, <2>1, <2>3
  <2> QED
    BY <2>1, <2>2, <2>3
<1> QED
  BY <1>1, <1>2, <1>3, <1>4 DEF Named, NamesFile

LEMMA JobFacts ==
    ASSUME NEW job, IsJob(job)
    PROVE  /\ job.file \in Nat
           /\ job.cmd = "scr" => job.file > 0
           /\ job.name = "screenshot" => job.file > 0 /\ job.cmd = "scr"
<1>1. \A name : Job(name) = [name |-> name, cmd |-> Methods[name].cmd,
                           data |-> Methods[name].data, at |-> NoLocation, slot |-> NoSlot,
                           watch |-> NoWatch, condition |-> <<>>, file |-> 0]
  BY DEF Job
<1>2. "scr" \notin PointCommands /\ "scr" \notin ReadCommands
  BY PointMethods, ReadCommandsApart
<1>3. \A name \in PointTools : Methods[name].cmd \in PointCommands
  BY DEF PointCommands
<1>a. ASSUME NEW name \in PlainNames, job = Job(name)
      PROVE  job.file = 0 /\ job.cmd # "scr" /\ job.name # "screenshot"
  <2>1. name # "screenshot"
    BY NamesOther DEF PlainNames, Resuming
  <2>2. name \in DOMAIN Methods \ PointTools \/ name \in PointTools
    <3>1. {"clear_all_breakpoints", "list_breakpoints", "list_watchpoints"} \subseteq PointTools
      BY ClassDomains DEF PointTools
    <3> QED
      BY <3>1, NamesOther DEF PlainNames
  <2>3. Methods[name].cmd # "scr"
    BY <1>2, <1>3, <2>1, <2>2, OtherMethods
  <2> QED
    BY <1>1, <1>a, <2>1, <2>3
<1>b. ASSUME NEW n \in Nat \ {0}, job = [Job("screenshot") EXCEPT !.file = n]
      PROVE  job.file > 0 /\ job.cmd = "scr"
  <2>1. Methods["screenshot"].cmd = "scr"
    BY NamesOther, OtherMethods DEF Method
  <2> QED
    BY <1>1, <1>b, <2>1
<1>c. ASSUME NEW name \in PointTools,
             job.file = 0, job.cmd = Methods[name].cmd, job.name = name
      PROVE  job.file = 0 /\ job.cmd # "scr" /\ job.name # "screenshot"
  BY <1>2, <1>3, <1>c, NamesOther
<1>d. \/ \E name \in PlainNames : job = Job(name)
      \/ \E n \in Nat \ {0} : job = [Job("screenshot") EXCEPT !.file = n]
      \/ \E name \in PointTools :
             job.file = 0 /\ job.cmd = Methods[name].cmd /\ job.name = name
      \/ job.file = 0 /\ job.name = "x16db" /\ job.cmd \in ReadCommands
  <2>1. {"set_breakpoint", "clear_breakpoint", "enable_breakpoint", "disable_breakpoint",
         "set_watchpoint", "enable_watchpoint", "disable_watchpoint", "clear_watchpoint"}
            \subseteq PointTools
    BY ClassDomains DEF PointTools
  <2>2. ASSUME NEW at \in Location, NEW condition \in Condition,
               job = [Job("set_breakpoint") EXCEPT !.at = at, !.condition = condition]
        PROVE  job.file = 0 /\ job.cmd = Methods["set_breakpoint"].cmd
               /\ job.name = "set_breakpoint"
    BY <1>1, <2>2
  <2>3. ASSUME NEW name, NEW at \in Location, job = [Job(name) EXCEPT !.at = at]
        PROVE  job.file = 0 /\ job.cmd = Methods[name].cmd /\ job.name = name
    BY <1>1, <2>3
  <2>4. ASSUME NEW watch \in Watch, NEW condition \in Condition,
               job = [Job("set_watchpoint") EXCEPT !.watch = watch, !.condition = condition]
        PROVE  job.file = 0 /\ job.cmd = Methods["set_watchpoint"].cmd
               /\ job.name = "set_watchpoint"
    BY <1>1, <2>4
  <2>5. ASSUME NEW name, NEW slot, job = [Job(name) EXCEPT !.slot = slot]
        PROVE  job.file = 0 /\ job.cmd = Methods[name].cmd /\ job.name = name
    BY <1>1, <2>5
  <2>6. ASSUME NEW raw \in ReadCommands,
               job = [Job("state") EXCEPT !.name = "x16db", !.cmd = raw]
        PROVE  job.file = 0 /\ job.name = "x16db" /\ job.cmd \in ReadCommands
    BY <1>1, <2>6
  <2> QED
    BY <2>1, <2>2, <2>3, <2>4, <2>5, <2>6 DEF IsJob
<1>e. CASE job.file = 0 /\ job.cmd # "scr" /\ job.name # "screenshot"
  BY <1>e
<1>f. CASE \E n \in Nat \ {0} : job = [Job("screenshot") EXCEPT !.file = n]
  <2>1. PICK n \in Nat \ {0} : job = [Job("screenshot") EXCEPT !.file = n]
    BY <1>f
  <2>2. job.file = n
    BY <1>1, <2>1
  <2> QED
    BY <1>b, <2>1, <2>2
<1> QED
  BY <1>2, <1>a, <1>c, <1>d, <1>e, <1>f

\* Only scr is answered with the name of a file, and with the one that it was given.
LEMMA OutcomeNames ==
    ASSUME NEW table, GoodTable(table), NEW line, NEW o \in Outcomes(table, line),
           o.data # <<>>, o.data[1].type = "path"
    PROVE  line.cmd = "scr" /\ o.data[1].file = line.file
<1>1. \A t, data : Done(t, data).data = data
  BY DEF Done
<1>2. o # Refusal(table)
  BY DEF Refusal
<1>3. CASE line.cmd \in PointCommands
  <2>1. o \in Effects(table, line)
    BY <1>2, <1>3 DEF Outcomes
  <2>2. IsSeq(table.bps)
    BY DEF GoodTable
  <2>3. line.cmd = "lbp" => FALSE
    <3>1. SUFFICES ASSUME line.cmd = "lbp" PROVE FALSE
      OBVIOUS
    <3>2. o.data = BpRows(table.bps)
      BY <1>1, <2>1, <3>1 DEF Effects
    <3>3. IsSeq(BpRows(table.bps)) /\ DOMAIN BpRows(table.bps) = DOMAIN table.bps
      BY <2>2, MapFacts DEF BpRows
    <3>4. 1 \in DOMAIN table.bps
      BY <3>2, <3>3, TailFacts
    <3>5. o.data[1] = BpRow(table.bps[1])
      BY <3>2, <3>4 DEF BpRows
    <3> QED
      BY <3>5 DEF BpRow
  <2>4. line.cmd = "lwp" => FALSE
    <3>1. SUFFICES ASSUME line.cmd = "lwp" PROVE FALSE
      OBVIOUS
    <3> DEFINE ids == Ranked(table.wps)
    <3>2. o.data = [i \in DOMAIN ids |-> WpRow(ids[i], table.wps[ids[i]])]
      BY <1>1, <2>1, <3>1 DEF Effects, WpRows
    <3> HIDE DEF ids
    <3>3. CASE 1 \in DOMAIN ids
      <4>1. o.data[1] = WpRow(ids[1], table.wps[ids[1]])
        BY <3>2, <3>3
      <4> QED
        BY <4>1 DEF WpRow
    <3>4. CASE 1 \notin DOMAIN ids
      <4>1. DOMAIN ids = 1..Cardinality(ArmedSlots(table.wps))
        BY DEF ids, Ranked
      <4>2. Cardinality(ArmedSlots(table.wps)) \in Nat
        <5>1. IsFiniteSet(Slot)
          BY PointsAssumption, FS_Interval DEF Slot
        <5>2. IsFiniteSet(ArmedSlots(table.wps))
          BY <5>1, FS_Subset DEF ArmedSlots
        <5> QED
          BY <5>2, FS_CardinalityType
      <4>3. DOMAIN ids = {}
        BY <3>4, <4>1, <4>2
      <4>4. o.data = <<>>
        BY <3>2, <4>3
      <4> QED
        BY <4>4
    <3> QED
      BY <3>3, <3>4
  <2>5. o.data = <<>> \/ \E k : o.data = <<[type |-> "echo", id |-> k]>>
    <3>1. CASE line.cmd = "swp"
      <4>1. PICK k \in Slot :
                o = Done([table EXCEPT !.wps[k] = Watchpoint(line.watch, Clause(line.words))],
                         <<[type |-> "echo", id |-> k]>>)
        BY <2>1, <3>1 DEF Effects
      <4> QED
        BY <1>1, <4>1
    <3>2. CASE line.cmd \in {"sbp", "cbp", "bp", "cwp", "wp"}
      BY <1>1, <2>1, <3>2 DEF Effects
    <3> QED
      BY <1>3, <2>3, <2>4, <3>1, <3>2, PointMethods
  <2>6. \A k : <<[type |-> "echo", id |-> k]>>[1].type = "echo"
    OBVIOUS
  <2> QED
    BY <2>5, <2>6
<1>4. CASE line.cmd \notin PointCommands /\ line.cmd = "scr"
  <2>1. o.data = <<[type |-> "path", file |-> line.file]>> \/ o.data = <<>>
    BY <1>1, <1>2, <1>4 DEF Outcomes
  <2> QED
    BY <1>4, <2>1
<1>5. CASE line.cmd \notin PointCommands /\ line.cmd # "scr"
  <2>1. (line.cmd \in ReadCommands /\ o.data = <<[type |-> line.cmd]>>) \/ o.data = <<>>
    BY <1>1, <1>2, <1>5 DEF Outcomes
  <2>2. "path" \notin ReadCommands
    BY ReadCommandsApart
  <2> QED
    BY <2>1, <2>2
<1> QED
  BY <1>3, <1>4, <1>5

LEMMA BeginNames ==
    ASSUME ServiceInv, Idle, NEW s \in SessionId, NEW job, IsJob(job), Begin(s, job),
           job.file = 0 \/ (job.file = calls + 1 /\ calls' = calls + 1),
           NEW t \in SessionId, NEW n, Named(t, n)'
    PROVE  Named(t, n) \/ (t = s /\ NewName(n))
<1>1. Shape /\ Sends(s) /\ tool'.session = s /\ tool'.job = job
  BY BeginStep DEF ServiceInv
<1>2. /\ \A u \in SessionId \ {s} : emu'[u] = emu[u]
      /\ emu'[s].replies = emu[s].replies
  BY <1>1, ClientStepFacts, SendsFacts DEF ClientStep
<1>3. GoodEmu(emu[s]) /\ IsSeq(emu[s].pending)
  BY <1>1 DEF Shape, GoodEmu
<1>4. emu'[s].pending = Append(emu[s].pending, LineOf(job))
  BY <1>1, <1>3 DEF Begin, Send, Shape, GoodEmu
<1>5. NewName(job.file) /\ NewName(NoFile)
  BY DEF NewName, NoFile
<1>6. \A i \in DOMAIN emu'[s].pending :
          LET k == emu'[s].pending[i].file IN Named(s, k) \/ NewName(k)
  BY <1>3, <1>4, <1>5, AppendFacts, LineFacts DEF Named
<1>7. \A i \in DOMAIN emu'[s].replies : \A k :
          NamesFile(emu'[s].replies[i], k) => Named(s, k) \/ NewName(k)
  BY <1>2 DEF Named
<1>8. tool'.file = NoFile
  BY DEF Begin
<1>9. \A k \in {tool'.job.file, tool'.file} : Named(s, k) \/ NewName(k)
  BY <1>1, <1>5, <1>8
<1>10. \A f \in files' : f \in files \/ (f.of = s /\ (Named(s, f.name) \/ NewName(f.name)))
  BY <1>5 DEF Begin
<1> QED
  BY <1>1, <1>2, <1>6, <1>7, <1>9, <1>10, NamesFrom

\* A step that takes no reply further than to the tool.
LEMMA WorkNames ==
    ASSUME ServiceInv, NEW s \in SessionId, Work(s), NEW t \in SessionId, NEW n, Named(t, n)'
    PROVE  Named(t, n) \/ (t = s /\ NewName(n))
<1> USE DEF ServiceInv
<1>1. /\ Calling(s) /\ IsTool /\ tool.session = s
  BY DEF Work, Refused, Replied, NextLine, OpenFile, Resumed, Observed, GiveUp, Answers, ToolInv,
         Calling
<1>2. ClientStep(s) \/ Kept
  BY RefusedStep, RepliedStep, NextLineStep, OpenFileStep, ResumedStep, ObservedStep, GiveUpStep
     DEF Work, ClientStep
<1>3. \A u \in SessionId \ {s} : emu'[u] = emu[u]
  BY <1>2, ClientStepFacts DEF Kept
<1>4. \A f \in files' : f \in files
  BY DEF Work, Refused, Replied, NextLine, OpenFile, Resumed, Observed, GiveUp, Ends
<1>5. Named(s, tool.job.file) /\ Named(s, tool.file) /\ NewName(NoFile)
  BY <1>1 DEF Named, NewName, NoFile
<1>6. IsSeq(emu[s].pending) /\ IsSeq(emu[s].replies) /\ GoodEmu(emu[s])
  BY DEF Shape, GoodEmu
<1> DEFINE Lines == \A i \in DOMAIN emu'[s].pending :
                        LET k == emu'[s].pending[i].file IN Named(s, k) \/ NewName(k)
           Answers1 == \A i \in DOMAIN emu'[s].replies : \A k :
                          NamesFile(emu'[s].replies[i], k) => Named(s, k) \/ NewName(k)
           Works == \/ tool' = tool \/ tool' = NoTool
                    \/ /\ tool'.session = s
                       /\ \A k \in {tool'.job.file, tool'.file} : Named(s, k) \/ NewName(k)
<1>7. UNCHANGED emu => Lines /\ Answers1
  BY DEF Named
<1>8. Takes(s) => Lines /\ Answers1
  <2> SUFFICES ASSUME Takes(s) PROVE Lines /\ Answers1
    OBVIOUS
  <2>1. /\ emu[s].replies # <<>> /\ emu'[s].pending = emu[s].pending
        /\ emu'[s].replies = Tail(emu[s].replies)
    BY TakesFacts
  <2>2. \A i \in DOMAIN emu'[s].replies :
            i + 1 \in DOMAIN emu[s].replies /\ emu'[s].replies[i] = emu[s].replies[i + 1]
    BY <1>6, <2>1, TailFacts
  <2> QED
    BY <2>1, <2>2 DEF Named
<1> HIDE DEF Lines, Answers1
<1>9. Lines /\ Answers1 /\ Works
  <2>1. CASE Refused(s)
    BY <1>8, <2>1, RefusedStep DEF Refused, Ends
  <2>2. CASE Replied(s)
    <3> DEFINE reply == Head(emu[s].replies)
    <3>1. Takes(s)
      BY <2>2, RepliedStep
    <3>2. 1 \in DOMAIN emu[s].replies /\ reply = emu[s].replies[1]
      BY <1>6, <3>1, TakesFacts, TailFacts
    <3> HIDE DEF reply
    <3>3. Named(s, Written(tool.job, reply.data)) \/ NewName(Written(tool.job, reply.data))
      <4>1. CASE reply.data = <<>>
        BY <1>5, <4>1 DEF Written
      <4>2. CASE reply.data # <<>> /\ reply.data[1].type = "path"
        <5>1. NamesFile(emu[s].replies[1], reply.data[1].file)
          BY <3>2, <4>2 DEF NamesFile
        <5>2. Written(tool.job, reply.data) = reply.data[1].file
          BY <4>2 DEF Written
        <5> QED
          BY <3>2, <5>1, <5>2 DEF Named
      <4>3. CASE reply.data # <<>> /\ reply.data[1].type # "path"
        BY <1>5, <4>3 DEF Written
      <4> QED
        BY <4>1, <4>2, <4>3
    <3>4. \/ tool' = [tool EXCEPT !.stage = "line"]
          \/ tool' = [tool EXCEPT !.stage = "file", !.file = Written(tool.job, reply.data)]
          \/ tool' = NoTool
      BY <2>2 DEF Replied, Ends, reply
    <3>5. CASE tool' = [tool EXCEPT !.stage = "line"]
      <4>1. tool'.session = s /\ tool'.job = tool.job /\ tool'.file = tool.file
        BY <1>1, <3>5 DEF IsTool
      <4> QED
        BY <1>5, <1>8, <3>1, <4>1
    <3>6. CASE tool' = [tool EXCEPT !.stage = "file", !.file = Written(tool.job, reply.data)]
      <4>1. /\ tool'.session = s /\ tool'.job = tool.job
            /\ tool'.file = Written(tool.job, reply.data)
        BY <1>1, <3>6 DEF IsTool
      <4> QED
        BY <1>5, <1>8, <3>1, <3>3, <4>1
    <3> QED
      BY <1>8, <3>1, <3>4, <3>5, <3>6
  <2>3. CASE NextLine(s)
    <3>1. CASE Ends(s, "BrokenPipeError", <<>>) /\ UNCHANGED emu
      BY <1>7, <3>1 DEF Ends
    <3>2. CASE Send(s, tool.job) /\ tool' = [tool EXCEPT !.stage = "reply", !.left = @ - 1]
      <4>1. tool'.session = s /\ tool'.job = tool.job /\ tool'.file = tool.file
        BY <1>1, <3>2 DEF IsTool
      <4>2. /\ emu'[s].pending = Append(emu[s].pending, LineOf(tool.job))
            /\ emu'[s].replies = emu[s].replies
        BY <1>6, <3>2 DEF Send, Shape, GoodEmu
      <4>3. Lines
        BY <1>5, <1>6, <4>2, AppendFacts, LineFacts DEF Lines, Named
      <4>4. Answers1
        BY <4>2 DEF Answers1, Named
      <4> QED
        BY <1>5, <4>1, <4>3, <4>4
    <3> QED
      BY <2>3, <3>1, <3>2 DEF NextLine
  <2>4. CASE OpenFile(s)
    BY <1>7, <2>4 DEF OpenFile, Ends
  <2>5. CASE Resumed(s)
    BY <1>8, <2>5, ResumedStep DEF Resumed, Ends
  <2>6. CASE Observed(s)
    BY <1>7, <1>8, <2>6, ObservedStep DEF Observed, Ends, Leaves
  <2>7. CASE GiveUp(s)
    BY <1>7, <2>7 DEF GiveUp, Ends
  <2> QED
    BY <2>1, <2>2, <2>3, <2>4, <2>5, <2>6, <2>7 DEF Work
<1> QED
  BY <1>3, <1>4, <1>9, NamesFrom DEF Lines, Answers1

LEMMA NamesStep ==
    ASSUME ServiceInv, Next
    PROVE  /\ calls <= calls' /\ calls \in Nat /\ calls' \in Nat
           /\ \E s \in SessionId : \A t \in SessionId : \A n :
                  Named(t, n)' => Named(t, n) \/ (t = s /\ NewName(n))
<1> USE DEF ServiceInv
<1>1. PICK s \in SessionId :
          \/ CreateSession(s) \/ CloseSession(s) \/ BootProgram(s)
          \/ Start(s) \/ Work(s) \/ Obey(s) \/ Exit(s)
  BY DEF Next
<1>2. calls \in Nat /\ calls' \in Nat
  <2>1. calls \in 0..MaxCalls /\ calls' \in 0..MaxCalls /\ MaxCalls \in Nat
    BY RestOfShape, ToolsAssumption DEF Shape
  <2> QED
    BY <2>1
<1>3. calls' = calls \/ calls' = calls + 1
  <2>1. CASE CreateSession(s) \/ CloseSession(s) \/ BootProgram(s)
    BY <2>1 DEF CreateSession, CloseSession, BootProgram, MayCall
  <2>2. CASE Start(s)
    BY <2>2, StartCases DEF MayCall
  <2>3. CASE Work(s)
    BY <2>3 DEF Work, Refused, Replied, NextLine, OpenFile, Resumed, Observed, GiveUp
  <2>4. CASE Obey(s) \/ Exit(s)
    BY <2>4 DEF Obey, Exit
  <2> QED
    BY <1>1, <2>1, <2>2, <2>3, <2>4
<1>4. IsSeq(emu[s].pending) /\ IsSeq(emu[s].replies) /\ GoodTable(emu[s].table)
  BY DEF Shape, GoodEmu
<1> DEFINE Kind == \A t \in SessionId : \A n :
                       Named(t, n)' => Named(t, n) \/ (t = s /\ NewName(n))
<1>5. (UNCHANGED <<files, tool, emu>>) => Kind
  BY DEF Named, Calling, Idle
<1>6. Stops(s) /\ UNCHANGED <<files, tool>> => Kind
  <2> SUFFICES ASSUME Stops(s), UNCHANGED <<files, tool>>,
                      NEW t \in SessionId, NEW n, Named(t, n)'
               PROVE  Named(t, n) \/ (t = s /\ NewName(n))
    OBVIOUS
  <2>1. emu'[s].pending = <<>> /\ emu'[s].replies = emu[s].replies
    BY StopsFacts
  <2>2. \A u \in SessionId \ {s} : emu'[u] = emu[u]
    BY ClientStepFacts DEF ClientStep
  <2>3. \A i \in DOMAIN emu'[s].pending : FALSE
    BY <2>1, EmptyFacts
  <2>4. \A i \in DOMAIN emu'[s].replies : \A k :
            NamesFile(emu'[s].replies[i], k) => Named(s, k) \/ NewName(k)
    BY <2>1 DEF Named
  <2> QED
    BY <2>2, <2>3, <2>4, NamesFrom
<1>7. Respawned(s) /\ UNCHANGED <<files, tool>> => Kind
  <2> SUFFICES ASSUME Respawned(s), UNCHANGED <<files, tool>>,
                      NEW t \in SessionId, NEW n, Named(t, n)'
               PROVE  Named(t, n) \/ (t = s /\ NewName(n))
    OBVIOUS
  <2>1. emu'[s].pending = <<>> /\ emu'[s].replies = <<>>
    BY RespawnedFacts DEF NewEmulator
  <2>2. \A u \in SessionId \ {s} : emu'[u] = emu[u]
    BY RespawnedFacts
  <2>3. (\A i \in DOMAIN emu'[s].pending : FALSE) /\ (\A i \in DOMAIN emu'[s].replies : FALSE)
    BY <2>1, EmptyFacts
  <2> QED
    BY <2>2, <2>3, NamesFrom
<1> HIDE DEF Kind
<1>a. CASE CreateSession(s) \/ CloseSession(s) \/ BootProgram(s)
  <2>1. (Respawned(s) \/ Stops(s)) /\ UNCHANGED <<files, tool>>
    BY <1>a, SessionsStep DEF CreateSession, CloseSession, BootProgram
  <2> QED
    BY <1>2, <1>3, <1>6, <1>7, <2>1 DEF Kind
<1>b. CASE Start(s)
  <2>1. MayCall /\ Begins(s) /\ Idle /\ calls' = calls + 1
    BY <1>b, StartCases DEF MayCall
  <2>2. CASE UNCHANGED <<files, tool, emu>>
    BY <1>2, <1>3, <1>5, <2>2 DEF Kind
  <2>3. ASSUME NEW job, IsJob(job), Begin(s, job), job.file = 0 \/ job.file = calls + 1
        PROVE  Kind
    BY <2>1, <2>3, BeginNames DEF Kind
  <2> QED
    BY <1>2, <1>3, <2>1, <2>2, <2>3 DEF Begins, BeginFails, Kind
<1>c. CASE Work(s)
  BY <1>2, <1>3, <1>c, WorkNames
<1>d. CASE Exit(s)
  <2>1. Stops(s) /\ UNCHANGED <<files, tool>>
    BY <1>d DEF Exit, Stops
  <2> QED
    BY <1>2, <1>3, <1>6, <2>1 DEF Kind
<1>e. CASE Obey(s)
  <2> SUFFICES ASSUME NEW t \in SessionId, NEW n, Named(t, n)'
               PROVE  Named(t, n) \/ (t = s /\ NewName(n))
    BY <1>2, <1>3
  <2> DEFINE line == Head(emu[s].pending)
  <2>1. /\ line = emu[s].pending[1] /\ 1 \in DOMAIN emu[s].pending /\ emu[s].pending # <<>>
        /\ \A f \in files' : f \in files \/ (f.of = s /\ f.name = line.file)
    BY <1>e, ObeyFiles
  <2>2. Named(s, line.file)
    BY <2>1 DEF Named
  <2>3. Obeys(s) /\ UNCHANGED tool
    BY <1>e DEF Obey, Obeys
  <2>4. \A u \in SessionId \ {s} : emu'[u] = emu[u]
    BY <2>3, ClientStepFacts DEF ClientStep
  <2>5. PICK o \in Outcomes(emu[s].table, line) :
            emu'[s].replies =
                Append(emu[s].replies,
                       [answers |-> client[s].sent - Len(emu[s].pending) + 1,
                        terminator |-> o.terminator, data |-> o.data])
    BY <2>3, ObeysFacts
  <2>6. emu'[s].pending = Tail(emu[s].pending)
    BY <2>3, ObeysFacts
  <2> HIDE DEF line
  <2>7. \A i \in DOMAIN emu'[s].pending :
            i + 1 \in DOMAIN emu[s].pending /\ emu'[s].pending[i] = emu[s].pending[i + 1]
    BY <1>4, <2>1, <2>6, TailFacts
  <2> DEFINE reply == [answers |-> client[s].sent - Len(emu[s].pending) + 1,
                       terminator |-> o.terminator, data |-> o.data]
  <2>8. \A k : NamesFile(reply, k) => k = line.file
    BY <1>4, OutcomeNames DEF NamesFile
  <2>9. emu'[s].replies = Append(emu[s].replies, reply)
    BY <2>5
  <2> HIDE DEF reply
  <2>10. \A i \in DOMAIN emu'[s].replies :
             \/ i \in DOMAIN emu[s].replies /\ emu'[s].replies[i] = emu[s].replies[i]
             \/ emu'[s].replies[i] = reply
    BY <1>4, <2>9, AppendFacts
  <2>11. \A i \in DOMAIN emu'[s].replies : \A k :
             NamesFile(emu'[s].replies[i], k) => Named(s, k) \/ NewName(k)
    BY <2>2, <2>8, <2>10 DEF Named
  <2>12. \A i \in DOMAIN emu'[s].pending :
             LET k == emu'[s].pending[i].file IN Named(s, k) \/ NewName(k)
    BY <2>7 DEF Named
  <2>13. \A f \in files' : f \in files \/ (f.of = s /\ (Named(s, f.name) \/ NewName(f.name)))
    BY <2>1, <2>2
  <2> QED
    BY <2>3, <2>4, <2>11, <2>12, <2>13, NamesFrom
<1> QED
  BY <1>1, <1>a, <1>b, <1>c, <1>d, <1>e

LEMMA LinesOfJobs ==
    ASSUME ServiceInv, Next, NEW t \in SessionId, NEW i \in DOMAIN emu'[t].pending
    PROVE  \/ \E j \in DOMAIN emu[t].pending : emu'[t].pending[i] = emu[t].pending[j]
           \/ \E job : IsJob(job) /\ emu'[t].pending[i] = LineOf(job)
<1> USE DEF ServiceInv
<1>1. Shape /\ IsSeq(emu[t].pending)
  BY DEF Shape, GoodEmu
<1>2. CASE emu'[t].pending = emu[t].pending
  BY <1>2
<1>3. CASE emu'[t].pending = <<>>
  BY <1>3, EmptyFacts
<1>4. PICK s \in SessionId : ClientStep(s) \/ Kept
  BY NextFacts
<1>5. CASE Kept
  BY <1>2, <1>5 DEF Kept
<1>6. CASE ClientStep(s) /\ s # t
  BY <1>1, <1>2, <1>6, ClientStepFacts
<1>7. CASE ClientStep(s) /\ s = t
  <2>1. CASE Sends(t)
    <3>1. InCall(t)'
      BY <1>1, <2>1, SendsFacts DEF InCall
    <3>2. ~InCall(t)
      BY <1>1, <2>1, SendsFacts DEF InCall
    <3>3. emu'[t].pending = Append(emu[t].pending, LineOf(tool'.job)) /\ tool' # NoTool
      BY <3>1, <3>2, CallCases
    <3>4. IsJob(tool'.job)
      <4>1. ToolInv'
        BY NextFacts
      <4> QED
        BY <3>3, <4>1 DEF ToolInv, Idle, IsTool
    <3> QED
      BY <1>1, <3>3, <3>4, AppendFacts
  <2>2. CASE Leaves(t)
    BY <1>1, <1>2, <2>2, LeavesFacts
  <2>3. CASE Takes(t)
    BY <1>1, <1>2, <2>3, TakesFacts
  <2>4. CASE Stops(t)
    BY <1>1, <1>3, <2>4, StopsFacts
  <2>5. CASE Obeys(t)
    <3>1. emu[t].pending # <<>> /\ emu'[t].pending = Tail(emu[t].pending)
      BY <1>1, <2>5, ObeysFacts
    <3> QED
      BY <1>1, <3>1, TailFacts
  <2>6. CASE Respawned(t)
    <3>1. emu'[t].pending = <<>>
      BY <1>1, <2>6, RespawnedFacts DEF NewEmulator
    <3> QED
      BY <1>3, <3>1
  <2> QED
    BY <1>7, <2>1, <2>2, <2>3, <2>4, <2>5, <2>6 DEF ClientStep
<1> QED
  BY <1>4, <1>5, <1>6, <1>7

LEMMA NameNext ==
    ASSUME ServiceInv, NameInv, Next
    PROVE  NameInv'
<1>1. \A f \in files' : f.of \in SessionId /\ f.name > 0
  <2> SUFFICES ASSUME NEW f \in files' PROVE f.of \in SessionId /\ f.name > 0
    OBVIOUS
  <2>1. CASE f \in files
    BY <2>1 DEF NameInv
  <2>2. CASE /\ tool'.session \in SessionId /\ IsJob(tool'.job) /\ tool'.job.file # 0
             /\ f = [name |-> tool'.job.file, of |-> tool'.session, shot |-> 0]
    <3>1. tool'.job.file \in Nat
      BY <2>2, JobFacts
    <3>2. f.of = tool'.session /\ f.name = tool'.job.file
      BY <2>2
    <3> QED
      BY <2>2, <3>1, <3>2
  <2>3. ASSUME NEW s \in SessionId, Obey(s), f \notin files
        PROVE  f.of \in SessionId /\ f.name > 0
    <3> DEFINE line == Head(emu[s].pending)
    <3>1. /\ line = emu[s].pending[1] /\ 1 \in DOMAIN emu[s].pending
          /\ line.cmd = "scr" /\ f.name = line.file /\ f.of = s
      BY <2>3, ObeyFiles
    <3> QED
      BY <3>1 DEF NameInv
  <2> QED
    BY <2>1, <2>2, <2>3, FileCases
<1>2. ASSUME NEW t \in SessionId, NEW i \in DOMAIN emu'[t].pending,
             emu'[t].pending[i].cmd = "scr"
      PROVE  emu'[t].pending[i].file > 0
  <2>1. CASE \E j \in DOMAIN emu[t].pending : emu'[t].pending[i] = emu[t].pending[j]
    BY <1>2, <2>1 DEF NameInv
  <2>2. ASSUME NEW job, IsJob(job), emu'[t].pending[i] = LineOf(job)
        PROVE  emu'[t].pending[i].file > 0
    BY <1>2, <2>2, JobFacts, LineFacts
  <2> QED
    BY <2>1, <2>2, LinesOfJobs
<1>3. PICK s \in SessionId : \A t \in SessionId : \A n :
          Named(t, n)' => Named(t, n) \/ (t = s /\ NewName(n))
  BY NamesStep
<1>4. calls <= calls' /\ calls \in Nat /\ calls' \in Nat
  BY NamesStep
<1>5. \A t \in SessionId : \A n :
          Named(t, n) => /\ n \in -1..calls
                         /\ n > 0 => \A u \in SessionId \ {t} : ~Named(u, n)
  BY DEF NameInv
<1>6. \A n : /\ NewName(n) => n \in -1..calls'
             /\ NewName(n) /\ n > 0 => n \notin -1..calls
             /\ n \in -1..calls => n \in -1..calls'
  BY <1>4 DEF NewName
<1>7. ASSUME NEW t \in SessionId, NEW n, Named(t, n)'
      PROVE  n \in -1..calls'
  BY <1>3, <1>5, <1>6, <1>7
<1>8. ASSUME NEW t \in SessionId, NEW u \in SessionId \ {t}, NEW n, n > 0,
             Named(t, n)', Named(u, n)'
      PROVE  FALSE
  BY <1>3, <1>5, <1>6, <1>8
<1>9. (\A t \in SessionId : \A n :
          Named(t, n) => /\ n \in -1..calls
                         /\ n > 0 => \A u \in SessionId \ {t} : ~Named(u, n))'
  BY <1>7, <1>8
<1> QED
  BY <1>1, <1>2, <1>9 DEF NameInv

-----------------------------------------------------------------------------
(* What is in the file that a screenshot opens. *)

\* The file of the tool, if it is there, holds what the last line of the session wrote.
Latest(s) == \A f \in files : f.name = tool.job.file => f.shot = client[s].sent

Shooting(s) == Calling(s) /\ tool.job.name = "screenshot"

\* Once scr has been obeyed, the reply leads the tool to its own file, with the new image.
ShotOf(s) ==
    /\ \A i \in DOMAIN emu[s].replies :
           emu[s].replies[i].terminator = "RDY" =>
               Written(tool.job, emu[s].replies[i].data) = tool.job.file /\ Latest(s)
    /\ tool.stage = "file" => tool.file = tool.job.file /\ Latest(s)

ShotInv == \A s \in SessionId : Sure(s) /\ Shooting(s) => ShotOf(s)

LEMMA ShootingCases ==
    ASSUME ServiceInv, Next, NEW t \in SessionId, Shooting(t)'
    PROVE  /\ UNCHANGED lost
           /\ \/ Idle /\ tool'.stage = "reply" /\ emu'[t].replies = emu[t].replies
              \/ UNCHANGED tool /\ Shooting(t) /\ \E s \in SessionId : Obey(s)
              \/ UNCHANGED tool /\ Shooting(t) /\ \E s \in SessionId : Exit(s)
              \/ Shooting(t) /\ Replied(t) /\ UNCHANGED files
                 /\ tool'.job = tool.job /\ tool'.stage = "file"
                 /\ tool'.file = Written(tool.job, Head(emu[t].replies).data)
<1> USE DEF ServiceInv
<1>1. PICK s \in SessionId :
          \/ CreateSession(s) \/ CloseSession(s) \/ BootProgram(s)
          \/ Start(s) \/ Work(s) \/ Obey(s) \/ Exit(s)
  BY DEF Next
<1>2. tool' # NoTool /\ tool'.session = t /\ tool'.job.name = "screenshot"
  BY DEF Shooting, Calling, Idle
<1>a. CASE CreateSession(s) \/ CloseSession(s) \/ BootProgram(s)
  BY <1>2, <1>a DEF CreateSession, CloseSession, BootProgram, MayCall, Idle
<1>b. CASE Start(s)
  <2>1. MayCall /\ Begins(s) /\ Idle
    BY <1>b, StartCases DEF MayCall
  <2>2. PICK job : IsJob(job) /\ Begin(s, job)
    BY <1>2, <2>1 DEF Begins, BeginFails, Idle
  <2>3. Sends(s) /\ tool'.session = s /\ tool'.stage = "reply"
    BY <2>1, <2>2, BeginStep
  <2>4. emu'[t].replies = emu[t].replies
    BY <1>2, <2>3, SendsFacts
  <2>5. UNCHANGED lost
    BY <2>2 DEF Begin
  <2> QED
    BY <2>1, <2>3, <2>4, <2>5
<1>c. CASE Work(s)
  <2>1. /\ Calling(s) /\ IsTool /\ tool.session = s
    BY <1>c DEF Work, Refused, Replied, NextLine, OpenFile, Resumed, Observed, GiveUp, Answers,
                ToolInv, Calling
  <2>2. CASE Refused(s) \/ OpenFile(s) \/ Observed(s) \/ GiveUp(s)
    BY <1>2, <2>2 DEF Refused, OpenFile, Observed, GiveUp, Ends
  <2>3. CASE Resumed(s)
    <3>1. UNCHANGED tool /\ client[s].busy = "resumeLoop"
      BY <1>2, <2>3 DEF Resumed, Ends
    <3>2. tool.job.name \in Resuming
      BY <3>1 DEF ToolInv, BusyWith
    <3> QED
      BY <1>2, <3>1, <3>2 DEF Resuming
  <2>4. CASE NextLine(s)
    <3>1. tool' = [tool EXCEPT !.stage = "reply", !.left = @ - 1] /\ tool.stage = "line"
      BY <1>2, <2>4 DEF NextLine, Ends
    <3>2. tool'.job = tool.job
      BY <2>1, <3>1 DEF IsTool
    <3> QED
      BY <1>2, <2>1, <3>1, <3>2 DEF IsTool
  <2>5. CASE Replied(s)
    <3> DEFINE file == Written(tool.job, Head(emu[s].replies).data)
    <3>1. /\ UNCHANGED lost
          /\ \/ tool.left > 0 /\ tool' = [tool EXCEPT !.stage = "line"]
             \/ tool' = [tool EXCEPT !.stage = "file", !.file = file] /\ UNCHANGED files
      BY <1>2, <2>5 DEF Replied, Ends
    <3> HIDE DEF file
    <3>2. CASE tool.left > 0 /\ tool' = [tool EXCEPT !.stage = "line"]
      <4>1. tool'.job = tool.job
        BY <2>1, <3>2 DEF IsTool
      <4> QED
        BY <1>2, <2>1, <3>2, <4>1 DEF IsTool
    <3>3. CASE tool' = [tool EXCEPT !.stage = "file", !.file = file] /\ UNCHANGED files
      <4>1. /\ tool'.job = tool.job /\ tool'.session = s
            /\ tool'.stage = "file" /\ tool'.file = file
        BY <2>1, <3>3 DEF IsTool
      <4> QED
        BY <1>2, <2>1, <2>5, <3>1, <3>3, <4>1 DEF Shooting, Calling, file
    <3> QED
      BY <3>1, <3>2, <3>3
  <2> QED
    BY <1>c, <2>2, <2>3, <2>4, <2>5 DEF Work
<1>d. CASE Obey(s) \/ Exit(s)
  <2>1. UNCHANGED <<tool, lost>>
    BY <1>d DEF Obey, Exit
  <2> QED
    BY <1>2, <1>d, <2>1 DEF Shooting, Calling, Idle
<1> QED
  BY <1>1, <1>a, <1>b, <1>c, <1>d

\* A line of another session writes another file.
LEMMA OthersFile ==
    ASSUME ServiceInv, NameInv, NEW t \in SessionId, Shooting(t),
           NEW s \in SessionId \ {t}, Obey(s), NEW f \in files', f.name = tool.job.file
    PROVE  f \in files
<1> DEFINE line == Head(emu[s].pending)
<1>1. /\ line = emu[s].pending[1] /\ 1 \in DOMAIN emu[s].pending
      /\ f \in files \/ f.name = line.file
  BY ObeyFiles
<1>2. Named(s, line.file)
  BY <1>1 DEF Named
<1>3. tool.job.file > 0 /\ Named(t, tool.job.file)
  <2>1. IsTool
    BY DEF ServiceInv, ToolInv, Shooting, Calling
  <2> QED
    BY <2>1, JobFacts DEF IsTool, Shooting, Named
<1>4. line.file # tool.job.file
  BY <1>2, <1>3 DEF NameInv
<1> QED
  BY <1>1, <1>4

LEMMA ShotNext ==
    ASSUME ServiceInv, LineInv, NameInv, ShotInv, Next
    PROVE  ShotInv'
<1> SUFFICES ASSUME NEW t \in SessionId, Sure(t)', Shooting(t)'
             PROVE  ShotOf(t)'
  BY DEF ShotInv
<1>1. Sure(t) /\ Shape /\ OrderOf(t) /\ ToolInv /\ GoodEmu(emu[t])
  BY ShootingCases DEF Sure, ServiceInv, OrderInv, Shape
<1>2. IsSeq(emu[t].pending) /\ IsSeq(emu[t].replies)
  BY <1>1 DEF GoodEmu
<1>a. CASE Idle /\ tool'.stage = "reply" /\ emu'[t].replies = emu[t].replies
  <2>1. ~InCall(t)
    BY <1>1, <1>a DEF ToolInv, BusyWith, Waiting, Calling, InCall
  <2>2. emu'[t].replies = <<>>
    BY <1>1, <1>a, <2>1, QuietFacts
  <2> QED
    BY <1>a, <2>2, EmptyFacts DEF ShotOf
<1>b. ASSUME UNCHANGED tool, Shooting(t), NEW s \in SessionId, Exit(s)
      PROVE  ShotOf(t)'
  <2>1. Stops(s) /\ UNCHANGED <<client, files>>
    BY <1>b DEF Exit, Stops
  <2>2. emu'[t].replies = emu[t].replies
    <3>1. CASE s = t
      BY <1>1, <2>1, <3>1, StopsFacts
    <3>2. CASE s # t
      BY <1>1, <2>1, <3>2, ClientStepFacts DEF ClientStep
    <3> QED
      BY <3>1, <3>2
  <2> QED
    BY <1>1, <1>b, <2>1, <2>2 DEF ShotInv, ShotOf, Latest
<1>c. ASSUME UNCHANGED tool, Shooting(t), NEW s \in SessionId \ {t}, Obey(s)
      PROVE  ShotOf(t)'
  <2>1. UNCHANGED client /\ emu'[t] = emu[t]
    BY <1>1, <1>c DEF Obey, Shape
  <2>2. \A f \in files' : f.name = tool.job.file => f \in files
    BY <1>c, OthersFile
  <2>3. Latest(t) => Latest(t)'
    BY <1>c, <2>1, <2>2 DEF Latest
  <2> QED
    BY <1>1, <1>c, <2>1, <2>3 DEF ShotInv, ShotOf
<1>d. ASSUME UNCHANGED tool, Shooting(t), Obey(t)
      PROVE  ShotOf(t)'
  <2> DEFINE line == Head(emu[t].pending)
             n == client[t].sent - Len(emu[t].pending) + 1
  <2>1. /\ line = emu[t].pending[1] /\ 1 \in DOMAIN emu[t].pending /\ emu[t].pending # <<>>
        /\ InCall(t) /\ n = client[t].sent
    BY <1>1, <1>d, ObeyFiles
  <2>2. emu[t].replies = <<>>
    BY <1>1, <2>1, QuietFacts
  <2>3. line = LineOf(tool.job)
    BY <1>1, <2>1 DEF LineInv
  <2>4. tool.job.cmd = "scr" /\ IsTool
    BY <1>1, <1>d, JobFacts DEF ToolInv, Shooting, Calling, IsTool
  <2>5. line.cmd = "scr" /\ line.file = tool.job.file
    BY <2>3, <2>4, LineFacts
  <2>6. PICK o \in Outcomes(emu[t].table, line) :
            /\ emu' = [emu EXCEPT
                   ![t].table = o.table,
                   ![t].pending = Tail(@),
                   ![t].replies = Append(@, [answers |-> n, terminator |-> o.terminator,
                                             data |-> o.data])]
            /\ files' = IF line.cmd = "scr" /\ o.terminator = "RDY"
                        THEN {f \in files : f.name # line.file}
                               \cup {[name |-> line.file, of |-> t, shot |-> n]}
                        ELSE files
    BY <1>d DEF Obey
  <2> DEFINE reply == [answers |-> n, terminator |-> o.terminator, data |-> o.data]
  <2>7. reply.terminator = o.terminator /\ reply.data = o.data
    OBVIOUS
  <2>8. UNCHANGED client /\ tool'.stage = "reply"
    <3>1. tool.stage = "reply"
      BY <1>1, <2>1 DEF ToolInv, BusyWith, Waiting, InCall
    <3> QED
      BY <1>d, <3>1 DEF Obey
  <2> HIDE DEF line, n
  <2>9. emu' = [emu EXCEPT ![t].table = o.table, ![t].pending = Tail(@),
                           ![t].replies = Append(@, reply)]
    BY <2>6
  <2> HIDE DEF reply
  <2>10. emu'[t].replies = Append(<<>>, reply)
    BY <1>1, <2>2, <2>9 DEF Shape, GoodEmu
  <2>11. \A i \in DOMAIN emu'[t].replies : emu'[t].replies[i] = reply
    BY <2>10, EmptyFacts, AppendFacts
  <2>12. o.terminator = "RDY" => Written(tool.job, o.data) = tool.job.file
    <3>1. "scr" \notin PointCommands
      BY PointMethods
    <3>2. Refusal(emu[t].table).terminator = "ERR"
      BY DEF Refusal
    <3>3. \A data : Done(emu[t].table, data).data = data
      BY DEF Done
    <3>4. o.terminator = "RDY" =>
              o.data = <<[type |-> "path", file |-> tool.job.file]>> \/ o.data = <<>>
      BY <2>5, <2>6, <3>1, <3>2, <3>3 DEF Outcomes
    <3> QED
      BY <3>4, OneFacts DEF Written
  <2>13. o.terminator = "RDY" => Latest(t)'
    BY <1>d, <2>1, <2>5, <2>6, <2>8 DEF Latest
  <2> QED
    BY <1>d, <2>7, <2>8, <2>11, <2>12, <2>13 DEF ShotOf
<1>e. CASE /\ Shooting(t) /\ Replied(t) /\ UNCHANGED files
           /\ tool'.job = tool.job /\ tool'.stage = "file"
           /\ tool'.file = Written(tool.job, Head(emu[t].replies).data)
  <2>1. Takes(t)
    BY <1>1, <1>e, RepliedStep
  <2>2. /\ emu[t].replies # <<>> /\ emu'[t].replies = Tail(emu[t].replies)
        /\ client'[t].sent = client[t].sent
    BY <1>1, <2>1, TakesFacts
  <2>3. /\ 1 \in DOMAIN emu[t].replies /\ Head(emu[t].replies) = emu[t].replies[1]
        /\ \A i \in DOMAIN emu'[t].replies :
               i + 1 \in DOMAIN emu[t].replies /\ emu'[t].replies[i] = emu[t].replies[i + 1]
    BY <1>2, <2>2, TailFacts
  <2>4. Head(emu[t].replies).terminator = "RDY"
    BY <1>e DEF Replied
  <2>5. ShotOf(t)
    BY <1>1, <1>e DEF ShotInv
  <2>6. tool'.file = tool.job.file /\ Latest(t)
    BY <1>e, <2>3, <2>4, <2>5 DEF ShotOf
  <2>7. Latest(t)'
    BY <1>e, <2>2, <2>6 DEF Latest
  <2>8. \A i \in DOMAIN emu'[t].replies :
            emu'[t].replies[i].terminator = "RDY" =>
                Written(tool.job, emu'[t].replies[i].data) = tool.job.file
    BY <2>3, <2>5 DEF ShotOf
  <2> QED
    BY <1>e, <2>6, <2>7, <2>8 DEF ShotOf
<1> QED
  BY <1>a, <1>b, <1>c, <1>d, <1>e, ShootingCases

ShotsInv == FilesInv /\ NameInv /\ ShotInv

LEMMA ShotsAlways == Spec => []ShotsInv
<1>1. Init => NameInv /\ ShotInv
  <2> SUFFICES ASSUME Init PROVE NameInv /\ ShotInv
    OBVIOUS
  <2>1. files = {} /\ Idle
    BY DEF Init, Idle
  <2>2. \A s \in SessionId : emu[s].pending = <<>> /\ emu[s].replies = <<>>
    <3>1. GoodEmu(NewEmulator) /\ NewEmulator.replies = <<>>
      BY EmptyTableGood, EmptyFacts DEF GoodEmu, NewEmulator
    <3>2. Closed(NewEmulator)
              = [process |-> "gone", table |-> EmptyTable, pending |-> <<>>,
                 replies |-> NewEmulator.replies]
      BY <3>1, EmulatorEdits
    <3> DEFINE e == Closed(NewEmulator)
    <3> HIDE DEF e
    <3>3. e.pending = <<>> /\ e.replies = <<>>
      BY <3>1, <3>2 DEF e
    <3>4. \A s \in SessionId : emu[s] = e
      BY DEF Init, e
    <3> QED
      BY <3>3, <3>4
  <2>3. \A s \in SessionId : \A n : ~Named(s, n)
    BY <2>1, <2>2, EmptyFacts DEF Named, Calling
  <2> QED
    BY <2>1, <2>2, <2>3, EmptyFacts DEF NameInv, ShotInv, Shooting, Calling
<1>2. ShotsInv /\ Next => ShotsInv'
  BY ServiceNext, LineNext, FileNext, NameNext, ShotNext DEF ShotsInv, FilesInv
<1>3. NameInv /\ ShotInv /\ UNCHANGED vars => (NameInv /\ ShotInv)'
  <2>1. NameInv /\ UNCHANGED vars => NameInv'
    <3>1. UNCHANGED vars => \A s, n : Named(s, n)' <=> Named(s, n)
      BY DEF Named, NamesFile, Calling, Idle, vars
    <3>2. UNCHANGED vars => UNCHANGED <<files, emu, calls>>
      BY DEF vars
    <3> QED
      BY <3>1, <3>2 DEF NameInv
  <2>2. ShotInv /\ UNCHANGED vars => ShotInv'
    BY SMTT(30) DEF ShotInv, ShotOf, Shooting, Calling, Idle, Sure, Latest, vars
  <2> QED
    BY <2>1, <2>2
<1>4. FilesInv /\ UNCHANGED vars => FilesInv'
  <2>1. LineInv /\ FileInv /\ UNCHANGED vars => (LineInv /\ FileInv)'
    BY DEF LineInv, FileInv, vars, Sure, InCall, Idle
  <2> QED
    BY <2>1, ServiceNext DEF FilesInv
<1>5. Init => FilesInv
  BY ServiceInit DEF FilesInv, Init, LineInv, FileInv, InCall, NewClient
<1> QED
  BY <1>1, <1>2, <1>3, <1>4, <1>5, PTL DEF Spec, ShotsInv

\* A screenshot returns an image of its own session's screen, and, unless a call of that
\* session had given up, the one its own command captured (capture.py, screenshot).
THEOREM OwnShot == Spec => ShotIsOwn
<1>1. ShotsInv /\ [Next]_vars =>
          [Returns("screenshot") =>
               LET s == result'.session
                   image == result'.value[1]
               IN  image.of = s /\ (Sure(s) => image.shot = client[s].sent)]_vars
  <2> SUFFICES ASSUME ShotsInv, Next, Returns("screenshot")
               PROVE  LET s == result'.session
                          image == result'.value[1]
                      IN  image.of = s /\ (Sure(s) => image.shot = client[s].sent)
    OBVIOUS
  <2>1. PICK s \in SessionId :
            \/ CreateSession(s) \/ CloseSession(s) \/ BootProgram(s)
            \/ Start(s) \/ Work(s) \/ Obey(s) \/ Exit(s)
    BY DEF Next
  <2>2. /\ ~Idle /\ tool' = NoTool /\ result'.name = "screenshot"
        /\ result'.error = "none" /\ ToolInv /\ Shape
    BY DEF Returns, Idle, ShotsInv, FilesInv, ServiceInv
  <2>3. Start(s) => FALSE
    BY <2>2, StartCases DEF MayCall
  <2>4. Work(s)
    BY <2>1, <2>2, <2>3
       DEF CreateSession, CloseSession, BootProgram, MayCall, Idle, Obey, Exit
  <2>5. /\ Calling(s) /\ IsTool /\ tool.session = s
    BY <2>2, <2>4 DEF Work, Refused, Replied, NextLine, OpenFile, Resumed, Observed, GiveUp,
                      Answers, ToolInv, Calling
  <2>6. ASSUME NEW error, NEW value, Ends(s, error, value)
        PROVE  /\ result'.session = s /\ tool.job.name = "screenshot" /\ error = "none"
               /\ result'.value = value
    BY <2>2, <2>6 DEF Ends, Returning
  <2>7. OpenFile(s)
    <3>1. ~(Refused(s) \/ GiveUp(s))
      BY <2>6 DEF Refused, GiveUp
    <3>2. ~NextLine(s)
      <4> SUFFICES ASSUME NextLine(s) PROVE FALSE
        OBVIOUS
      <4>1. CASE tool' = [tool EXCEPT !.stage = "reply", !.left = @ - 1]
        <5>1. tool'.stage = "reply"
          BY <2>5, <4>1 DEF IsTool
        <5> QED
          BY <2>2, <2>5, <4>1 DEF IsTool, NoTool
      <4> QED
        BY <2>6, <4>1 DEF NextLine
    <3>3. ~Replied(s)
      <4> SUFFICES ASSUME Replied(s) PROVE FALSE
        OBVIOUS
      <4>1. CASE \/ tool' = [tool EXCEPT !.stage = "line"]
                 \/ \E file : tool' = [tool EXCEPT !.stage = "file", !.file = file]
        BY <2>2, <2>5, <4>1 DEF IsTool, NoTool
      <4>2. CASE tool.job.name # "screenshot" /\ \E error, value : Ends(s, error, value)
        BY <2>6, <4>2
      <4> QED
        BY <4>1, <4>2 DEF Replied
    <3>4. ~(Resumed(s) \/ Observed(s))
      <4> SUFFICES ASSUME Resumed(s) \/ Observed(s) PROVE FALSE
        OBVIOUS
      <4>1. client[s].busy \in {"resumeLoop", "resumeWait"}
        BY DEF Resumed, Observed
      <4>2. tool.job.name \in Resuming
        BY <2>2, <4>1 DEF ToolInv, BusyWith
      <4>3. Ends(s, "none", <<>>)
        BY <2>2 DEF Resumed, Observed, Idle
      <4> QED
        BY <2>6, <4>2, <4>3 DEF Resuming
    <3> QED
      BY <2>4, <3>1, <3>2, <3>3, <3>4 DEF Work
  <2>8. PICK f \in files :
            f.name = tool.file /\ Ends(s, "none", <<[type |-> "png", of |-> f.of, shot |-> f.shot]>>)
    <3>1. ~Ends(s, "FileNotFoundError", <<>>)
      BY <2>6
    <3> QED
      BY <2>7, <3>1, Zenon DEF OpenFile
  <2>9. /\ result'.session = s /\ tool.job.name = "screenshot" /\ tool.stage = "file"
        /\ result'.value[1] = [type |-> "png", of |-> f.of, shot |-> f.shot]
    BY <2>6, <2>7, <2>8, OneFacts DEF OpenFile
  <2>10. f.of = s
    <3>1. f.of \in SessionId /\ f.name > 0
      BY DEF ShotsInv, NameInv
    <3>2. Named(f.of, f.name)
      BY DEF Named
    <3>3. Named(s, f.name)
      BY <2>5, <2>8 DEF Named
    <3> QED
      BY <3>1, <3>2, <3>3 DEF ShotsInv, NameInv
  <2>11. Sure(s) => f.shot = client[s].sent
    BY <2>5, <2>8, <2>9 DEF ShotsInv, ShotInv, Shooting, ShotOf, Latest
  <2> QED
    BY <2>9, <2>10, <2>11
<1> QED
  BY <1>1, ShotsAlways, PTL DEF Spec, ShotIsOwn

-----------------------------------------------------------------------------
(* What a line does to the tables, and what its tool makes of the reply. *)

LEMMA BeforeFacts ==
    ASSUME NEW s, IsSeq(s), NEW x
    PROVE  /\ IsSeq(<<x>> \o s) /\ Len(<<x>> \o s) = Len(s) + 1 /\ <<x>> \o s # <<>>
           /\ Tail(<<x>> \o s) = s
<1>1. PICK U : s \in Seq(U)
  BY DEF IsSeq
<1> DEFINE V == U \cup {x}
           w == <<x>> \o s
<1>2. s \in Seq(V) /\ x \in V
  BY <1>1
<1> HIDE DEF V
<1>3. <<x>> \in Seq(V) /\ Len(<<x>>) = 1 /\ Len(s) \in Nat
  BY <1>2
<1>4. w \in Seq(V) /\ Len(w) = Len(<<x>>) + Len(s)
  BY <1>2, <1>3
<1>5. \A i \in 1..Len(s) : w[i + 1] = s[i]
  BY <1>2, <1>3
<1> HIDE DEF w
<1>6. Len(w) = Len(s) + 1 /\ w # <<>>
  BY <1>3, <1>4
<1>7. Tail(w) \in Seq(V) /\ Len(Tail(w)) = Len(s)
  BY <1>3, <1>4, <1>6
<1>8. \A i \in 1..Len(s) : Tail(w)[i] = s[i]
  BY <1>3, <1>4, <1>5, <1>6
<1>9. Tail(w) = s
  BY <1>2, <1>7, <1>8
<1> QED
  BY <1>4, <1>6, <1>9 DEF IsSeq, w

LEMMA ClauseFacts ==
    ASSUME NEW c \in Condition
    PROVE  Clause(IfClause(c)) = c
<1>1. IsSeq(c)
  BY PointsAssumption DEF IsSeq
<1>2. CASE c = <<>>
  BY <1>2 DEF Clause, IfClause
<1>3. CASE c # <<>>
  BY <1>1, <1>3, BeforeFacts DEF Clause, IfClause
<1> QED
  BY <1>2, <1>3

\* The fields of a job, of which all but the name are as they are without an argument.
LEMMA JobFields ==
    \A name : Job(name) = [name |-> name, cmd |-> Methods[name].cmd,
                           data |-> Methods[name].data, at |-> NoLocation, slot |-> NoSlot,
                           watch |-> NoWatch, condition |-> <<>>, file |-> 0]
BY DEF Job

LEMMA LineFields ==
    ASSUME NEW job
    PROVE  /\ LineOf(job).cmd = job.cmd /\ LineOf(job).at = job.at
           /\ LineOf(job).slot = job.slot /\ LineOf(job).watch = job.watch
           /\ LineOf(job).words = Words(job)
BY DEF LineOf

LEMMA PointFields ==
    LET Is(name, cmd, data) == Methods[name].cmd = cmd /\ Methods[name].data = data
    IN  /\ Is("set_breakpoint", "sbp", "none") /\ Is("clear_breakpoint", "cbp", "none")
        /\ Is("clear_all_breakpoints", "cbp", "none") /\ Is("enable_breakpoint", "bp", "none")
        /\ Is("disable_breakpoint", "bp", "none") /\ Is("list_breakpoints", "lbp", "breakpoints")
        /\ Is("set_watchpoint", "swp", "echo") /\ Is("clear_watchpoint", "cwp", "none")
        /\ Is("enable_watchpoint", "wp", "none") /\ Is("disable_watchpoint", "wp", "none")
        /\ Is("list_watchpoints", "lwp", "watchpoints")
<1>1. \A cmd, data : Method(cmd, data).cmd = cmd /\ Method(cmd, data).data = data
  BY DEF Method
<1> QED
  BY <1>1, PointMethods

LEMMA SlotFacts == NoSlot # AllSlots /\ AllSlots \notin Slot
<1>1. NoSlot + 3 = 0 /\ NoSlot \in Int
  BY DEF NoSlot
<1>2. AllSlots + 1 = 0 /\ AllSlots \in Int
  BY DEF AllSlots
<1>3. AllSlots \notin Slot
  BY <1>2 DEF Slot
<1> QED
  BY <1>1, <1>2, <1>3

\* The words of a line, by the name of its tool.
LEMMA WordsFacts ==
    ASSUME NEW job
    PROVE  /\ job.name \in Arming /\ job.slot # AllSlots => Words(job) = IfClause(job.condition)
           /\ job.name \in Enabling \cup Disabling /\ job.slot # AllSlots =>
                  Words(job) = <<OnOff(job.name)>>
           /\ job.name = "clear_all_breakpoints" => Words(job) = <<"*">>
           /\ job.name \in {"clear_breakpoint", "clear_watchpoint"} =>
                  Words(job) = IF job.slot = AllSlots THEN <<"*">> ELSE <<>>
BY DEF Words, Arming, Enabling, Disabling

\* A line that is obeyed, and not refused, has its effect on the table.
LEMMA ObeyedFacts ==
    ASSUME NEW table, NEW line, NEW o \in Outcomes(table, line), o.terminator = "RDY"
    PROVE  IF line.cmd \in PointCommands THEN o \in Effects(table, line) ELSE o.table = table
<1>1. Refusal(table).terminator = "ERR"
  BY DEF Refusal
<1>2. \A data : Done(table, data).table = table
  BY DEF Done
<1>3. CASE line.cmd \in PointCommands
  BY <1>1, <1>3 DEF Outcomes
<1>4. CASE line.cmd \notin PointCommands
  <2>1. \E data : o = Done(table, data)
    BY <1>1, <1>4 DEF Outcomes
  <2> QED
    BY <1>2, <1>4, <2>1
<1> QED
  BY <1>3, <1>4

Changing == {
    "set_breakpoint", "clear_breakpoint", "clear_all_breakpoints", "enable_breakpoint",
    "disable_breakpoint", "set_watchpoint", "clear_watchpoint", "enable_watchpoint",
    "disable_watchpoint"}

\* What the tools that change no table return tells nothing of the tables.
LEMMA ToldNothing ==
    ASSUME NEW known, NEW job, job.name \notin Changing, NEW value
    PROVE  Told(known, job, value) = known
BY DEF Told, Changing

\* Whether a line was obeyed or refused, its tool tells the caller what it did.
TellsOf(table, job, o) ==
    \A got \in Parsed(job, o.data) :
        o.table = IF got.error = "none" THEN Told(table, job, got.value) ELSE table

LEMMA NothingParsed ==
    ASSUME NEW job, job.data = "none", NEW data
    PROVE  Parsed(job, data) = {Got(<<>>)} /\ Got(<<>>).error = "none"
BY DEF Parsed, Got

LEMMA BreakpointTold ==
    ASSUME NEW table, GoodTable(table), NEW job, NEW o \in Outcomes(table, LineOf(job)),
           o.terminator = "RDY",
           \/ \E at \in Location, condition \in Condition :
                  job = [Job("set_breakpoint") EXCEPT !.at = at, !.condition = condition]
           \/ \E name \in {"clear_breakpoint", "enable_breakpoint", "disable_breakpoint"},
                 at \in Location : job = [Job(name) EXCEPT !.at = at]
           \/ job = Job("clear_all_breakpoints")
    PROVE  TellsOf(table, job, o)
<1> DEFINE line == LineOf(job)
<1>1. /\ line.cmd = job.cmd /\ line.at = job.at /\ line.words = Words(job)
  BY LineFields
<1>2. line.cmd \in PointCommands => o \in Effects(table, line)
  BY ObeyedFacts
<1> HIDE DEF line
<1>3. \A tb : Done(tb, <<>>).table = tb /\ Done(tb, <<>>).data = <<>>
  BY DEF Done
<1>4. ASSUME job.data = "none", o.table = Told(table, job, Got(<<>>).value)
      PROVE  TellsOf(table, job, o)
  BY <1>4, NothingParsed DEF TellsOf
<1>5. NoSlot # AllSlots
  BY SlotFacts
<1>a. ASSUME NEW at \in Location, NEW condition \in Condition,
             job = [Job("set_breakpoint") EXCEPT !.at = at, !.condition = condition]
      PROVE  TellsOf(table, job, o)
  <2>1. /\ job.name = "set_breakpoint" /\ job.cmd = Methods["set_breakpoint"].cmd
        /\ job.data = Methods["set_breakpoint"].data
        /\ job.at = at /\ job.condition = condition /\ job.slot = NoSlot
    BY <1>a, JobFields
  <2>2. job.cmd = "sbp" /\ job.data = "none"
    BY <2>1, PointFields
  <2>3. Words(job) = IfClause(condition)
    BY <1>5, <2>1, WordsFacts DEF Arming
  <2>4. Clause(line.words) = condition
    BY <1>1, <2>3, ClauseFacts
  <2>5. o \in Effects(table, line) /\ line.cmd = "sbp" /\ line.at = at
    BY <1>1, <1>2, <2>1, <2>2, PointMethods
  <2>6. o = Done([table EXCEPT !.bps = Armed(table.bps, at, condition)], <<>>)
    BY <2>4, <2>5 DEF Effects
  <2>7. o.table = [table EXCEPT !.bps = Armed(table.bps, at, condition)]
    BY <1>3, <2>6
  <2>8. Told(table, job, Got(<<>>).value)
            = [table EXCEPT !.bps = Armed(table.bps, at, condition)]
    BY <2>1 DEF Told
  <2> QED
    BY <1>4, <2>2, <2>7, <2>8
<1>b. ASSUME NEW name \in {"clear_breakpoint", "enable_breakpoint", "disable_breakpoint"},
             NEW at \in Location, job = [Job(name) EXCEPT !.at = at]
      PROVE  TellsOf(table, job, o)
  <2>1. /\ job.name = name /\ job.cmd = Methods[name].cmd /\ job.data = Methods[name].data
        /\ job.at = at /\ job.slot = NoSlot
    BY <1>b, JobFields
  <2>2. job.data = "none"
    BY <2>1, PointFields
  <2>3. CASE name = "clear_breakpoint"
    <3>1. job.cmd = "cbp"
      BY <2>1, <2>3, PointFields
    <3>2. Words(job) = <<>>
      BY <1>5, <2>1, <2>3, WordsFacts
    <3>3. line.words # <<"*">>
      BY <1>1, <3>2, OneFacts
    <3>4. o \in Effects(table, line) /\ line.cmd = "cbp" /\ line.at = at
      BY <1>1, <1>2, <2>1, <3>1, PointMethods
    <3>5. o = Done([table EXCEPT !.bps = Cleared(table.bps, at)], <<>>)
      BY <3>3, <3>4 DEF Effects
    <3>6. o.table = [table EXCEPT !.bps = Cleared(table.bps, at)]
      BY <1>3, <3>5
    <3>7. Told(table, job, Got(<<>>).value) = [table EXCEPT !.bps = Cleared(table.bps, at)]
      BY <2>1, <2>3 DEF Told
    <3> QED
      BY <1>4, <2>2, <3>6, <3>7
  <2>4. CASE name \in {"enable_breakpoint", "disable_breakpoint"}
    <3> DEFINE flag == OnOff(name)
    <3>1. job.cmd = "bp"
      BY <2>1, <2>4, PointFields
    <3>2. Words(job) = <<flag>>
      BY <1>5, <2>1, <2>4, WordsFacts DEF Enabling, Disabling
    <3>3. flag = IF name = "enable_breakpoint" THEN "on" ELSE "off"
      BY <2>4 DEF OnOff, Enabling
    <3> HIDE DEF flag
    <3>4. line.words[1] = flag
      BY <1>1, <3>2, OneFacts
    <3>5. o \in Effects(table, line) /\ line.cmd = "bp" /\ line.at = at
      BY <1>1, <1>2, <2>1, <3>1, PointMethods
    <3>6. o = Done([table EXCEPT !.bps = Flagged(table.bps, at, flag)], <<>>)
      BY <3>4, <3>5 DEF Effects
    <3>7. o.table = [table EXCEPT !.bps = Flagged(table.bps, at, flag)]
      BY <1>3, <3>6
    <3>8. Told(table, job, Got(<<>>).value)
              = [table EXCEPT !.bps = Flagged(table.bps, at, flag)]
      BY <2>1, <2>4, <3>3 DEF Told
    <3> QED
      BY <1>4, <2>2, <3>7, <3>8
  <2> QED
    BY <2>3, <2>4
<1>c. CASE job = Job("clear_all_breakpoints")
  <2>1. /\ job.name = "clear_all_breakpoints"
        /\ job.cmd = Methods["clear_all_breakpoints"].cmd
        /\ job.data = Methods["clear_all_breakpoints"].data
    BY <1>c, JobFields
  <2>2. job.cmd = "cbp" /\ job.data = "none"
    BY <2>1, PointFields
  <2>3. Words(job) = <<"*">>
    BY <2>1, WordsFacts
  <2>4. o \in Effects(table, line) /\ line.cmd = "cbp" /\ line.words = <<"*">>
    BY <1>1, <1>2, <2>2, <2>3, PointMethods
  <2>5. o = Done([table EXCEPT !.bps = <<>>], <<>>)
    BY <2>4 DEF Effects
  <2>6. o.table = [table EXCEPT !.bps = <<>>]
    BY <1>3, <2>5
  <2>7. Told(table, job, Got(<<>>).value) = [table EXCEPT !.bps = <<>>]
    BY <2>1 DEF Told
  <2> QED
    BY <1>4, <2>2, <2>6, <2>7
<1> QED
  BY <1>a, <1>b, <1>c

LEMMA EchoParsed ==
    ASSUME NEW job, job.data = "echo", NEW k
    PROVE  Parsed(job, <<[type |-> "echo", id |-> k]>>) = {Got(<<[type |-> "echo", id |-> k]>>)}
<1> DEFINE echo == [type |-> "echo", id |-> k]
           I == {i \in 1..Len(<<echo>>) : <<echo>>[i].type = "echo"}
<1>1. echo.type = "echo"
  OBVIOUS
<1> HIDE DEF echo
<1>2. I = {1}
  BY <1>1, OneFacts
<1>3. Min(I) = 1
  <2>1. I \in SUBSET Nat /\ I # {}
    BY <1>2
  <2> QED
    BY <1>2, <2>1, MinFacts
<1>4. SelectInSeq(<<echo>>, LAMBDA line : line.type = "echo") = IF I # {} THEN Min(I) ELSE 0
  BY DEF SelectInSeq
<1> HIDE DEF I
<1>5. AssignedId(<<echo>>)
          = IF (IF I # {} THEN Min(I) ELSE 0) = 0 THEN Fails("X16dbgError")
            ELSE Got(<<<<echo>>[IF I # {} THEN Min(I) ELSE 0]>>)
  BY <1>4 DEF AssignedId
<1>6. AssignedId(<<echo>>) = Got(<<echo>>)
  BY <1>2, <1>3, <1>5, OneFacts
<1>7. Parsed(job, <<echo>>) = {AssignedId(<<echo>>)}
  BY DEF Parsed
<1> QED
  BY <1>6, <1>7 DEF echo

LEMMA WatchpointTold ==
    ASSUME NEW table, GoodTable(table), NEW job, NEW o \in Outcomes(table, LineOf(job)),
           o.terminator = "RDY",
           \/ \E watch \in Watch, condition \in Condition :
                  job = [Job("set_watchpoint") EXCEPT !.watch = watch, !.condition = condition]
           \/ \E name \in {"enable_watchpoint", "disable_watchpoint"}, slot \in Slot :
                  job = [Job(name) EXCEPT !.slot = slot]
           \/ \E slot \in Slot \cup {AllSlots} :
                  job = [Job("clear_watchpoint") EXCEPT !.slot = slot]
    PROVE  TellsOf(table, job, o)
<1> DEFINE line == LineOf(job)
           wps == table.wps
<1>1. /\ line.cmd = job.cmd /\ line.slot = job.slot /\ line.watch = job.watch
      /\ line.words = Words(job)
  BY LineFields
<1>2. line.cmd \in PointCommands => o \in Effects(table, line)
  BY ObeyedFacts
<1>3. table = [bps |-> table.bps, wps |-> wps] /\ wps = [k \in Slot |-> wps[k]]
  BY DEF GoodTable
<1> HIDE DEF line, wps
<1>4. \A tb, data : Done(tb, data).table = tb /\ Done(tb, data).data = data
  BY DEF Done
<1>5. ASSUME job.data = "none", o.table = Told(table, job, Got(<<>>).value)
      PROVE  TellsOf(table, job, o)
  BY <1>5, NothingParsed, ZenonT(40) DEF TellsOf
<1>a. ASSUME NEW watch \in Watch, NEW condition \in Condition,
             job = [Job("set_watchpoint") EXCEPT !.watch = watch, !.condition = condition]
      PROVE  TellsOf(table, job, o)
  <2>1. /\ job.name = "set_watchpoint" /\ job.cmd = Methods["set_watchpoint"].cmd
        /\ job.data = Methods["set_watchpoint"].data
        /\ job.watch = watch /\ job.condition = condition /\ job.slot = NoSlot
    BY <1>a, JobFields
  <2>2. job.cmd = "swp" /\ job.data = "echo"
    BY <2>1, PointFields, ZenonT(40)
  <2>3. Words(job) = IfClause(condition)
    BY <2>1, SlotFacts, WordsFacts DEF Arming
  <2>4. Clause(line.words) = condition
    BY <1>1, <2>3, ClauseFacts
  <2>5. o \in Effects(table, line) /\ line.cmd = "swp" /\ line.watch = watch
    BY <1>1, <1>2, <2>1, <2>2, PointMethods
  <2> DEFINE Echo(k) == [type |-> "echo", id |-> k]
  <2>6. PICK k \in Slot : o = Done([table EXCEPT !.wps[k] = Watchpoint(watch, condition)],
                                   <<Echo(k)>>)
    BY <2>4, <2>5 DEF Effects
  <2>7. o.table = [table EXCEPT !.wps[k] = Watchpoint(watch, condition)] /\ o.data = <<Echo(k)>>
    BY <1>4, <2>6
  <2>8. Parsed(job, o.data) = {Got(<<Echo(k)>>)}
    <3>1. Parsed(job, <<Echo(k)>>) = {Got(<<Echo(k)>>)}
      BY <2>2, EchoParsed
    <3> QED
      BY <2>7, <3>1
  <2>9. Got(<<Echo(k)>>).error = "none" /\ Got(<<Echo(k)>>).value = <<Echo(k)>>
    BY DEF Got
  <2>10. <<Echo(k)>>[1].id = k
    BY OneFacts
  <2>11. Told(table, job, <<Echo(k)>>)
             = [table EXCEPT !.wps[<<Echo(k)>>[1].id] = Watchpoint(job.watch, job.condition)]
    BY <2>1 DEF Told
  <2> HIDE DEF Echo
  <2> QED
    BY <2>1, <2>7, <2>8, <2>9, <2>10, <2>11 DEF TellsOf
<1>b. ASSUME NEW name \in {"enable_watchpoint", "disable_watchpoint"}, NEW slot \in Slot,
             job = [Job(name) EXCEPT !.slot = slot]
      PROVE  TellsOf(table, job, o)
  <2> DEFINE flag == OnOff(name)
  <2>1. /\ job.name = name /\ job.cmd = Methods[name].cmd /\ job.data = Methods[name].data
        /\ job.slot = slot
    BY <1>b, JobFields
  <2>2. job.data = "none" /\ job.cmd = "wp"
    <3>1. \A known \in {"enable_watchpoint", "disable_watchpoint"} :
              Methods[known].cmd = "wp" /\ Methods[known].data = "none"
      BY PointFields, ZenonT(40)
    <3> QED
      BY <2>1, <3>1
  <2>3. Words(job) = <<flag>>
    BY <2>1, SlotFacts, WordsFacts DEF Enabling, Disabling
  <2>4. flag = IF name = "enable_watchpoint" THEN "on" ELSE "off"
    BY DEF OnOff, Enabling
  <2> HIDE DEF flag
  <2>5. line.words[1] = flag
    BY <1>1, <2>3, OneFacts, ZenonT(40)
  <2>6. o \in Effects(table, line) /\ line.cmd = "wp" /\ line.slot = slot
    BY <1>1, <1>2, <2>1, <2>2, PointMethods
  <2>7. o = Done([table EXCEPT !.wps = [wps EXCEPT ![slot].flag = flag]], <<>>)
    BY <2>5, <2>6 DEF Effects, wps
  <2>8. o.table = [table EXCEPT !.wps = [wps EXCEPT ![slot].flag = flag]]
    BY <1>4, <2>7
  <2>9. Told(table, job, Got(<<>>).value) = [table EXCEPT !.wps[slot].flag = flag]
    BY <2>1, <2>4 DEF Told
  <2>10. [table EXCEPT !.wps[slot].flag = flag]
             = [table EXCEPT !.wps = [wps EXCEPT ![slot].flag = flag]]
    BY DEF wps
  <2> QED
    BY <1>5, <2>2, <2>8, <2>9, <2>10
<1>c. ASSUME NEW slot \in Slot \cup {AllSlots},
             job = [Job("clear_watchpoint") EXCEPT !.slot = slot]
      PROVE  TellsOf(table, job, o)
  <2>1. /\ job.name = "clear_watchpoint" /\ job.cmd = Methods["clear_watchpoint"].cmd
        /\ job.data = Methods["clear_watchpoint"].data /\ job.slot = slot
    BY <1>c, JobFields
  <2>2. job.data = "none" /\ job.cmd = "cwp"
    BY <2>1, PointFields
  <2>3. o \in Effects(table, line) /\ line.cmd = "cwp" /\ line.slot = slot
    BY <1>1, <1>2, <2>1, <2>2, PointMethods
  <2>4. line.words = IF slot = AllSlots THEN <<"*">> ELSE <<>>
    BY <1>1, <2>1, WordsFacts
  <2> DEFINE cleared == [k \in Slot |-> IF slot \in {k, AllSlots} THEN NoWatchpoint ELSE wps[k]]
  <2>5. Told(table, job, Got(<<>>).value) = [table EXCEPT !.wps = cleared]
    BY <2>1 DEF Told, wps
  <2>6. CASE slot = AllSlots
    <3>1. o = Done([table EXCEPT !.wps = EmptyTable.wps], <<>>)
      BY <2>3, <2>4, <2>6 DEF Effects
    <3>2. EmptyTable.wps = cleared
      BY <2>6 DEF EmptyTable
    <3>3. o.table = [table EXCEPT !.wps = EmptyTable.wps]
      BY <1>4, <3>1
    <3> HIDE DEF cleared
    <3> QED
      BY <1>5, <2>2, <2>5, <3>2, <3>3
  <2>7. CASE slot \in Slot
    <3>1. slot # AllSlots
      BY <2>7, SlotFacts
    <3>2. line.words # <<"*">>
      BY <2>4, <3>1, OneFacts
    <3>3. o = Done([table EXCEPT !.wps = [wps EXCEPT ![slot] = NoWatchpoint]], <<>>)
      BY <2>3, <3>2 DEF Effects, wps
    <3>4. [wps EXCEPT ![slot] = NoWatchpoint] = cleared
      BY <1>3, <3>1
    <3>5. o.table = [table EXCEPT !.wps = [wps EXCEPT ![slot] = NoWatchpoint]]
      BY <1>4, <3>3
    <3> HIDE DEF cleared
    <3> QED
      BY <1>5, <2>2, <2>5, <3>4, <3>5
  <2> QED
    BY <2>6, <2>7
<1> QED
  BY <1>a, <1>b, <1>c

\* The tools whose call is not their last, or whose reply is not what they return.
Keeps(job) == job.name \in Resuming \cup {"screenshot", "write_memory"}

LEMMA JobTold ==
    ASSUME NEW table, GoodTable(table), NEW job, IsJob(job),
           NEW o \in Outcomes(table, LineOf(job)), o.terminator = "RDY"
    PROVE  /\ Keeps(job) => o.table = table
           /\ ~Keeps(job) => TellsOf(table, job, o)
<1> DEFINE line == LineOf(job)
<1>1. IF line.cmd \in PointCommands THEN o \in Effects(table, line) ELSE o.table = table
  BY ObeyedFacts
<1>2. line.cmd = job.cmd
  BY LineFields
<1> HIDE DEF line
<1>3. Changing \subseteq PointTools
  BY ClassDomains DEF Changing, PointTools
<1>4. ASSUME o.table = table, job.name \notin Changing
      PROVE  TellsOf(table, job, o)
  BY <1>4, ToldNothing DEF TellsOf
<1>5. ASSUME NEW name \in DOMAIN Methods \ PointTools,
             job.name = name, job.cmd = Methods[name].cmd
      PROVE  o.table = table /\ job.name \notin Changing
  BY <1>1, <1>2, <1>3, <1>5, OtherMethods
<1>a. ASSUME NEW name \in Reads \cup Orders \cup Resuming \cup {"write_memory"},
             job = Job(name)
      PROVE  o.table = table /\ job.name \notin Changing
  <2>1. job.name = name /\ job.cmd = Methods[name].cmd /\ name \in DOMAIN Methods \ PointTools
    BY <1>a, JobFields, NamesOther
  <2> QED
    BY <1>5, <2>1
<1>b. ASSUME NEW n \in Nat \ {0}, job = [Job("screenshot") EXCEPT !.file = n]
      PROVE  o.table = table /\ job.name \notin Changing
  <2>1. /\ job.name = "screenshot" /\ job.cmd = Methods["screenshot"].cmd
        /\ "screenshot" \in DOMAIN Methods \ PointTools
    BY <1>b, JobFields, NamesOther
  <2> QED
    BY <1>5, <2>1
<1>c. ASSUME NEW raw \in ReadCommands,
             job = [Job("state") EXCEPT !.name = "x16db", !.cmd = raw]
      PROVE  o.table = table /\ job.name \notin Changing
  <2>1. job.name = "x16db" /\ job.cmd = raw
    BY <1>c, JobFields
  <2> QED
    BY <1>1, <1>2, <2>1, ReadCommandsApart DEF Changing
<1>d. ASSUME NEW name \in {"list_breakpoints", "list_watchpoints"}, job = Job(name)
      PROVE  o.table = table /\ job.name \notin Changing /\ ~Keeps(job)
  <2>1. job.name = name /\ job.cmd = Methods[name].cmd
    BY <1>d, JobFields
  <2>2. job.cmd \in {"lbp", "lwp"}
    BY <2>1, PointFields
  <2>3. o \in Effects(table, line)
    BY <1>1, <1>2, <2>2, PointMethods
  <2>4. \A data : Done(table, data).table = table
    BY DEF Done
  <2>5. o.table = table
    BY <1>2, <2>2, <2>3, <2>4 DEF Effects
  <2> QED
    BY <2>1, <2>5 DEF Changing, Keeps, Resuming
<1>e. ASSUME \/ \E at \in Location, condition \in Condition :
                    job = [Job("set_breakpoint") EXCEPT !.at = at, !.condition = condition]
             \/ \E name \in {"clear_breakpoint", "enable_breakpoint", "disable_breakpoint"},
                   at \in Location : job = [Job(name) EXCEPT !.at = at]
             \/ job = Job("clear_all_breakpoints")
      PROVE  TellsOf(table, job, o) /\ ~Keeps(job)
  <2>1. TellsOf(table, job, o)
    BY <1>e, BreakpointTold
  <2>2. job.name \in Changing
    <3>1. ASSUME NEW at \in Location, NEW condition \in Condition,
                 job = [Job("set_breakpoint") EXCEPT !.at = at, !.condition = condition]
          PROVE  job.name = "set_breakpoint"
      BY <3>1, JobFields
    <3>2. ASSUME NEW name, NEW at, job = [Job(name) EXCEPT !.at = at]
          PROVE  job.name = name
      BY <3>2, JobFields
    <3>3. Job("clear_all_breakpoints").name = "clear_all_breakpoints"
      BY JobFields
    <3> QED
      BY <1>e, <3>1, <3>2, <3>3 DEF Changing
  <2> QED
    BY <2>1, <2>2 DEF Changing, Keeps, Resuming
<1>f. ASSUME \/ \E watch \in Watch, condition \in Condition :
                    job = [Job("set_watchpoint") EXCEPT !.watch = watch,
                                                        !.condition = condition]
             \/ \E name \in {"enable_watchpoint", "disable_watchpoint"}, slot \in Slot :
                    job = [Job(name) EXCEPT !.slot = slot]
             \/ \E slot \in Slot \cup {AllSlots} :
                    job = [Job("clear_watchpoint") EXCEPT !.slot = slot]
      PROVE  TellsOf(table, job, o) /\ ~Keeps(job)
  <2>1. TellsOf(table, job, o)
    BY <1>f, WatchpointTold
  <2>2. job.name \in Changing
    <3>1. ASSUME NEW watch \in Watch, NEW condition \in Condition,
                 job = [Job("set_watchpoint") EXCEPT !.watch = watch, !.condition = condition]
          PROVE  job.name = "set_watchpoint"
      BY <3>1, JobFields
    <3>2. ASSUME NEW name, NEW slot, job = [Job(name) EXCEPT !.slot = slot]
          PROVE  job.name = name
      BY <3>2, JobFields
    <3> QED
      BY <1>f, <3>1, <3>2 DEF Changing
  <2> QED
    BY <2>1, <2>2 DEF Changing, Keeps, Resuming
<1>g. CASE o.table = table /\ job.name \notin Changing
  BY <1>4, <1>g
<1> QED
  BY <1>a, <1>b, <1>c, <1>d, <1>e, <1>f, <1>g DEF IsJob, PlainNames

-----------------------------------------------------------------------------
(* The tables are what the caller knows of them. *)

\* With its reply taken, the caller knows the table; the tools that go on after a reply
\* have changed none.
After(s, reply) ==
    IF reply.terminator = "ERR" \/ Keeps(tool.job) THEN emu[s].table = view[s]
    ELSE \A got \in Parsed(tool.job, reply.data) :
             emu[s].table = IF got.error = "none" THEN Told(view[s], tool.job, got.value)
                            ELSE view[s]

TableOf(s) ==
    /\ emu[s].replies = <<>> => emu[s].table = view[s]
    /\ \A i \in DOMAIN emu[s].replies : After(s, emu[s].replies[i])

TableInv == \A s \in SessionId : Sure(s) /\ emu[s].process = "up" => TableOf(s)

LEMMA RepliesInCall ==
    ServiceInv => \A s \in SessionId : Sure(s) /\ emu[s].replies # <<>> => InCall(s)
BY QuietFacts DEF ServiceInv, OrderInv

\* Nothing of what a session's table is known by is changed.
LEMMA TableKept ==
    ASSUME ServiceInv, ServiceInv', Next, TableInv, NEW t \in SessionId,
           Sure(t)', emu'[t].process = "up",
           emu'[t] = emu[t], view'[t] = view[t], lost'[t] = lost[t]
    PROVE  TableOf(t)'
<1>1. Sure(t) /\ TableOf(t)
  BY DEF Sure, TableInv
<1>2. CASE emu[t].replies = <<>>
  BY <1>1, <1>2, EmptyFacts DEF TableOf
<1>3. CASE emu[t].replies # <<>>
  <2>1. InCall(t)
    BY <1>1, <1>3, QuietFacts DEF ServiceInv, OrderInv
  <2>2. InCall(t)'
    <3>1. (ServiceInv => \A s \in SessionId : Sure(s) /\ emu[s].replies # <<>> => InCall(s))'
      BY RepliesInCall, PTL
    <3> QED
      BY <1>3, <3>1
  <2>3. UNCHANGED tool
    BY <2>1, <2>2, CallCases
  <2> QED
    BY <1>1, <2>3 DEF TableOf, After, Keeps
<1> QED
  BY <1>2, <1>3

\* A session with no call in progress, whose table is not changed and that is not replied to.
LEMMA TableQuiet ==
    ASSUME ServiceInv, TableInv, NEW t \in SessionId, Sure(t), emu[t].process = "up",
           ~InCall(t), emu'[t].table = emu[t].table, emu'[t].replies = emu[t].replies,
           view'[t] = view[t]
    PROVE  TableOf(t)'
<1>1. emu[t].replies = <<>>
  BY QuietFacts DEF ServiceInv, OrderInv
<1>2. emu[t].table = view[t]
  BY <1>1 DEF TableInv, TableOf
<1> QED
  BY <1>1, <1>2, EmptyFacts DEF TableOf

LEMMA TableObey ==
    ASSUME ServiceInv, LineInv, TableInv, NEW t \in SessionId, Sure(t), Obey(t)
    PROVE  TableOf(t)'
<1> DEFINE line == Head(emu[t].pending)
<1>1. /\ Shape /\ OrderOf(t) /\ GoodEmu(emu[t]) /\ GoodTable(emu[t].table)
      /\ emu[t].process = "up"
  BY DEF ServiceInv, OrderInv, Shape, GoodEmu, Obey
<1>2. line = emu[t].pending[1] /\ 1 \in DOMAIN emu[t].pending /\ emu[t].pending # <<>> /\ InCall(t)
  BY ObeyFiles
<1>3. emu[t].replies = <<>>
  BY <1>1, <1>2, QuietFacts
<1>4. emu[t].table = view[t]
  BY <1>1, <1>3 DEF TableInv, TableOf
<1>5. line = LineOf(tool.job)
  BY <1>2 DEF LineInv
<1>6. IsJob(tool.job)
  BY <1>2 DEF ServiceInv, ToolInv, BusyWith, Waiting, Calling, InCall, IsTool
<1>7. Obeys(t) /\ UNCHANGED <<tool, view>>
  BY DEF Obey, Obeys
<1>8. PICK o \in Outcomes(emu[t].table, line) :
          /\ emu'[t].table = o.table
          /\ emu'[t].replies = Append(emu[t].replies,
                                      [answers |-> client[t].sent - Len(emu[t].pending) + 1,
                                       terminator |-> o.terminator, data |-> o.data])
  BY <1>1, <1>7, ObeysFacts
<1>9. PICK reply : /\ emu'[t].replies = Append(<<>>, reply)
                   /\ reply.terminator = o.terminator /\ reply.data = o.data
  BY <1>3, <1>8
<1> HIDE DEF line
<1>10. o.terminator \in {"ERR", "RDY"} /\ (o.terminator = "ERR" => o.table = emu[t].table)
  BY <1>1, <1>8, OutcomesGood
<1>11. o.terminator = "RDY" =>
           /\ Keeps(tool.job) => o.table = emu[t].table
           /\ ~Keeps(tool.job) => TellsOf(emu[t].table, tool.job, o)
  BY <1>1, <1>5, <1>6, <1>8, JobTold
<1>12. After(t, reply)'
  <2>1. CASE o.terminator = "ERR"
    BY <1>4, <1>7, <1>8, <1>9, <1>10, <2>1 DEF After
  <2>2. CASE o.terminator = "RDY" /\ Keeps(tool.job)
    BY <1>4, <1>7, <1>8, <1>9, <1>11, <2>2 DEF After, Keeps
  <2>3. CASE o.terminator = "RDY" /\ ~Keeps(tool.job)
    BY <1>4, <1>7, <1>8, <1>9, <1>11, <2>3 DEF After, Keeps, TellsOf
  <2> QED
    BY <1>10, <2>1, <2>2, <2>3
<1>13. emu'[t].replies # <<>> /\ \A i \in DOMAIN emu'[t].replies : emu'[t].replies[i] = reply
  BY <1>9, EmptyFacts, AppendFacts
<1> QED
  BY <1>12, <1>13 DEF TableOf

\* The reply is taken, and with it what the caller knows.
LEMMA TableTaken ==
    ASSUME ServiceInv, TableInv, NEW t \in SessionId, Sure(t), Takes(t),
           emu'[t].process = "up",
           LET reply == Head(emu[t].replies)
           IN  After(t, reply) => emu[t].table = view'[t]
    PROVE  TableOf(t)'
<1>1. /\ Shape /\ OrderOf(t) /\ IsSeq(emu[t].replies)
  BY DEF ServiceInv, OrderInv, Shape, GoodEmu
<1>2. /\ emu[t].replies # <<>> /\ emu'[t].replies = Tail(emu[t].replies)
      /\ emu'[t].table = emu[t].table /\ emu[t].process = "up"
  <2>1. emu' = [emu EXCEPT ![t].replies = Tail(@)] /\ emu[t].replies # <<>>
    BY DEF Takes, TakeReply
  <2>2. GoodEmu(emu[t])
    BY <1>1 DEF Shape
  <2> QED
    BY <1>1, <2>1, <2>2 DEF Shape, GoodEmu
<1>3. After(t, Head(emu[t].replies))
  BY <1>1, <1>2, TailFacts DEF TableInv, TableOf
<1>4. emu'[t].table = view'[t]
  BY <1>2, <1>3
<1>5. Len(emu[t].replies) = 1
  BY <1>1, <1>2, QuietFacts
<1>6. emu'[t].replies = <<>>
  <2>1. IsSeq(Tail(emu[t].replies)) /\ Len(Tail(emu[t].replies)) = 0
    BY <1>1, <1>2, <1>5, TailFacts
  <2> QED
    BY <1>2, <2>1, SeqFacts
<1> QED
  BY <1>4, <1>6, EmptyFacts DEF TableOf

\* The tool takes its reply, and tells what it makes of it.
LEMMA TableReplied ==
    ASSUME ServiceInv, TableInv, NEW t \in SessionId, Sure(t), Replied(t),
           emu'[t].process = "up"
    PROVE  TableOf(t)'
<1> DEFINE reply == Head(emu[t].replies)
<1>1. Takes(t)
  BY RepliedStep DEF ServiceInv
<1>2. reply.terminator = "RDY" /\ ToolInv /\ Shape /\ ~Idle /\ client[t].busy = "loop"
  BY DEF Replied, ServiceInv
<1>3. IsTool /\ tool.job.name \notin Resuming /\ IsJob(tool.job)
  BY <1>2 DEF ToolInv, BusyWith, IsTool
<1>4. \/ tool.left > 0 /\ UNCHANGED view
      \/ tool.job.name = "screenshot" /\ UNCHANGED view
      \/ \E got \in Parsed(tool.job, reply.data) :
             IF got.error = "none" THEN Tell(t, got.value) ELSE UNCHANGED view
  BY DEF Replied
<1> HIDE DEF reply
<1>5. CASE Keeps(tool.job)
  <2>1. tool.job.name \in {"screenshot", "write_memory"}
    BY <1>3, <1>5 DEF Keeps
  <2>2. \A value : Told(view[t], tool.job, value) = view[t]
    BY <2>1, ToldNothing DEF Changing
  <2>3. view'[t] = view[t]
    <3>1. ASSUME NEW value, Tell(t, value) PROVE view'[t] = view[t]
      BY <1>2, <2>2, <3>1 DEF Tell, Shape
    <3> QED
      BY <1>4, <3>1
  <2>4. After(t, reply) => emu[t].table = view'[t]
    BY <1>5, <2>3 DEF After
  <2> QED
    BY <1>1, <2>4, TableTaken DEF reply
<1>6. CASE ~Keeps(tool.job)
  <2>1. ~(tool.left > 0) /\ tool.job.name # "screenshot"
    BY <1>3, <1>6 DEF IsTool, Keeps
  <2>2. PICK got \in Parsed(tool.job, reply.data) :
            IF got.error = "none" THEN Tell(t, got.value) ELSE UNCHANGED view
    BY <1>4, <2>1
  <2>3. view'[t] = IF got.error = "none" THEN Told(view[t], tool.job, got.value) ELSE view[t]
    BY <1>2, <2>2 DEF Tell, Shape
  <2>4. After(t, reply) => emu[t].table = view'[t]
    <3> SUFFICES ASSUME After(t, reply) PROVE emu[t].table = view'[t]
      OBVIOUS
    <3>1. \A g \in Parsed(tool.job, reply.data) :
              emu[t].table = IF g.error = "none" THEN Told(view[t], tool.job, g.value)
                             ELSE view[t]
      BY <1>2, <1>6 DEF After, reply
    <3> QED
      BY <2>2, <2>3, <3>1
  <2> QED
    BY <1>1, <2>4, TableTaken DEF reply
<1> QED
  BY <1>5, <1>6

LEMMA TableWork ==
    ASSUME ServiceInv, ServiceInv', Next, TableInv, NEW t \in SessionId, Work(t),
           Sure(t)', emu'[t].process = "up"
    PROVE  TableOf(t)'
<1> USE DEF ServiceInv
<1>1. Calling(t) /\ tool.session = t
  BY DEF Work, Refused, Replied, NextLine, OpenFile, Resumed, Observed, GiveUp, Answers, Calling
<1>2. CASE GiveUp(t)
  <2>1. lost'[t] = "now"
    BY <1>2 DEF GiveUp, Shape
  <2> QED
    BY <2>1 DEF Sure
<1>3. ~GiveUp(t) => UNCHANGED lost
  BY DEF Work, Refused, Replied, NextLine, OpenFile, Resumed, Observed
<1>4. ~GiveUp(t) => Sure(t)
  BY <1>3 DEF Sure
<1>5. CASE Refused(t)
  <2>1. Takes(t) /\ Sure(t)
    BY <1>4, <1>5, RefusedStep DEF Sure, Refused
  <2>2. LET reply == Head(emu[t].replies) IN After(t, reply) => emu[t].table = view'[t]
    BY <1>5 DEF Refused, After
  <2> QED
    BY <2>1, <2>2, TableTaken
<1>6. CASE Replied(t)
  <2>1. Sure(t)
    BY <1>6 DEF Replied, Sure
  <2> QED
    BY <1>6, <2>1, TableReplied
<1>7. CASE NextLine(t)
  <2>1. UNCHANGED <<view, lost>> /\ tool.stage = "line"
    BY <1>7 DEF NextLine
  <2>2. Sure(t) /\ ~InCall(t)
    BY <1>1, <2>1 DEF Sure, ToolInv, BusyWith, Waiting, InCall
  <2>3. CASE emu[t].process = "up" /\ Send(t, tool.job)
    <3>1. GoodEmu(emu[t])
      BY DEF Shape
    <3>2. emu'[t].table = emu[t].table /\ emu'[t].replies = emu[t].replies
      BY <2>3, <3>1 DEF Send, Shape, GoodEmu
    <3> QED
      BY <2>1, <2>2, <2>3, <3>2, TableQuiet
  <2>4. CASE emu[t].process = "gone" /\ UNCHANGED emu
    BY <2>4
  <2> QED
    BY <1>7, <2>3, <2>4 DEF NextLine
<1>8. CASE OpenFile(t)
  BY <1>8, TableKept DEF OpenFile
<1>9. CASE Resumed(t)
  <2>1. Takes(t) /\ Sure(t) /\ UNCHANGED view /\ client[t].busy = "resumeLoop"
    BY <1>9, ResumedStep DEF Resumed, Sure
  <2>2. Keeps(tool.job)
    BY <2>1 DEF ToolInv, BusyWith, Keeps
  <2>3. LET reply == Head(emu[t].replies) IN After(t, reply) => emu[t].table = view'[t]
    BY <2>1, <2>2 DEF After
  <2> QED
    BY <2>1, <2>3, TableTaken
<1>10. CASE Observed(t)
  <2>1. UNCHANGED <<view, lost>> /\ client[t].busy = "resumeWait"
    BY <1>10 DEF Observed
  <2>2. Sure(t) /\ ~InCall(t)
    BY <2>1 DEF Sure, InCall
  <2>3. emu[t].replies = <<>>
    BY <2>2, RepliesInCall
  <2>4. UNCHANGED emu
    BY <1>10, <2>3 DEF Observed, TakeReply
  <2> QED
    BY <2>1, <2>4, TableKept
<1> QED
  BY <1>2, <1>5, <1>6, <1>7, <1>8, <1>9, <1>10 DEF Work

LEMMA TableNext ==
    ASSUME ServiceInv, ServiceInv', LineInv, TableInv, Next
    PROVE  TableInv'
<1> SUFFICES ASSUME NEW t \in SessionId, Sure(t)', emu'[t].process = "up"
             PROVE  TableOf(t)'
  BY DEF TableInv
<1> USE DEF ServiceInv
<1>1. PICK s \in SessionId :
          \/ CreateSession(s) \/ CloseSession(s) \/ BootProgram(s)
          \/ Start(s) \/ Work(s) \/ Obey(s) \/ Exit(s)
  BY DEF Next
<1>2. ASSUME emu'[t] = emu[t], view'[t] = view[t], lost'[t] = lost[t]
      PROVE  TableOf(t)'
  BY <1>2, TableKept
<1>3. CASE Stops(s) /\ UNCHANGED view
  <2>1. s = t => emu'[t].process = "gone"
    BY <1>3, StopsFacts
  <2>2. s # t => emu'[t] = emu[t] /\ view'[t] = view[t] /\ lost'[t] = lost[t]
    BY <1>3, ClientStepFacts DEF ClientStep
  <2> QED
    BY <1>2, <2>1, <2>2
<1>4. CASE Respawned(s)
  <2>1. CASE s = t
    <3>1. emu'[t] = NewEmulator /\ view'[t] = EmptyTable
      BY <1>4, <2>1 DEF Respawned, Shape
    <3>2. emu'[t].table = view'[t] /\ emu'[t].replies = <<>>
      BY <3>1 DEF NewEmulator
    <3> QED
      BY <3>2, EmptyFacts DEF TableOf
  <2>2. CASE s # t
    <3>1. emu'[t] = emu[t] /\ view'[t] = view[t] /\ lost'[t] = lost[t]
      BY <1>4, <2>2 DEF Respawned, Shape
    <3> QED
      BY <1>2, <3>1
  <2> QED
    BY <2>1, <2>2
<1>a. CASE CreateSession(s) \/ CloseSession(s) \/ BootProgram(s)
  <2>1. (Stops(s) /\ UNCHANGED view) \/ Respawned(s)
    BY <1>a DEF CreateSession, CloseSession, BootProgram, Stops
  <2> QED
    BY <1>3, <1>4, <2>1
<1>b. CASE Start(s)
  <2>1. MayCall /\ Begins(s) /\ Idle
    BY <1>b, StartCases DEF MayCall
  <2>2. CASE UNCHANGED <<emu, view, lost>>
    BY <1>2, <2>2
  <2>3. ASSUME NEW job, IsJob(job), Begin(s, job)
        PROVE  TableOf(t)'
    <3>1. Sends(s) /\ UNCHANGED <<view, lost>> /\ emu[s].process = "up"
      BY <2>1, <2>3, BeginStep DEF Begin
    <3>2. CASE s # t
      <4>1. emu'[t] = emu[t]
        BY <3>1, <3>2, ClientStepFacts DEF ClientStep
      <4> QED
        BY <1>2, <3>1, <4>1
    <3>3. CASE s = t
      <4>1. ~InCall(t)
        BY <2>1 DEF ToolInv, BusyWith, Waiting, Calling, InCall
      <4>2. GoodEmu(emu[t])
        BY DEF Shape
      <4>3. emu'[t].table = emu[t].table /\ emu'[t].replies = emu[t].replies
        BY <2>3, <3>3, <4>2 DEF Begin, Send, Shape, GoodEmu
      <4>4. Sure(t)
        BY <3>1 DEF Sure
      <4> QED
        BY <3>1, <3>3, <4>1, <4>3, <4>4, TableQuiet
    <3> QED
      BY <3>2, <3>3
  <2> QED
    BY <2>1, <2>2, <2>3 DEF Begins, BeginFails
<1>c. CASE Work(s)
  <2>1. CASE s = t
    BY <1>c, <2>1, TableWork
  <2>2. CASE s # t
    <3>1. ClientStep(s) \/ Kept
      BY <1>c, RefusedStep, RepliedStep, NextLineStep, OpenFileStep, ResumedStep, ObservedStep,
         GiveUpStep DEF Work, ClientStep
    <3>2. emu'[t] = emu[t] /\ lost'[t] = lost[t]
      BY <2>2, <3>1, ClientStepFacts DEF Kept
    <3>3. view'[t] = view[t]
      <4>1. CASE Replied(s)
        BY <2>2, <4>1 DEF Replied, Tell, Shape
      <4>2. CASE GiveUp(s)
        BY <2>2, <4>2 DEF GiveUp, Shape
      <4>3. CASE UNCHANGED view
        BY <4>3
      <4> QED
        BY <1>c, <4>1, <4>2, <4>3 DEF Work, Refused, NextLine, OpenFile, Resumed, Observed
    <3> QED
      BY <1>2, <3>2, <3>3
  <2> QED
    BY <2>1, <2>2
<1>d. CASE Obey(s)
  <2>1. CASE s = t
    <3>1. Sure(t)
      BY <1>d DEF Obey, Sure
    <3> QED
      BY <1>d, <2>1, <3>1, TableObey
  <2>2. CASE s # t
    BY <1>2, <1>d, <2>2 DEF Obey, Shape
  <2> QED
    BY <2>1, <2>2
<1>e. CASE Exit(s)
  <2>1. Stops(s) /\ UNCHANGED view
    BY <1>e DEF Exit, Stops
  <2> QED
    BY <1>3, <2>1
<1> QED
  BY <1>1, <1>a, <1>b, <1>c, <1>d, <1>e

TablesInv == FilesInv /\ TableInv

LEMMA TablesAlways == Spec => []TablesInv
<1>1. Init => TableInv
  <2> SUFFICES ASSUME Init, NEW s \in SessionId, emu[s].process = "up" PROVE FALSE
    BY DEF TableInv
  <2>1. GoodEmu(NewEmulator)
    BY EmptyTableGood, EmptyFacts DEF GoodEmu, NewEmulator
  <2>2. Closed(NewEmulator).process = "gone"
    BY <2>1 DEF Closed, GoodEmu
  <2> QED
    BY <2>2 DEF Init
<1>2. TablesInv /\ FilesInv' /\ Next => TableInv'
  BY TableNext DEF TablesInv, FilesInv
<1>3. TableInv /\ UNCHANGED vars => TableInv'
  BY DEF TableInv, TableOf, After, Keeps, Sure, vars
<1> QED
  BY <1>1, <1>2, <1>3, FilesAlways, PTL DEF Spec, TablesInv

\* Between tools, as long as no call of a session has given up, its breakpoints and
\* watchpoints are those the tools' results tell of (breakpoints.py, watchpoints.py).
THEOREM TablesTold == Spec => []TablesAsTold
<1>1. TablesInv => TablesAsTold
  <2> SUFFICES ASSUME TablesInv, Idle, NEW s \in SessionId, emu[s].process = "up", Sure(s)
               PROVE  emu[s].table = view[s]
    BY DEF TablesAsTold
  <2>1. ServiceInv /\ TableOf(s)
    BY DEF TablesInv, FilesInv, TableInv
  <2>2. ~InCall(s)
    BY <2>1 DEF ServiceInv, ToolInv, BusyWith, Waiting, Calling, InCall
  <2>3. emu[s].replies = <<>>
    BY <2>1, <2>2, RepliesInCall
  <2> QED
    BY <2>1, <2>3 DEF TableOf
<1> QED
  BY <1>1, TablesAlways, PTL

-----------------------------------------------------------------------------
(* What a row of a listing tells. *)

GoodBp(bp) ==
    bp = [at |-> bp.at, condition |-> bp.condition, flag |-> bp.flag] /\ GoodPoint(bp)

GoodWp(wp) ==
    wp = [watch |-> wp.watch, condition |-> wp.condition, flag |-> wp.flag] /\ GoodPoint(wp)

GoodPoints(table) ==
    /\ \A i \in DOMAIN table.bps : GoodBp(table.bps[i])
    /\ \A k \in Slot : GoodWp(table.wps[k])

LEMMA AfterFacts ==
    ASSUME NEW s, IsSeq(s), NEW x
    PROVE  LET w == s \o <<x>>
           IN  w # <<>> /\ Last(w) = x /\ Front(w) = s
<1> DEFINE w == s \o <<x>>
<1>1. PICK U : s \in Seq(U)
  BY DEF IsSeq
<1> DEFINE V == U \cup {x}
<1>2. s \in Seq(V) /\ x \in V
  BY <1>1
<1> HIDE DEF V
<1>3. <<x>> \in Seq(V) /\ Len(<<x>>) = 1 /\ <<x>>[1] = x /\ Len(s) \in Nat
  BY <1>2
<1>4. w \in Seq(V) /\ Len(w) = Len(s) + Len(<<x>>)
  BY <1>2, <1>3
<1>5. Len(w) = Len(s) + 1
  BY <1>3, <1>4
<1>6. w[Len(s) + 1] = x /\ \A i \in 1..Len(s) : w[i] = s[i]
  BY <1>2, <1>3
<1> HIDE DEF w
<1>7. w # <<>> /\ Last(w) = x
  BY <1>3, <1>4, <1>5, <1>6 DEF Last
<1>8. Front(w) = SubSeq(w, 1, Len(s))
  <2>1. Len(w) - 1 = Len(s)
    BY <1>3, <1>5
  <2> QED
    BY <2>1 DEF Front
<1>9. SubSeq(w, 1, Len(s)) \in Seq(V) /\ Len(SubSeq(w, 1, Len(s))) = Len(s)
      /\ \A i \in 1..Len(s) : SubSeq(w, 1, Len(s))[i] = w[i]
  BY <1>3, <1>4, <1>5
<1>10. SubSeq(w, 1, Len(s)) = s
  BY <1>2, <1>3, <1>6, <1>9
<1> QED
  BY <1>7, <1>8, <1>10 DEF w

\* The mark of a muted point is told from the end of a condition.
LEMMA PeeledFacts ==
    ASSUME NEW c \in Condition \cup {<<>>}, NEW flag \in {"on", "off"}
    PROVE  Peeled(IfClause(c) \o OffMark(flag)) = [words |-> IfClause(c), flag |-> flag]
           /\ Clause(IfClause(c)) = c
<1>1. IsSeq(c) /\ (c # <<>> => Last(c) # "off")
  <2>1. CASE c = <<>>
    BY <2>1, EmptyFacts
  <2>2. CASE c # <<>>
    BY <2>2, PointsAssumption DEF IsSeq
  <2> QED
    BY <2>1, <2>2
<1> DEFINE w == IfClause(c)
<1>2. IsSeq(w) /\ (w # <<>> => Last(w) # "off")
  <2>1. CASE c = <<>>
    BY <2>1, EmptyFacts DEF IfClause
  <2>2. CASE c # <<>>
    <3>1. w = <<"if">> \o c
      BY <2>2 DEF IfClause
    <3>2. IsSeq(w) /\ w # <<>> /\ Len(w) = Len(c) + 1 /\ Tail(w) = c
      BY <1>1, <3>1, BeforeFacts
    <3>3. Len(c) \in Nat /\ Len(c) # 0
      BY <1>1, <2>2, SeqFacts
    <3> HIDE DEF w
    <3>4. DOMAIN Tail(w) = 1..Len(c)
      BY <1>1, <3>2, SeqFacts
    <3>5. Tail(w)[Len(c)] = w[Len(c) + 1]
      BY <3>2, <3>3, <3>4, TailFacts
    <3>6. Last(w) = Last(c)
      BY <3>2, <3>5 DEF Last
    <3> QED
      BY <1>1, <2>2, <3>2, <3>6
  <2> QED
    BY <2>1, <2>2
<1>3. Clause(w) = c
  <2>1. CASE c = <<>>
    BY <2>1 DEF Clause, IfClause
  <2>2. CASE c # <<>>
    BY <2>2, ClauseFacts
  <2> QED
    BY <2>1, <2>2
<1> HIDE DEF w
<1>4. CASE flag = "on"
  <2>1. w \o OffMark(flag) = w
    <3>1. PICK U : w \in Seq(U)
      BY <1>2 DEF IsSeq
    <3>2. OffMark(flag) = <<>>
      BY <1>4 DEF OffMark
    <3> QED
      BY <3>1, <3>2
  <2>2. Peeled(w) = [words |-> w, flag |-> "on"]
    BY <1>2 DEF Peeled
  <2> QED
    BY <1>3, <1>4, <2>1, <2>2 DEF w
<1>5. CASE flag = "off"
  <2> DEFINE rest == w \o <<"off">>
  <2>1. OffMark(flag) = <<"off">>
    BY <1>5 DEF OffMark
  <2>2. rest # <<>> /\ Last(rest) = "off" /\ Front(rest) = w
    BY <1>2, AfterFacts
  <2> HIDE DEF rest
  <2>3. Peeled(rest) = [words |-> w, flag |-> "off"]
    BY <2>2 DEF Peeled
  <2> QED
    BY <1>3, <1>5, <2>1, <2>3 DEF w, rest
<1> QED
  BY <1>4, <1>5

LEMMA BpRowFacts ==
    ASSUME NEW bp, GoodBp(bp)
    PROVE  /\ BpRow(bp).type = "bp"
           /\ ParseBp(BpRow(bp)) = [type |-> "breakpoint", addr |-> bp.at[2],
                                    flag |-> bp.flag, condition |-> bp.condition]
<1> DEFINE row == BpRow(bp)
<1>1. /\ row.type = "bp" /\ row.addr = bp.at[2]
      /\ row.words = IfClause(bp.condition) \o OffMark(bp.flag)
  BY DEF BpRow
<1>2. /\ Peeled(row.words) = [words |-> IfClause(bp.condition), flag |-> bp.flag]
      /\ Clause(IfClause(bp.condition)) = bp.condition
  BY <1>1, PeeledFacts DEF GoodBp, GoodPoint
<1> HIDE DEF row
<1>3. Peeled(row.words).words = IfClause(bp.condition) /\ Peeled(row.words).flag = bp.flag
  BY <1>2
<1>4. ParseBp(row) = [type |-> "breakpoint", addr |-> bp.at[2],
                      flag |-> bp.flag, condition |-> bp.condition]
  BY <1>1, <1>2, <1>3 DEF ParseBp
<1> QED
  BY <1>1, <1>4 DEF row

LEMMA WpRowFacts ==
    ASSUME NEW wp, GoodWp(wp), NEW k
    PROVE  /\ WpRow(k, wp).type = "wp"
           /\ ParseWp(WpRow(k, wp)) = [type |-> "watchpoint", id |-> k, watch |-> wp.watch,
                                       flag |-> wp.flag, condition |-> wp.condition]
<1> DEFINE row == WpRow(k, wp)
<1>1. /\ row.type = "wp" /\ row.id = k /\ row.watch = wp.watch
      /\ row.words = IfClause(wp.condition) \o OffMark(wp.flag)
  BY DEF WpRow
<1>2. /\ Peeled(row.words) = [words |-> IfClause(wp.condition), flag |-> wp.flag]
      /\ Clause(IfClause(wp.condition)) = wp.condition
  BY <1>1, PeeledFacts DEF GoodWp, GoodPoint
<1> HIDE DEF row
<1>3. Peeled(row.words).words = IfClause(wp.condition) /\ Peeled(row.words).flag = wp.flag
  BY <1>2
<1>4. ParseWp(row) = [type |-> "watchpoint", id |-> k, watch |-> wp.watch,
                      flag |-> wp.flag, condition |-> wp.condition]
  BY <1>1, <1>2, <1>3 DEF ParseWp
<1> QED
  BY <1>1, <1>4 DEF row

\* The armed slots, each once.
LEMMA RankedFacts ==
    ASSUME NEW wps
    PROVE  /\ Cardinality(ArmedSlots(wps)) \in Nat
           /\ DOMAIN Ranked(wps) = 1..Cardinality(ArmedSlots(wps))
           /\ \A k \in ArmedSlots(wps) : \E i \in DOMAIN Ranked(wps) : Ranked(wps)[i] = k
<1> DEFINE armed == ArmedSlots(wps)
           Upto(k) == {j \in armed : j <= k}
           Rank(k) == Cardinality(Upto(k))
<1>1. IsFiniteSet(Slot)
  BY PointsAssumption, FS_Interval DEF Slot
<1>2. armed \subseteq Slot
  BY DEF ArmedSlots
<1>3. IsFiniteSet(armed) /\ Cardinality(armed) \in Nat
  BY <1>1, <1>2, FS_Subset, FS_CardinalityType
<1>4. \A k \in armed : k \in Int
  BY <1>2 DEF Slot
<1>5. Ranked(wps) = [i \in 1..Cardinality(armed) |-> CHOOSE k \in armed : Rank(k) = i]
  BY DEF Ranked
<1> HIDE DEF armed
<1>6. ASSUME NEW k \in armed
      PROVE  /\ Upto(k) \subseteq armed /\ k \in Upto(k)
             /\ IsFiniteSet(Upto(k)) /\ Rank(k) \in Nat
  BY <1>3, <1>4, FS_Subset, FS_CardinalityType
<1>7. ASSUME NEW j \in armed, NEW k \in armed, j < k
      PROVE  Rank(j) < Rank(k)
  <2>1. Upto(j) \subseteq Upto(k) /\ k \notin Upto(j)
    BY <1>4, <1>7
  <2>2. Upto(j) # Upto(k)
    BY <1>6, <2>1
  <2> HIDE DEF Upto
  <2> QED
    BY <1>6, <2>1, <2>2, FS_Subset
<1>8. ASSUME NEW k \in armed
      PROVE  Rank(k) \in 1..Cardinality(armed)
  <2>1. Rank(k) <= Cardinality(armed)
    BY <1>3, <1>6, FS_Subset
  <2>2. Rank(k) # 0
    <3>1. Upto(k) # {}
      BY <1>6
    <3> HIDE DEF Upto
    <3> QED
      BY <1>6, <3>1, FS_EmptySet
  <2> QED
    BY <1>3, <1>6, <2>1, <2>2
<1> HIDE DEF Rank
<1>9. \A j, k \in armed : Rank(j) = Rank(k) => j = k
  <2> SUFFICES ASSUME NEW j \in armed, NEW k \in armed, Rank(j) = Rank(k), j # k PROVE FALSE
    OBVIOUS
  <2>1. j < k \/ k < j
    BY <1>4
  <2>2. Rank(j) \in Nat /\ Rank(k) \in Nat /\ (Rank(j) < Rank(k) \/ Rank(k) < Rank(j))
    BY <1>3, <1>7, <1>8, <2>1
  <2> QED
    BY <2>2
<1>10. ASSUME NEW k \in armed
       PROVE  \E i \in DOMAIN Ranked(wps) : Ranked(wps)[i] = k
  <2> DEFINE i == Rank(k)
  <2>1. i \in 1..Cardinality(armed)
    BY <1>8
  <2>2. (CHOOSE j \in armed : Rank(j) = i) = k
    BY <1>9
  <2> HIDE DEF i
  <2> QED
    BY <1>5, <2>1, <2>2
<1> QED
  BY <1>3, <1>5, <1>10 DEF armed

-----------------------------------------------------------------------------
(* The points of the tables are such as a row can tell. *)

\* The words of a line that arms, or that mutes and unmutes.
GoodLine(line) ==
    /\ line.cmd \in {"sbp", "swp"} => Clause(line.words) \in Condition \cup {<<>>}
    /\ line.cmd \in {"bp", "wp"} => line.words[1] \in {"on", "off"}

LEMMA JobLine ==
    ASSUME NEW job, IsJob(job)
    PROVE  GoodLine(LineOf(job))
<1> DEFINE line == LineOf(job)
<1>1. line.cmd = job.cmd /\ line.words = Words(job)
  BY LineFields
<1> HIDE DEF line
<1>2. CASE job.cmd \notin {"sbp", "swp", "bp", "wp"}
  BY <1>1, <1>2 DEF GoodLine, line
<1>3. ASSUME job.cmd \in {"sbp", "swp"}, job.name \in Arming, job.slot # AllSlots,
             job.condition \in Condition
      PROVE  GoodLine(line)
  <2>1. Clause(line.words) = job.condition
    BY <1>1, <1>3, WordsFacts, ClauseFacts
  <2> QED
    BY <1>1, <1>3, <2>1 DEF GoodLine
<1>4. ASSUME job.cmd \in {"bp", "wp"}, job.name \in Enabling \cup Disabling,
             job.slot # AllSlots
      PROVE  GoodLine(line)
  <2>1. line.words = <<OnOff(job.name)>>
    BY <1>1, <1>4, WordsFacts
  <2>2. line.words[1] \in {"on", "off"}
    BY <2>1, OneFacts DEF OnOff
  <2> QED
    BY <1>1, <1>4, <2>2 DEF GoodLine
<1>5. \A name \in DOMAIN Methods \ PointTools : Methods[name].cmd \notin PointCommands
  BY OtherMethods
<1>a. ASSUME NEW name \in PlainNames, job = Job(name)
      PROVE  job.cmd \notin {"sbp", "swp", "bp", "wp"}
  <2>1. job.cmd = Methods[name].cmd
    BY <1>a, JobFields
  <2>2. CASE name \in DOMAIN Methods \ PointTools
    BY <1>5, <2>1, <2>2, PointMethods
  <2>3. CASE name \in {"clear_all_breakpoints", "list_breakpoints", "list_watchpoints"}
    BY <2>1, <2>3, PointFields
  <2> QED
    BY <2>2, <2>3, NamesOther DEF PlainNames
<1>b. ASSUME NEW n \in Nat \ {0}, job = [Job("screenshot") EXCEPT !.file = n]
      PROVE  job.cmd \notin {"sbp", "swp", "bp", "wp"}
  <2>1. job.cmd = Methods["screenshot"].cmd
    BY <1>b, JobFields
  <2> QED
    BY <1>5, <2>1, PointMethods, NamesOther
<1>c. ASSUME NEW at \in Location, NEW condition \in Condition,
             job = [Job("set_breakpoint") EXCEPT !.at = at, !.condition = condition]
      PROVE  GoodLine(line)
  <2>1. /\ job.name = "set_breakpoint" /\ job.cmd = Methods["set_breakpoint"].cmd
        /\ job.slot = NoSlot /\ job.condition = condition
    BY <1>c, JobFields
  <2>2. job.cmd = "sbp"
    BY <2>1, PointFields
  <2> QED
    BY <1>3, <2>1, <2>2, SlotFacts DEF Arming
<1>d. ASSUME NEW name \in {"clear_breakpoint", "enable_breakpoint", "disable_breakpoint"},
             NEW at \in Location, job = [Job(name) EXCEPT !.at = at]
      PROVE  GoodLine(line)
  <2>1. job.name = name /\ job.cmd = Methods[name].cmd /\ job.slot = NoSlot
    BY <1>d, JobFields
  <2>2. CASE name = "clear_breakpoint"
    <3>1. job.cmd = "cbp"
      BY <2>1, <2>2, PointFields
    <3> QED
      BY <1>2, <3>1 DEF line
  <2>3. CASE name \in {"enable_breakpoint", "disable_breakpoint"}
    <3>1. \A known \in {"enable_breakpoint", "disable_breakpoint"} : Methods[known].cmd = "bp"
      BY PointFields
    <3> QED
      BY <1>4, <2>1, <2>3, <3>1, SlotFacts DEF Enabling, Disabling
  <2> QED
    BY <2>2, <2>3
<1>e. ASSUME NEW watch \in Watch, NEW condition \in Condition,
             job = [Job("set_watchpoint") EXCEPT !.watch = watch, !.condition = condition]
      PROVE  GoodLine(line)
  <2>1. /\ job.name = "set_watchpoint" /\ job.cmd = Methods["set_watchpoint"].cmd
        /\ job.slot = NoSlot /\ job.condition = condition
    BY <1>e, JobFields
  <2>2. job.cmd = "swp"
    BY <2>1, PointFields
  <2> QED
    BY <1>3, <2>1, <2>2, SlotFacts DEF Arming
<1>f. ASSUME NEW name \in {"enable_watchpoint", "disable_watchpoint"}, NEW slot \in Slot,
             job = [Job(name) EXCEPT !.slot = slot]
      PROVE  GoodLine(line)
  <2>1. job.name = name /\ job.cmd = Methods[name].cmd /\ job.slot = slot
    BY <1>f, JobFields
  <2>2. \A known \in {"enable_watchpoint", "disable_watchpoint"} : Methods[known].cmd = "wp"
    BY PointFields
  <2> QED
    BY <1>4, <2>1, <2>2, SlotFacts DEF Enabling, Disabling
<1>g. ASSUME NEW slot, job = [Job("clear_watchpoint") EXCEPT !.slot = slot]
      PROVE  job.cmd \notin {"sbp", "swp", "bp", "wp"}
  <2>1. job.cmd = Methods["clear_watchpoint"].cmd
    BY <1>g, JobFields
  <2> QED
    BY <2>1, PointFields
<1>h. ASSUME NEW raw \in ReadCommands,
             job = [Job("state") EXCEPT !.name = "x16db", !.cmd = raw]
      PROVE  job.cmd \notin {"sbp", "swp", "bp", "wp"}
  <2>1. job.cmd = raw
    BY <1>h, JobFields
  <2> QED
    BY <2>1, ReadCommandsApart, PointMethods
<1> QED
  BY <1>2, <1>a, <1>b, <1>c, <1>d, <1>e, <1>f, <1>g, <1>h DEF IsJob, line

\* A breakpoint that is removed leaves the others.
LEMMA ClearedPoints ==
    ASSUME NEW bps, IsSeq(bps), NEW at, NEW j \in DOMAIN Cleared(bps, at)
    PROVE  \E i \in DOMAIN bps : Cleared(bps, at)[j] = bps[i]
<1> DEFINE I == {i \in 1..Len(bps) : bps[i].at = Place(at)}
           k == IF I # {} THEN Min(I) ELSE 0
<1>1. Cleared(bps, at) = IF k = 0 THEN bps ELSE RemoveAt(bps, k)
  BY DEF Cleared, SelectInSeq
<1>2. Len(bps) \in Nat /\ DOMAIN bps = 1..Len(bps)
  BY SeqFacts
<1>3. k = 0 \/ k \in DOMAIN bps
  <2>1. I \in SUBSET Nat
    OBVIOUS
  <2> QED
    BY <1>2, <2>1, MinFacts
<1> HIDE DEF k
<1>4. CASE k = 0
  BY <1>1, <1>4
<1>5. CASE k \in DOMAIN bps /\ k # 0
  <2>1. PICK U : bps \in Seq(U)
    BY DEF IsSeq
  <2> DEFINE V == {bps[i] : i \in DOMAIN bps}
  <2>2. bps \in Seq(V)
    <3>1. bps = [i \in 1..Len(bps) |-> bps[i]] /\ \A i \in 1..Len(bps) : bps[i] \in V
      BY <1>2, <2>1
    <3> DEFINE n == Len(bps)
    <3> HIDE DEF V, n
    <3> QED
      BY <1>2, <3>1 DEF n
  <2> HIDE DEF V
  <2>3. k \in 1..Len(bps)
    BY <1>2, <1>5
  <2>4. SubSeq(bps, 1, k - 1) \in Seq(V) /\ SubSeq(bps, k + 1, Len(bps)) \in Seq(V)
    BY <1>2, <2>2, <2>3
  <2>5. RemoveAt(bps, k) \in Seq(V)
    BY <2>4 DEF RemoveAt
  <2>6. RemoveAt(bps, k)[j] \in V
    BY <1>1, <1>5, <2>5
  <2> QED
    BY <1>1, <1>5, <2>6 DEF V
<1> QED
  BY <1>3, <1>4, <1>5

LEMMA PointEdits ==
    /\ \A bp : GoodBp(bp) => \A flag \in {"on", "off"} : GoodBp([bp EXCEPT !.flag = flag])
    /\ \A bp : GoodBp(bp) => \A c \in Condition \cup {<<>>} : \A flag \in {"on", "off"} :
           GoodBp([bp EXCEPT !.condition = c, !.flag = flag])
    /\ \A wp : GoodWp(wp) => \A flag \in {"on", "off"} : GoodWp([wp EXCEPT !.flag = flag])
    /\ \A at : \A c \in Condition \cup {<<>>} :
           GoodBp([at |-> at, condition |-> c, flag |-> "on"])
    /\ \A watch : \A c \in Condition \cup {<<>>} : GoodWp(Watchpoint(watch, c))
    /\ GoodWp(NoWatchpoint)
<1>1. \A at : \A c \in Condition \cup {<<>>} : \A flag \in {"on", "off"} :
          GoodBp([at |-> at, condition |-> c, flag |-> flag])
  BY DEF GoodBp, GoodPoint
<1>2. \A watch : \A c \in Condition \cup {<<>>} : \A flag \in {"on", "off"} :
          GoodWp([watch |-> watch, condition |-> c, flag |-> flag])
  BY DEF GoodWp, GoodPoint
<1>3. \A at : \A c \in Condition \cup {<<>>} :
          GoodBp([at |-> at, condition |-> c, flag |-> "on"])
  <2>1. "on" \in {"on", "off"}
    OBVIOUS
  <2> QED
    BY <1>1, <2>1, Zenon
<1>4. ASSUME NEW bp, GoodBp(bp), NEW flag \in {"on", "off"}
      PROVE  GoodBp([bp EXCEPT !.flag = flag])
  <2>1. PICK at, c, f : bp = [at |-> at, condition |-> c, flag |-> f]
                        /\ c \in Condition \cup {<<>>}
    BY <1>4 DEF GoodBp, GoodPoint
  <2>2. ASSUME NEW d, d = [bp EXCEPT !.flag = flag]
        PROVE  d = [at |-> at, condition |-> c, flag |-> flag]
    BY <2>1, <2>2
  <2>3. [bp EXCEPT !.flag = flag] = [at |-> at, condition |-> c, flag |-> flag]
    BY <2>2, Zenon
  <2>4. GoodBp([at |-> at, condition |-> c, flag |-> flag])
    BY <1>1, <2>1
  <2> QED
    BY <2>3, <2>4, Zenon
<1>5. ASSUME NEW bp, GoodBp(bp), NEW c \in Condition \cup {<<>>}, NEW flag \in {"on", "off"}
      PROVE  GoodBp([bp EXCEPT !.condition = c, !.flag = flag])
  <2>1. PICK at, b, f : bp = [at |-> at, condition |-> b, flag |-> f]
    BY <1>5 DEF GoodBp
  <2>2. ASSUME NEW d, d = [bp EXCEPT !.condition = c, !.flag = flag]
        PROVE  d = [at |-> at, condition |-> c, flag |-> flag]
    BY <2>1, <2>2
  <2>3. [bp EXCEPT !.condition = c, !.flag = flag] = [at |-> at, condition |-> c, flag |-> flag]
    BY <2>2, Zenon
  <2>4. GoodBp([at |-> at, condition |-> c, flag |-> flag])
    BY <1>1
  <2> QED
    BY <2>3, <2>4, Zenon
<1>6. ASSUME NEW wp, GoodWp(wp), NEW flag \in {"on", "off"}
      PROVE  GoodWp([wp EXCEPT !.flag = flag])
  <2>1. PICK watch, c, f : wp = [watch |-> watch, condition |-> c, flag |-> f]
                           /\ c \in Condition \cup {<<>>}
    BY <1>6 DEF GoodWp, GoodPoint
  <2>2. ASSUME NEW d, d = [wp EXCEPT !.flag = flag]
        PROVE  d = [watch |-> watch, condition |-> c, flag |-> flag]
    BY <2>1, <2>2
  <2>3. [wp EXCEPT !.flag = flag] = [watch |-> watch, condition |-> c, flag |-> flag]
    BY <2>2, Zenon
  <2>4. GoodWp([watch |-> watch, condition |-> c, flag |-> flag])
    BY <1>2, <2>1
  <2> QED
    BY <2>3, <2>4, Zenon
<1>7. GoodWp(NoWatchpoint) /\ \A watch : \A c \in Condition \cup {<<>>} : GoodWp(Watchpoint(watch, c))
  BY <1>2 DEF NoWatchpoint, Watchpoint
<1> QED
  BY <1>3, <1>4, <1>5, <1>6, <1>7, Zenon

\* A point is added to the breakpoints, or armed again.
LEMMA ArmedPoints ==
    ASSUME NEW bps, IsSeq(bps), \A i \in DOMAIN bps : GoodBp(bps[i]), NEW at,
           NEW c \in Condition \cup {<<>>}, NEW j \in DOMAIN Armed(bps, at, c)
    PROVE  GoodBp(Armed(bps, at, c)[j])
<1> DEFINE place == Place(at)
<1>1. CASE \E i \in DOMAIN bps : bps[i].at = place
  <2> DEFINE flag(i) == IF KeepsMute THEN bps[i].flag ELSE "on"
             New(i) == [bps[i] EXCEPT !.condition = c, !.flag = flag(i)]
  <2>1. Armed(bps, at, c) = [i \in DOMAIN bps |-> IF bps[i].at = place THEN New(i) ELSE bps[i]]
    BY <1>1, Zenon DEF Armed
  <2>2. \A i \in DOMAIN bps : flag(i) \in {"on", "off"}
    BY DEF GoodBp, GoodPoint
  <2> HIDE DEF flag, place
  <2>3. \A i \in DOMAIN bps : GoodBp(New(i))
    BY <2>2, PointEdits, Zenon
  <2> HIDE DEF New
  <2> QED
    BY <2>1, <2>3
<1>2. CASE ~\E i \in DOMAIN bps : bps[i].at = place
  <2> DEFINE new == [at |-> place, condition |-> c, flag |-> "on"]
  <2>1. Armed(bps, at, c) = Append(bps, new)
    BY <1>2 DEF Armed
  <2>2. GoodBp(new)
    BY PointEdits, Zenon
  <2> HIDE DEF new
  <2> QED
    BY <2>1, <2>2, AppendFacts
<1> QED
  BY <1>1, <1>2

\* Whatever line that a tool may send the emulator obeys.
LEMMA EffectsPoints ==
    ASSUME NEW table, GoodTable(table), GoodPoints(table), NEW line, GoodLine(line),
           NEW o \in Effects(table, line)
    PROVE  GoodPoints(o.table)
<1> DEFINE bps == table.bps
           wps == table.wps
<1>1. ASSUME NEW b, \A i \in DOMAIN b : GoodBp(b[i]), NEW d,
             o = Done([table EXCEPT !.bps = b], d)
      PROVE  GoodPoints(o.table)
  <2>1. o.table = [table EXCEPT !.bps = b]
    BY <1>1 DEF Done
  <2>2. o.table.bps = b /\ o.table.wps = wps
    BY <2>1 DEF GoodTable
  <2> QED
    BY <1>1, <2>2 DEF GoodPoints
<1>2. ASSUME NEW w, \A k \in Slot : GoodWp(w[k]), NEW d,
             o = Done([table EXCEPT !.wps = w], d)
      PROVE  GoodPoints(o.table)
  <2>1. o.table = [table EXCEPT !.wps = w]
    BY <1>2 DEF Done
  <2>2. o.table.bps = bps /\ o.table.wps = w
    BY <2>1 DEF GoodTable
  <2> QED
    BY <1>2, <2>2 DEF GoodPoints
<1>3. IsSeq(bps) /\ \A i \in DOMAIN bps : GoodBp(bps[i])
  BY DEF GoodTable, GoodPoints
<1>4. wps = [k \in Slot |-> wps[k]] /\ \A k \in Slot : GoodWp(wps[k])
  BY DEF GoodTable, GoodPoints
<1>5. \A t, d : Done(t, d).table = t
  BY DEF Done
<1> HIDE DEF bps, wps
<1>a. CASE line.cmd = "sbp"
  <2>1. o = Done([table EXCEPT !.bps = Armed(bps, line.at, Clause(line.words))], <<>>)
    BY <1>a DEF Effects, bps, wps
  <2>2. Clause(line.words) \in Condition \cup {<<>>}
    BY <1>a DEF GoodLine
  <2> QED
    BY <1>1, <1>3, <2>1, <2>2, ArmedPoints
<1>b. CASE line.cmd = "cbp"
  <2>1. \/ o = Done([table EXCEPT !.bps = <<>>], <<>>)
        \/ o = Done([table EXCEPT !.bps = Cleared(bps, line.at)], <<>>)
    BY <1>b DEF Effects, bps, wps
  <2>2. \A i \in DOMAIN Cleared(bps, line.at) : GoodBp(Cleared(bps, line.at)[i])
    BY <1>3, ClearedPoints
  <2>3. \A i \in DOMAIN <<>> : GoodBp(<<>>[i])
    BY EmptyFacts
  <2> QED
    BY <1>1, <2>1, <2>2, <2>3
<1>c. CASE line.cmd = "bp"
  <2> DEFINE b == Flagged(bps, line.at, line.words[1])
  <2>1. o = Done([table EXCEPT !.bps = b], <<>>)
    BY <1>c DEF Effects, bps, wps
  <2>2. line.words[1] \in {"on", "off"}
    BY <1>c DEF GoodLine
  <2>3. \A i \in DOMAIN bps : GoodBp([bps[i] EXCEPT !.flag = line.words[1]])
    BY <1>3, <2>2, PointEdits, Zenon
  <2>4. \A i \in DOMAIN b : GoodBp(b[i])
    BY <1>3, <2>3, Zenon DEF Flagged
  <2> HIDE DEF b
  <2> QED
    BY <1>1, <2>1, <2>4
<1>d. CASE line.cmd \in {"lbp", "lwp"}
  BY <1>5, <1>d DEF Effects
<1>e. CASE line.cmd = "swp"
  <2> DEFINE point == Watchpoint(line.watch, Clause(line.words))
  <2>1. PICK k \in Slot :
            o = Done([table EXCEPT !.wps[k] = point], <<[type |-> "echo", id |-> k]>>)
    BY <1>e DEF Effects
  <2>2. GoodWp(point)
    <3>1. Clause(line.words) \in Condition \cup {<<>>}
      BY <1>e DEF GoodLine
    <3> QED
      BY <3>1, PointEdits, Zenon
  <2> HIDE DEF point
  <2>3. [table EXCEPT !.wps[k] = point] = [table EXCEPT !.wps = [wps EXCEPT ![k] = point]]
    BY DEF wps
  <2> DEFINE w == [wps EXCEPT ![k] = point]
  <2>4. \A j \in Slot : GoodWp(w[j])
    BY <1>4, <2>2
  <2> HIDE DEF w
  <2> QED
    BY <1>2, <2>1, <2>3, <2>4 DEF w
<1>f. CASE line.cmd = "cwp"
  <2>1. \/ o = Done([table EXCEPT !.wps = EmptyTable.wps], <<>>)
        \/ o = Done([table EXCEPT !.wps = [wps EXCEPT ![line.slot] = NoWatchpoint]], <<>>)
    BY <1>f DEF Effects, bps, wps
  <2> DEFINE w == [wps EXCEPT ![line.slot] = NoWatchpoint]
  <2>2. GoodWp(NoWatchpoint)
    BY PointEdits, Zenon
  <2>3. \A j \in Slot : GoodWp(w[j]) /\ GoodWp(EmptyTable.wps[j])
    BY <1>4, <2>2 DEF EmptyTable
  <2> HIDE DEF w
  <2> QED
    BY <1>2, <2>1, <2>3 DEF w
<1>g. CASE line.cmd = "wp"
  <2> DEFINE w == [wps EXCEPT ![line.slot].flag = line.words[1]]
  <2>1. o = Done([table EXCEPT !.wps = w], <<>>)
    BY <1>g DEF Effects, bps, wps
  <2>2. line.words[1] \in {"on", "off"}
    BY <1>g DEF GoodLine
  <2>3. \A k \in Slot : GoodWp([wps[k] EXCEPT !.flag = line.words[1]])
    BY <1>4, <2>2, PointEdits, Zenon
  <2>4. \A k \in Slot : w[k] = IF k = line.slot THEN [wps[k] EXCEPT !.flag = line.words[1]]
                               ELSE wps[k]
    BY <1>4
  <2>5. \A k \in Slot : GoodWp(w[k])
    BY <1>4, <2>3, <2>4, Zenon
  <2> HIDE DEF w
  <2> QED
    BY <1>2, <2>1, <2>5
<1>h. line.cmd \in {"sbp", "cbp", "bp", "lbp", "swp", "cwp", "wp", "lwp"}
  BY DEF Effects
<1> QED
  BY <1>a, <1>b, <1>c, <1>d, <1>e, <1>f, <1>g, <1>h

LEMMA OutcomesPoints ==
    ASSUME NEW table, GoodTable(table), GoodPoints(table), NEW line, GoodLine(line),
           NEW o \in Outcomes(table, line)
    PROVE  GoodPoints(o.table)
<1>1. o.terminator = "RDY" \/ o.table = table
  BY OutcomesGood
<1>2. CASE o.table = table
  BY <1>2
<1>3. CASE o.terminator = "RDY" /\ o.table # table
  BY <1>3, ObeyedFacts, EffectsPoints
<1> QED
  BY <1>1, <1>2, <1>3

PointsInv ==
    \A s \in SessionId :
        /\ GoodPoints(emu[s].table)
        /\ \A i \in DOMAIN emu[s].pending : GoodLine(emu[s].pending[i])

LEMMA EmptyPoints == GoodPoints(EmptyTable)
<1>1. EmptyTable.bps = <<>> /\ \A k \in Slot : EmptyTable.wps[k] = NoWatchpoint
  BY DEF EmptyTable
<1>2. GoodWp(NoWatchpoint)
  BY PointEdits, Zenon
<1> QED
  BY <1>1, <1>2, EmptyFacts DEF GoodPoints

LEMMA PointsNext ==
    ASSUME ServiceInv, PointsInv, Next
    PROVE  PointsInv'
<1> SUFFICES ASSUME NEW t \in SessionId
             PROVE  /\ GoodPoints(emu'[t].table)
                    /\ \A i \in DOMAIN emu'[t].pending : GoodLine(emu'[t].pending[i])
  BY DEF PointsInv
<1> USE DEF ServiceInv
<1>1. Shape /\ GoodEmu(emu[t]) /\ GoodPoints(emu[t].table)
  BY DEF Shape, PointsInv
<1>2. \A i \in DOMAIN emu'[t].pending : GoodLine(emu'[t].pending[i])
  <2> SUFFICES ASSUME NEW i \in DOMAIN emu'[t].pending PROVE GoodLine(emu'[t].pending[i])
    OBVIOUS
  <2>1. \/ \E j \in DOMAIN emu[t].pending : emu'[t].pending[i] = emu[t].pending[j]
        \/ \E job : IsJob(job) /\ emu'[t].pending[i] = LineOf(job)
    BY LinesOfJobs
  <2> QED
    BY <2>1, JobLine DEF PointsInv
<1>3. CASE emu'[t].table \in {emu[t].table, EmptyTable}
  BY <1>1, <1>2, <1>3, EmptyPoints
<1>4. PICK s \in SessionId : ClientStep(s) \/ Kept
  BY NextFacts
<1>5. CASE Kept
  BY <1>3, <1>5 DEF Kept
<1>6. CASE ClientStep(s) /\ s # t
  BY <1>1, <1>3, <1>6, ClientStepFacts
<1>7. CASE Obeys(t)
  <2>1. PICK o \in Outcomes(emu[t].table, Head(emu[t].pending)) : emu'[t].table = o.table
    BY <1>1, <1>7, ObeysFacts
  <2>2. emu[t].pending # <<>> /\ IsSeq(emu[t].pending) /\ GoodTable(emu[t].table)
    BY <1>1, <1>7, ObeysFacts DEF GoodEmu
  <2>3. GoodLine(Head(emu[t].pending))
    BY <2>2, TailFacts DEF PointsInv
  <2> QED
    BY <1>1, <1>2, <2>1, <2>2, <2>3, OutcomesPoints
<1>8. CASE ClientStep(s) /\ s = t /\ ~Obeys(t)
  <2>1. Sends(t) => emu'[t].table = emu[t].table
    BY <1>1, SendsFacts
  <2>2. Leaves(t) => emu'[t].table = emu[t].table
    BY DEF Leaves
  <2>3. Takes(t) => emu'[t].table = emu[t].table
    BY <1>1, TakesFacts
  <2>4. Stops(t) => emu'[t].table = EmptyTable
    BY <1>1, StopsFacts
  <2>5. Respawned(t) => emu'[t].table = EmptyTable
    BY <1>1, RespawnedFacts DEF NewEmulator
  <2> QED
    BY <1>3, <1>8, <2>1, <2>2, <2>3, <2>4, <2>5 DEF ClientStep
<1> QED
  BY <1>4, <1>5, <1>6, <1>7, <1>8

-----------------------------------------------------------------------------
(* The listings. *)

\* What a reply to a tool that lists holds.
Lists(name, known, reply) ==
    reply.terminator = "RDY" =>
        /\ name = "list_breakpoints" => reply.data = BpRows(known.bps)
        /\ name = "list_watchpoints" => reply.data = WpRows(known.wps)
        /\ GoodPoints(known)

ListInv ==
    \A s \in SessionId : Sure(s) /\ InCall(s) =>
        \A i \in DOMAIN emu[s].replies : Lists(tool.job.name, view[s], emu[s].replies[i])

LEMMA ListJob ==
    ASSUME NEW job, IsJob(job)
    PROVE  /\ job.name = "list_breakpoints" => job.cmd = "lbp" /\ job.data = "breakpoints"
           /\ job.name = "list_watchpoints" => job.cmd = "lwp" /\ job.data = "watchpoints"
<1> DEFINE Listing == {"list_breakpoints", "list_watchpoints"}
<1> SUFFICES ASSUME job.name \in Listing
             PROVE  job = Job(job.name)
  BY JobFields, PointFields
<1>1. ASSUME NEW name \in PlainNames, job = Job(name) PROVE job = Job(job.name)
  BY <1>1, JobFields
<1>2. ASSUME NEW n \in Nat \ {0}, job = [Job("screenshot") EXCEPT !.file = n] PROVE FALSE
  BY <1>2, JobFields
<1>3. ASSUME NEW at \in Location, NEW condition \in Condition,
             job = [Job("set_breakpoint") EXCEPT !.at = at, !.condition = condition]
      PROVE  FALSE
  BY <1>3, JobFields
<1>4. ASSUME NEW name \in {"clear_breakpoint", "enable_breakpoint", "disable_breakpoint"},
             NEW at \in Location, job = [Job(name) EXCEPT !.at = at]
      PROVE  FALSE
  BY <1>4, JobFields
<1>5. ASSUME NEW watch \in Watch, NEW condition \in Condition,
             job = [Job("set_watchpoint") EXCEPT !.watch = watch, !.condition = condition]
      PROVE  FALSE
  BY <1>5, JobFields
<1>6. ASSUME NEW name \in {"enable_watchpoint", "disable_watchpoint"}, NEW slot \in Slot,
             job = [Job(name) EXCEPT !.slot = slot]
      PROVE  FALSE
  BY <1>6, JobFields
<1>7. ASSUME NEW slot \in Slot \cup {AllSlots},
             job = [Job("clear_watchpoint") EXCEPT !.slot = slot]
      PROVE  FALSE
  BY <1>7, JobFields
<1>8. ASSUME NEW raw \in ReadCommands,
             job = [Job("state") EXCEPT !.name = "x16db", !.cmd = raw]
      PROVE  FALSE
  BY <1>8, JobFields
<1> QED
  BY <1>1, <1>2, <1>3, <1>4, <1>5, <1>6, <1>7, <1>8, Zenon DEF IsJob

LEMMA ListObeyed ==
    ASSUME NEW table, NEW job, IsJob(job), GoodPoints(table),
           NEW o \in Outcomes(table, LineOf(job)), NEW reply,
           reply.terminator = o.terminator, reply.data = o.data
    PROVE  Lists(job.name, table, reply)
<1> DEFINE line == LineOf(job)
<1> SUFFICES ASSUME o.terminator = "RDY"
             PROVE  /\ job.name = "list_breakpoints" => o.data = BpRows(table.bps)
                    /\ job.name = "list_watchpoints" => o.data = WpRows(table.wps)
  BY DEF Lists
<1>1. line.cmd = job.cmd
  BY LineFields
<1>2. line.cmd \in PointCommands => o \in Effects(table, line)
  BY ObeyedFacts
<1>3. {"lbp", "lwp"} \subseteq PointCommands
  BY PointMethods
<1>4. \A data : Done(table, data).data = data
  BY DEF Done
<1> HIDE DEF line
<1>5. ASSUME job.name = "list_breakpoints" PROVE o.data = BpRows(table.bps)
  <2>1. line.cmd = "lbp"
    BY <1>1, <1>5, ListJob
  <2> QED
    BY <1>2, <1>3, <1>4, <2>1 DEF Effects
<1>6. ASSUME job.name = "list_watchpoints" PROVE o.data = WpRows(table.wps)
  <2>1. line.cmd = "lwp"
    BY <1>1, <1>6, ListJob
  <2> QED
    BY <1>2, <1>3, <1>4, <2>1 DEF Effects
<1> QED
  BY <1>5, <1>6

LEMMA ListNext ==
    ASSUME ServiceInv, LineInv, TableInv, PointsInv, ListInv, Next
    PROVE  ListInv'
<1> SUFFICES ASSUME NEW t \in SessionId, Sure(t)', InCall(t)'
             PROVE  \A i \in DOMAIN emu'[t].replies :
                        Lists(tool'.job.name, view'[t], emu'[t].replies[i])
  BY DEF ListInv
<1>1. Obey(t) => Obeys(t)
  BY Zenon DEF Obey, Obeys
<1> USE DEF ServiceInv
<1>2. Shape /\ OrderOf(t) /\ UNCHANGED <<view, lost>> /\ Sure(t) /\ GoodEmu(emu[t])
  BY CallCases DEF OrderInv, Sure, Shape
<1>3. CASE ~InCall(t) /\ Sends(t)
  <2>1. emu'[t].replies = <<>>
    BY <1>2, <1>3, SendsFacts, QuietFacts
  <2> QED
    BY <2>1, EmptyFacts
<1>4. CASE InCall(t) /\ UNCHANGED tool /\ emu'[t].replies = emu[t].replies
  BY <1>2, <1>4 DEF ListInv
<1>5. CASE InCall(t) /\ UNCHANGED tool /\ Obey(t)
  <2>1. Obeys(t) /\ emu[t].process = "up"
    BY <1>2, <1>5, <1>1, ObeysFacts
  <2>2. PICK o \in Outcomes(emu[t].table, Head(emu[t].pending)) :
            emu'[t].replies = Append(emu[t].replies,
                                     [answers |-> client[t].sent - Len(emu[t].pending) + 1,
                                      terminator |-> o.terminator, data |-> o.data])
    BY <1>2, <2>1, ObeysFacts
  <2>3. emu[t].pending # <<>> /\ emu[t].replies = <<>>
    BY <1>2, <2>1, QuietFacts, ObeysFacts
  <2>4. PICK reply : /\ emu'[t].replies = Append(<<>>, reply)
                     /\ reply.terminator = o.terminator /\ reply.data = o.data
    BY <2>2, <2>3
  <2>5. emu[t].table = view[t] /\ GoodPoints(emu[t].table)
    BY <1>2, <2>1, <2>3 DEF TableInv, TableOf, PointsInv
  <2>6. Head(emu[t].pending) = LineOf(tool.job)
    <3>1. IsSeq(emu[t].pending)
      BY <1>2 DEF GoodEmu
    <3> QED
      BY <1>2, <1>5, <2>3, <3>1, TailFacts DEF LineInv
  <2>7. IsJob(tool.job)
    BY <1>5 DEF ToolInv, BusyWith, Waiting, Calling, InCall, IsTool
  <2>8. Lists(tool.job.name, view[t], reply)
    BY <2>2, <2>4, <2>5, <2>6, <2>7, ListObeyed
  <2>9. \A i \in DOMAIN emu'[t].replies : emu'[t].replies[i] = reply
    BY <2>4, EmptyFacts, AppendFacts
  <2> QED
    BY <1>2, <1>5, <2>8, <2>9
<1>6. CASE InCall(t) /\ UNCHANGED tool /\ (UNCHANGED emu[t] \/ Stops(t))
  BY <1>2, <1>4, <1>6, StopsFacts
<1> QED
  BY <1>3, <1>5, <1>6, CallCases

ListsInv == TablesInv /\ PointsInv /\ ListInv

LEMMA ListsAlways == Spec => []ListsInv
<1>1. Init => PointsInv /\ ListInv
  <2> SUFFICES ASSUME Init PROVE PointsInv /\ ListInv
    OBVIOUS
  <2>1. GoodEmu(NewEmulator)
    BY EmptyTableGood, EmptyFacts DEF GoodEmu, NewEmulator
  <2>2. /\ Closed(NewEmulator).table = EmptyTable
        /\ Closed(NewEmulator).pending = <<>> /\ Closed(NewEmulator).replies = <<>>
    <3>1. NewEmulator.replies = <<>>
      BY DEF NewEmulator
    <3> QED
      BY <2>1, <3>1 DEF Closed, GoodEmu
  <2>3. \A s \in SessionId : /\ emu[s].table = EmptyTable
                             /\ emu[s].pending = <<>> /\ emu[s].replies = <<>>
    BY <2>2 DEF Init
  <2> QED
    BY <2>3, EmptyFacts, EmptyPoints DEF PointsInv, ListInv
<1>2. ListsInv /\ TablesInv' /\ Next => ListsInv'
  BY PointsNext, ListNext DEF ListsInv, TablesInv, FilesInv
<1>3. ListsInv /\ TablesInv' /\ UNCHANGED vars => ListsInv'
  BY DEF ListsInv, PointsInv, ListInv, Sure, InCall, vars
<1> QED
  BY <1>1, <1>2, <1>3, TablesAlways, PTL DEF Spec, ListsInv

LEMMA LenOfMap ==
    ASSUME NEW n \in Nat, NEW f, f = [i \in 1..n |-> f[i]]
    PROVE  Len(f) = n
<1> DEFINE U == {f[i] : i \in 1..n}
<1>1. \A i \in 1..n : f[i] \in U
  OBVIOUS
<1> HIDE DEF U
<1>2. f \in [1..n -> U]
  BY <1>1
<1> QED
  BY <1>2

\* What the tools make of such a listing.
LEMMA BreakpointsListed ==
    ASSUME NEW bps, \A i \in DOMAIN bps : GoodBp(bps[i])
    PROVE  ListedBreakpoints(BpRows(bps)) =
               Got([i \in DOMAIN bps |-> [type |-> "breakpoint", addr |-> bps[i].at[2],
                                          flag |-> bps[i].flag,
                                          condition |-> bps[i].condition]])
<1> DEFINE data == BpRows(bps)
<1>1. data = [i \in DOMAIN bps |-> BpRow(bps[i])]
  BY DEF BpRows
<1>2. DOMAIN data = DOMAIN bps /\ \A i \in DOMAIN bps : data[i] = BpRow(bps[i])
  BY <1>1
<1> HIDE DEF data
<1>3. All(data, "bp")
  BY <1>2, BpRowFacts DEF All
<1>4. ListedBreakpoints(data) = Got([i \in DOMAIN data |-> ParseBp(data[i])])
  BY <1>3 DEF ListedBreakpoints
<1>5. \A i \in DOMAIN bps :
          ParseBp(data[i]) = [type |-> "breakpoint", addr |-> bps[i].at[2],
                              flag |-> bps[i].flag, condition |-> bps[i].condition]
  BY <1>2, BpRowFacts
<1>6. [i \in DOMAIN data |-> ParseBp(data[i])]
          = [i \in DOMAIN bps |-> [type |-> "breakpoint", addr |-> bps[i].at[2],
                                   flag |-> bps[i].flag, condition |-> bps[i].condition]]
  BY <1>2, <1>5
<1> QED
  BY <1>4, <1>6 DEF data

LEMMA WatchpointsListed ==
    ASSUME NEW wps, \A k \in Slot : GoodWp(wps[k])
    PROVE  LET listed == ListedWatchpoints(WpRows(wps))
           IN  /\ Len(listed.value) = Cardinality(ArmedSlots(wps))
               /\ \A k \in ArmedSlots(wps) : \E i \in DOMAIN listed.value :
                      listed.value[i] = [type |-> "watchpoint", id |-> k,
                                         watch |-> wps[k].watch, flag |-> wps[k].flag,
                                         condition |-> wps[k].condition]
<1> DEFINE ids == Ranked(wps)
           n == Cardinality(ArmedSlots(wps))
           data == WpRows(wps)
<1>1. n \in Nat /\ DOMAIN ids = 1..n
  BY RankedFacts
<1>2. data = [i \in DOMAIN ids |-> WpRow(ids[i], wps[ids[i]])]
  BY DEF WpRows
<1>3. \A k \in ArmedSlots(wps) : \E i \in DOMAIN ids : ids[i] = k
  BY RankedFacts
<1> HIDE DEF ids, n
<1>4. DOMAIN data = DOMAIN ids /\ \A i \in DOMAIN ids : data[i] = WpRow(ids[i], wps[ids[i]])
  BY <1>2
<1> HIDE DEF data
<1>5. \A k, wp : WpRow(k, wp).type = "wp"
  BY DEF WpRow
<1>6. All(data, "wp")
  BY <1>4, <1>5 DEF All
<1> DEFINE value == [i \in DOMAIN data |-> ParseWp(data[i])]
<1>7. ListedWatchpoints(data).value = value
  BY <1>6 DEF ListedWatchpoints, Got
<1>8. DOMAIN value = 1..n /\ value = [i \in 1..n |-> value[i]]
  BY <1>1, <1>4
<1>9. \A i \in 1..n : value[i] = ParseWp(data[i])
  BY <1>1, <1>4
<1> HIDE DEF value
<1>10. Len(value) = n
  BY <1>1, <1>8, LenOfMap
<1>11. ASSUME NEW k \in ArmedSlots(wps)
       PROVE  \E i \in DOMAIN value :
                  value[i] = [type |-> "watchpoint", id |-> k, watch |-> wps[k].watch,
                              flag |-> wps[k].flag, condition |-> wps[k].condition]
  <2>1. PICK i \in DOMAIN ids : ids[i] = k
    BY <1>3
  <2>2. GoodWp(wps[k])
    BY DEF ArmedSlots
  <2>3. i \in DOMAIN value /\ value[i] = ParseWp(WpRow(k, wps[k]))
    BY <1>1, <1>4, <1>8, <1>9, <2>1
  <2> QED
    BY <2>2, <2>3, WpRowFacts
<1> QED
  BY <1>7, <1>10, <1>11 DEF n, data

\* A tool of one line that returns has had its reply, and returns what it makes of it.
LEMMA ListingReturns ==
    ASSUME ServiceInv, Next, NEW name \in {"list_breakpoints", "list_watchpoints"},
           Returns(name)
    PROVE  \E s \in SessionId :
               /\ result'.session = s /\ Calling(s) /\ InCall(s) /\ IsJob(tool.job)
               /\ tool.job.name = name /\ emu[s].replies # <<>>
               /\ Head(emu[s].replies).terminator = "RDY"
               /\ \E got \in Parsed(tool.job, Head(emu[s].replies).data) :
                      result'.value = got.value
<1>1. PICK s \in SessionId :
          \/ CreateSession(s) \/ CloseSession(s) \/ BootProgram(s)
          \/ Start(s) \/ Work(s) \/ Obey(s) \/ Exit(s)
  BY DEF Next
<1>2. /\ ~Idle /\ tool' = NoTool /\ result'.name = name /\ result'.error = "none"
      /\ ToolInv /\ Shape
  BY DEF Returns, Idle, ServiceInv
<1>3. Start(s) => FALSE
  BY <1>2, StartCases DEF MayCall
<1>4. Work(s)
  <2>1. CreateSession(s) \/ CloseSession(s) \/ BootProgram(s) => Idle
    BY DEF CreateSession, CloseSession, BootProgram, MayCall
  <2>2. Obey(s) \/ Exit(s) => tool' = tool
    BY Zenon DEF Obey, Exit
  <2> QED
    BY <1>1, <1>2, <1>3, <2>1, <2>2, Zenon DEF Idle
<1>5. Calling(s) /\ IsTool /\ tool.session = s /\ IsJob(tool.job)
  BY <1>2, <1>4 DEF Work, Refused, Replied, NextLine, OpenFile, Resumed, Observed, GiveUp,
                    Answers, ToolInv, Calling, IsTool
<1>6. ASSUME NEW error, NEW value, Ends(s, error, value)
      PROVE  /\ result'.session = s /\ tool.job.name = name /\ error = "none"
             /\ result'.value = value
  BY <1>2, <1>6 DEF Ends, Returning
<1>7. Replied(s)
  <2>1. ~(Refused(s) \/ GiveUp(s))
    BY <1>6 DEF Refused, GiveUp
  <2>2. ~NextLine(s)
    <3> SUFFICES ASSUME NextLine(s) PROVE FALSE
      OBVIOUS
    <3>1. CASE tool' = [tool EXCEPT !.stage = "reply", !.left = @ - 1]
      <4>1. tool'.stage = "reply"
        BY <1>5, <3>1 DEF IsTool
      <4> QED
        BY <1>2, <1>5, <3>1 DEF IsTool, NoTool
    <3> QED
      BY <1>6, <3>1 DEF NextLine
  <2>3. ~OpenFile(s)
    <3> SUFFICES ASSUME OpenFile(s) PROVE FALSE
      OBVIOUS
    <3>1. tool.job.name = "screenshot"
      BY <1>5 DEF OpenFile, IsTool
    <3>2. \E error, value : Ends(s, error, value)
      BY Zenon DEF OpenFile
    <3>3. tool.job.name = name
      BY <1>6, <3>2
    <3> QED
      BY <3>1, <3>3
  <2>4. ~(Resumed(s) \/ Observed(s))
    <3> SUFFICES ASSUME Resumed(s) \/ Observed(s) PROVE FALSE
      OBVIOUS
    <3>1. client[s].busy \in {"resumeLoop", "resumeWait"}
      BY DEF Resumed, Observed
    <3>2. tool.job.name \in Resuming
      BY <1>2, <3>1 DEF ToolInv, BusyWith
    <3>3. Ends(s, "none", <<>>)
      BY <1>2 DEF Resumed, Observed, Idle
    <3> QED
      BY <1>6, <3>2, <3>3 DEF Resuming
  <2> QED
    BY <1>4, <2>1, <2>2, <2>3, <2>4 DEF Work
<1>8. /\ client[s].busy = "loop" /\ emu[s].replies # <<>>
      /\ Head(emu[s].replies).terminator = "RDY"
  BY <1>7 DEF Replied, TakeReply
<1>9. ~(tool' = [tool EXCEPT !.stage = "line"])
      /\ \A file : ~(tool' = [tool EXCEPT !.stage = "file", !.file = file])
  <2>1. ASSUME tool' = [tool EXCEPT !.stage = "line"] PROVE FALSE
    BY <1>2, <1>5, <2>1 DEF IsTool, NoTool
  <2>2. ASSUME NEW file, tool' = [tool EXCEPT !.stage = "file", !.file = file] PROVE FALSE
    BY <1>2, <1>5, <2>2 DEF IsTool, NoTool
  <2> QED
    BY <2>1, <2>2, Zenon
<1>10. PICK got \in Parsed(tool.job, Head(emu[s].replies).data) :
           Ends(s, got.error, got.value)
  BY <1>7, <1>9, Zenon DEF Replied
<1> QED
  BY <1>5, <1>6, <1>8, <1>10 DEF InCall

\* To a caller whose calls have had their replies, the tools that list return what it knows:
\* the breakpoints in their order, each armed slot once, every condition and flag as it was
\* given (breakpoints.py, watchpoints.py; models.py, Breakpoint.parse and Watchpoint.parse).
THEOREM TablesListed == Spec => ListsAsTold
<1> DEFINE Listed ==
               LET known == view[result'.session]
                   value == result'.value
                   Watched(k) == [type |-> "watchpoint", id |-> k,
                                  watch |-> known.wps[k].watch, flag |-> known.wps[k].flag,
                                  condition |-> known.wps[k].condition]
               IN  /\ Returns("list_breakpoints") /\ Sure(result'.session) =>
                         value = [i \in DOMAIN known.bps |->
                                     [type |-> "breakpoint", addr |-> known.bps[i].at[2],
                                      flag |-> known.bps[i].flag,
                                      condition |-> known.bps[i].condition]]
                   /\ Returns("list_watchpoints") /\ Sure(result'.session) =>
                         /\ Len(value) = Cardinality(ArmedSlots(known.wps))
                         /\ \A k \in ArmedSlots(known.wps) :
                                \E i \in DOMAIN value : value[i] = Watched(k)
<1>1. ASSUME ListsInv, Next, NEW name \in {"list_breakpoints", "list_watchpoints"},
             Returns(name), Sure(result'.session)
      PROVE  LET known == view[result'.session]
             IN  /\ GoodPoints(known)
                 /\ name = "list_breakpoints" =>
                        result'.value = ListedBreakpoints(BpRows(known.bps)).value
                 /\ name = "list_watchpoints" =>
                        result'.value = ListedWatchpoints(WpRows(known.wps)).value
  <2>1. ServiceInv /\ ListInv
    BY <1>1 DEF ListsInv, TablesInv, FilesInv
  <2>2. PICK s \in SessionId :
            /\ result'.session = s /\ Calling(s) /\ InCall(s) /\ IsJob(tool.job)
            /\ tool.job.name = name /\ emu[s].replies # <<>>
            /\ Head(emu[s].replies).terminator = "RDY"
            /\ \E got \in Parsed(tool.job, Head(emu[s].replies).data) :
                   result'.value = got.value
    BY <1>1, <2>1, ListingReturns
  <2> DEFINE reply == Head(emu[s].replies)
             known == view[s]
  <2>3. Lists(name, known, reply)
    <3>1. IsSeq(emu[s].replies)
      BY <2>1 DEF ServiceInv, Shape, GoodEmu
    <3>2. 1 \in DOMAIN emu[s].replies /\ reply = emu[s].replies[1]
      BY <2>2, <3>1, TailFacts
    <3> HIDE DEF reply
    <3> QED
      BY <1>1, <2>1, <2>2, <3>2 DEF ListInv
  <2>4. /\ GoodPoints(known)
        /\ name = "list_breakpoints" => reply.data = BpRows(known.bps)
        /\ name = "list_watchpoints" => reply.data = WpRows(known.wps)
    BY <2>2, <2>3 DEF Lists
  <2>5. PICK got \in Parsed(tool.job, reply.data) : result'.value = got.value
    BY <2>2
  <2> HIDE DEF reply
  <2>6. CASE name = "list_breakpoints"
    <3>1. tool.job.data = "breakpoints"
      BY <2>2, <2>6, ListJob
    <3>2. got = ListedBreakpoints(reply.data)
      BY <2>5, <3>1 DEF Parsed
    <3> QED
      BY <2>2, <2>4, <2>5, <2>6, <3>2
  <2>7. CASE name = "list_watchpoints"
    <3>1. tool.job.data = "watchpoints"
      BY <2>2, <2>7, ListJob
    <3>2. got = ListedWatchpoints(reply.data)
      BY <2>5, <3>1 DEF Parsed
    <3> QED
      BY <2>2, <2>4, <2>5, <2>7, <3>2
  <2> QED
    BY <2>6, <2>7
<1>2. ASSUME ListsInv, Next PROVE Listed
  <2> DEFINE known == view[result'.session]
             value == result'.value
  <2>1. ASSUME Returns("list_breakpoints"), Sure(result'.session)
        PROVE  value = [i \in DOMAIN known.bps |->
                           [type |-> "breakpoint", addr |-> known.bps[i].at[2],
                            flag |-> known.bps[i].flag, condition |-> known.bps[i].condition]]
    <3>1. GoodPoints(known) /\ value = ListedBreakpoints(BpRows(known.bps)).value
      BY <1>1, <1>2, <2>1
    <3> HIDE DEF known, value
    <3>2. \A list : Got(list).value = list
      BY DEF Got
    <3> QED
      BY <3>1, <3>2, BreakpointsListed DEF GoodPoints
  <2>2. ASSUME Returns("list_watchpoints"), Sure(result'.session)
        PROVE  /\ Len(value) = Cardinality(ArmedSlots(known.wps))
               /\ \A k \in ArmedSlots(known.wps) : \E i \in DOMAIN value :
                      value[i] = [type |-> "watchpoint", id |-> k,
                                  watch |-> known.wps[k].watch, flag |-> known.wps[k].flag,
                                  condition |-> known.wps[k].condition]
    <3>1. GoodPoints(known) /\ value = ListedWatchpoints(WpRows(known.wps)).value
      BY <1>1, <1>2, <2>2
    <3> HIDE DEF known, value
    <3> QED
      BY <3>1, WatchpointsListed DEF GoodPoints
  <2> QED
    BY <2>1, <2>2
<1>3. ListsInv /\ [Next]_vars => [Listed]_vars
  BY <1>2
<1> QED
  BY <1>3, ListsAlways, PTL DEF Spec, ListsAsTold
=============================================================================
