---------------------------- MODULE LaunchProofs ----------------------------
(***************************************************************************)
(* Proofs about Launch: what is found, whatever the disk does during the   *)
(* search; the command line; what starts on a disk that does not change.   *)
(***************************************************************************)
EXTENDS Launch, WellFoundedInduction, TLAPS

-----------------------------------------------------------------------------
(* The search. *)

Searched == {"emulator", "rom"}

LEMMA Prefixed ==
    ASSUME NEW U, NEW e \in U, NEW s \in Seq(U), NEW order, NEW candidates,
           order = <<e>> \o s, candidates = (IF e = None THEN <<>> ELSE <<e>>) \o s
    PROVE  /\ order \in Seq(U) /\ Len(order) > 0
           /\ \/ candidates = SubSeq(order, 1, Len(order))
              \/ candidates = SubSeq(order, 2, Len(order)) /\ order[1] = None
<1>1. order \in Seq(U) /\ order[1] = e /\ Len(order) = Len(s) + 1
  OBVIOUS
<1>2. CASE e # None
  <2>1. candidates = order
    BY <1>2
  <2>2. \A t \in Seq(U) : SubSeq(t, 1, Len(t)) = t
    OBVIOUS
  <2>3. SubSeq(order, 1, Len(order)) = order
    BY <1>1, <2>2
  <2>4. Len(order) > 0
    BY <1>1
  <2> QED
    BY <1>1, <2>1, <2>3, <2>4, Zenon
<1>3. CASE e = None
  <2>1. candidates = s
    BY <1>3
  <2>2. SubSeq(order, 2, Len(order)) = s
    BY <1>1
  <2>3. Len(order) > 0
    BY <1>1
  <2> QED
    BY <1>1, <1>3, <2>1, <2>2, <2>3, Zenon
<1> QED
  BY <1>2, <1>3

\* The candidates are the order without an unset variable.
LEMMA OrderShape ==
    ASSUME NEW what \in Searched
    PROVE  \E U : /\ Order(what) \in Seq(U)
                  /\ \/ Candidates(what) = SubSeq(Order(what), 1, Len(Order(what)))
                     \/ /\ Candidates(what) = SubSeq(Order(what), 2, Len(Order(what)))
                        /\ Order(what)[1] = None
                  /\ Len(Order(what)) > 0
<1>1. CASE what = "emulator"
  <2> DEFINE U == {environ["X16EMU_PATH"], "resources/x16emu", "build/x16emu", "../build/x16emu",
                   "x16emu", "../x16emu"}
  <2>1. EmulatorSearch \in Seq(U) /\ environ["X16EMU_PATH"] \in U
    BY DEF EmulatorSearch
  <2>2. Order(what) = <<environ["X16EMU_PATH"]>> \o EmulatorSearch
    BY <1>1 DEF Order
  <2>3. Candidates(what) = (IF environ["X16EMU_PATH"] = None THEN <<>>
                            ELSE <<environ["X16EMU_PATH"]>>) \o EmulatorSearch
    BY <1>1 DEF Candidates, IfSet
  <2> HIDE DEF U
  <2>4. /\ Order(what) \in Seq(U) /\ Len(Order(what)) > 0
        /\ \/ Candidates(what) = SubSeq(Order(what), 1, Len(Order(what)))
           \/ /\ Candidates(what) = SubSeq(Order(what), 2, Len(Order(what)))
              /\ Order(what)[1] = None
    BY <2>1, <2>2, <2>3, Prefixed
  <2> QED
    BY <2>4, Zenon
<1>2. CASE what = "rom"
  <2> DEFINE U == {environ["X16ROM_PATH"], "resources/rom.bin", "~/.local/share/x16emu/rom.bin",
                   "rom.bin", "../rom.bin"}
  <2>1. RomSearch \in Seq(U) /\ environ["X16ROM_PATH"] \in U
    BY DEF RomSearch
  <2>2. Order(what) = <<environ["X16ROM_PATH"]>> \o RomSearch
    BY <1>2 DEF Order
  <2>3. Candidates(what) = (IF environ["X16ROM_PATH"] = None THEN <<>>
                            ELSE <<environ["X16ROM_PATH"]>>) \o RomSearch
    BY <1>2 DEF Candidates, IfSet
  <2> HIDE DEF U
  <2>4. /\ Order(what) \in Seq(U) /\ Len(Order(what)) > 0
        /\ \/ Candidates(what) = SubSeq(Order(what), 1, Len(Order(what)))
           \/ /\ Candidates(what) = SubSeq(Order(what), 2, Len(Order(what)))
              /\ Order(what)[1] = None
    BY <2>1, <2>2, <2>3, Prefixed
  <2> QED
    BY <2>4, Zenon
<1> QED
  BY <1>1, <1>2 DEF Searched

\* The candidates from the k-th of the order on are still to be looked at; none of
\* those before it has been there, and good, all along.
Searching(what, k) ==
    /\ k \in 1..(Len(Order(what)) + 1)
    /\ rest = SubSeq(Order(what), k, Len(Order(what)))
    /\ \A j \in 1..(k - 1) : ~AllAlong(what, Order(what)[j])

\* Between the two looks at it a candidate is there, and has been a file.
SearchInv ==
    /\ \A what \in Searched : Looking = what => \E k \in Nat : Searching(what, k)
    /\ step = "executable" =>
           rest # <<>> /\ Head(rest) \in Present /\ been[Head(rest)] \cap IsFileKind # {}

\* What was found passed each look when it was taken, and nothing before it was good all
\* along.
FoundFirst(what) ==
    \E i \in DOMAIN Order(what) :
        /\ Order(what)[i] = found[what] /\ AtTimes(what, found[what])
        /\ \A j \in 1..(i - 1) : ~AllAlong(what, Order(what)[j])

FoundInv == \A what \in Searched : found[what] # None => FoundFirst(what)

MissingInv ==
    result = "FileNotFoundError" =>
        \A i \in DOMAIN Order(Missing) : ~AllAlong(Missing, Order(Missing)[i])

\* The history of the disk, the fields of found and the order of the searches.
Recorded ==
    /\ \A p \in Present : disk[p] \in been[p]
    /\ DOMAIN found = {"emulator", "rom", "prg", "fsroot"}
    /\ found = [emulator |-> found.emulator, rom |-> found.rom, prg |-> found.prg,
                fsroot |-> found.fsroot]
    /\ Looking = "emulator" => found.emulator = None
    /\ Looking \in {"emulator", "rom"} => found.rom = None
    /\ Looking = "prg" => found.rom # None
    /\ Looking \in {"emulator", "rom", "prg", "fsroot"} => found.fsroot = None

\* The root the launch goes on with is the configured one, and was a directory.
RootServed ==
    /\ found.fsroot = environ["X16FS_ROOT"]
    /\ found.fsroot # None => found.fsroot \in Present /\ "directory" \in been[found.fsroot]

RootInv ==
    /\ step = "spawn" => RootServed
    /\ result = "started" => RootServed /\ args = BuildArgs /\ found.emulator # None

IInv == TypeOK /\ Recorded /\ SearchInv /\ FoundInv /\ MissingInv /\ RootInv

\* A new search begins with the candidates.
LEMMA SearchBegins ==
    ASSUME NEW what \in Searched, rest = Candidates(what)
    PROVE  \E k \in Nat : Searching(what, k)
<1>1. PICK U : /\ Order(what) \in Seq(U)
               /\ \/ Candidates(what) = SubSeq(Order(what), 1, Len(Order(what)))
                  \/ /\ Candidates(what) = SubSeq(Order(what), 2, Len(Order(what)))
                     /\ Order(what)[1] = None
               /\ Len(Order(what)) > 0
  BY OrderShape
<1>2. CASE rest = SubSeq(Order(what), 1, Len(Order(what)))
  <2>1. Searching(what, 1)
    BY <1>1, <1>2 DEF Searching
  <2> QED
    BY <2>1
<1>3. CASE rest = SubSeq(Order(what), 2, Len(Order(what))) /\ Order(what)[1] = None
  <2>1. ~AllAlong(what, Order(what)[1])
    BY <1>3, PathAssumption DEF AllAlong
  <2>2. \A j \in 1..(2 - 1) : j = 1
    OBVIOUS
  <2>3. Searching(what, 2)
    BY <1>1, <1>3, <2>1, <2>2 DEF Searching
  <2> QED
    BY <2>3
<1> QED
  BY <1>1, <1>2, <1>3

\* One turn of the loop looks at the k-th of the order.
LEMMA OneTurn ==
    ASSUME NEW what \in Searched, NEW k \in Nat, Searching(what, k), rest # <<>>
    PROVE  /\ k \in DOMAIN Order(what) /\ Head(rest) = Order(what)[k]
           /\ Tail(rest) = SubSeq(Order(what), k + 1, Len(Order(what)))
           /\ k + 1 \in 1..(Len(Order(what)) + 1)
<1>1. PICK U : Order(what) \in Seq(U) /\ Len(Order(what)) > 0
  BY OrderShape
<1> DEFINE s == Order(what)
           n == Len(s)
<1>2. s \in Seq(U) /\ n \in Nat /\ k \in 1..(n + 1) /\ rest = SubSeq(s, k, n) /\ n = Len(s)
  BY <1>1 DEF Searching
<1> HIDE DEF s, n
<1>3. k <= n
  <2>1. k = n + 1 => SubSeq(s, k, n) = <<>>
    BY <1>2
  <2> QED
    BY <1>2, <2>1
<1>4. Len(rest) = n - k + 1 /\ \A i \in 1..(n - k + 1) : rest[i] = s[k + i - 1]
  BY <1>2, <1>3
<1>5. rest \in Seq(U)
  BY <1>2, <1>3
<1>6. Head(rest) = s[k]
  <2>1. 1 \in 1..(n - k + 1) /\ k + 1 - 1 = k
    BY <1>2, <1>3
  <2>2. rest[1] = s[k]
    BY <1>4, <2>1
  <2> QED
    BY <1>5, <2>2
<1>7. Tail(rest) = SubSeq(s, k + 1, n)
  <2>1. /\ Tail(rest) \in Seq(U) /\ Len(Tail(rest)) = n - k
        /\ \A i \in 1..(n - k) : Tail(rest)[i] = rest[i + 1]
    BY <1>2, <1>3, <1>4, <1>5
  <2>2. /\ SubSeq(s, k + 1, n) \in Seq(U) /\ Len(SubSeq(s, k + 1, n)) = n - k
        /\ \A i \in 1..(n - k) : SubSeq(s, k + 1, n)[i] = s[k + i]
    BY <1>2, <1>3
  <2>3. \A i \in 1..(n - k) : rest[i + 1] = s[k + i]
    <3>1. TAKE i \in 1..(n - k)
    <3>2. i + 1 \in 1..(n - k + 1) /\ k + (i + 1) - 1 = k + i
      BY <1>2, <1>3
    <3> QED
      BY <1>4, <3>2
  <2>4. n - k \in Nat
    BY <1>2, <1>3
  <2>5. \A i \in 1..(n - k) : Tail(rest)[i] = SubSeq(s, k + 1, n)[i]
    BY <2>1, <2>2, <2>3
  <2>6. \A a, b \in Seq(U) :
            Len(a) = Len(b) /\ (\A i \in 1..Len(a) : a[i] = b[i]) => a = b
    OBVIOUS
  <2> QED
    BY <2>1, <2>2, <2>5, <2>6
<1>8. k \in DOMAIN s /\ k + 1 \in 1..(n + 1)
  BY <1>2, <1>3
<1> QED
  BY <1>6, <1>7, <1>8 DEF s, n

\* A candidate that a look turns down was not there, and good, all along.
LEMMA TurnedDown ==
    ASSUME Recorded, NEW what, NEW path,
           \/ At(path) \notin IsFileKind
           \/ what = "emulator" /\ At(path) \notin ExecutableKind
    PROVE  ~AllAlong(what, path)
BY DEF Recorded, At, Good, AllAlong

\* When the candidates are used up none of them was there, and good, all along.
LEMMA NothingFound ==
    ASSUME NEW what \in Searched, NEW k \in Nat, Searching(what, k), rest = <<>>
    PROVE  \A i \in DOMAIN Order(what) : ~AllAlong(what, Order(what)[i])
<1>1. PICK U : Order(what) \in Seq(U) /\ Len(Order(what)) > 0
  BY OrderShape
<1> DEFINE s == Order(what)
           n == Len(s)
<1>2. s \in Seq(U) /\ n \in Nat /\ k \in 1..(n + 1) /\ rest = SubSeq(s, k, n) /\ n = Len(s)
      /\ DOMAIN s = 1..n
  BY <1>1 DEF Searching
<1>3. \A j \in 1..(k - 1) : ~AllAlong(what, s[j])
  BY DEF Searching
<1> HIDE DEF s, n
<1>4. k = n + 1
  <2>1. k \in Nat /\ n \in Nat /\ 1 <= k /\ k <= n + 1
    BY <1>2
  <2>2. ASSUME k <= n PROVE FALSE
    <3>1. Len(SubSeq(s, k, n)) = n - k + 1
      BY <1>2, <2>1, <2>2
    <3>2. SubSeq(s, k, n) = <<>>
      BY <1>2
    <3>3. Len(SubSeq(s, k, n)) = 0
      BY <3>2
    <3> QED
      BY <2>1, <2>2, <3>1, <3>3
  <2> QED
    BY <2>1, <2>2
<1> QED
  BY <1>2, <1>3, <1>4 DEF s, n

\* The disk's past only grows: what was not good all along stays so, and what was good
\* at times stays so.
LEMMA PastGrows ==
    ASSUME FoundInv, MissingInv, RootInv, SearchInv,
           UNCHANGED <<environ, request, step, rest, found, result, args>>,
           \A p \in Present : been[p] \subseteq been'[p]
    PROVE  FoundInv' /\ MissingInv' /\ RootInv' /\ SearchInv'
<1> USE DEF Looking
<1>1. \A what \in Searched : Order(what)' = Order(what)
  BY DEF Order
<1>2. \A what, path : ~AllAlong(what, path) => ~AllAlong(what, path)'
  BY DEF AllAlong, Good
<1>3. \A what, path : AtTimes(what, path) => AtTimes(what, path)'
  BY DEF AtTimes, Good
<1>4. FoundInv'
  BY <1>1, <1>2, <1>3 DEF FoundInv, FoundFirst
<1>5. SearchInv'
  BY <1>1, <1>2 DEF SearchInv, Searching
<1>6. MissingInv'
  BY <1>1, <1>2 DEF MissingInv, Missing, Searched
<1>7. RootInv'
  <2>1. BuildArgs' = BuildArgs
    BY DEF BuildArgs, Option, Program
  <2> QED
    BY <2>1 DEF RootInv, RootServed
<1> QED
  BY <1>4, <1>5, <1>6, <1>7

-----------------------------------------------------------------------------
(* The command line. *)

Elements(s) == {s[i] : i \in DOMAIN s}

LEMMA Joined ==
    ASSUME NEW U, NEW s \in Seq(U), NEW t \in Seq(U)
    PROVE  s \o t \in Seq(U) /\ Elements(s \o t) = Elements(s) \cup Elements(t)
<1>1. s \o t \in Seq(U) /\ Len(s \o t) = Len(s) + Len(t)
  OBVIOUS
<1>2. \A i \in 1..Len(s) : i \in 1..Len(s \o t) /\ (s \o t)[i] = s[i]
  BY <1>1
<1>3. \A i \in 1..Len(t) : Len(s) + i \in 1..Len(s \o t) /\ (s \o t)[Len(s) + i] = t[i]
  BY <1>1
<1>4. ASSUME NEW i \in 1..Len(s \o t)
      PROVE  (s \o t)[i] \in Elements(s) \cup Elements(t)
  <2>1. CASE i <= Len(s)
    <3>1. i \in 1..Len(s)
      BY <2>1, <1>1
    <3> QED
      BY <3>1, <1>2 DEF Elements
  <2>2. CASE i > Len(s)
    <3>1. i - Len(s) \in 1..Len(t) /\ Len(s) + (i - Len(s)) = i
      BY <2>2, <1>1
    <3>2. (s \o t)[i] = t[i - Len(s)]
      BY <3>1, <1>3
    <3> QED
      BY <3>1, <3>2 DEF Elements
  <2> QED
    BY <2>1, <2>2
<1>5. Elements(s \o t) \subseteq Elements(s) \cup Elements(t)
  BY <1>1, <1>4 DEF Elements
<1>6. Elements(s) \subseteq Elements(s \o t)
  BY <1>1, <1>2 DEF Elements
<1>7. Elements(t) \subseteq Elements(s \o t)
  <2>1. DOMAIN t = 1..Len(t) /\ DOMAIN (s \o t) = 1..Len(s \o t)
    BY <1>1
  <2>2. ASSUME NEW i \in DOMAIN t
        PROVE  t[i] \in Elements(s \o t)
    <3>1. Len(s) + i \in DOMAIN (s \o t) /\ (s \o t)[Len(s) + i] = t[i]
      BY <1>3, <2>1
    <3> QED
      BY <3>1, Zenon DEF Elements
  <2> QED
    BY <2>2, Zenon DEF Elements
<1> QED
  BY <1>1, <1>5, <1>6, <1>7

LEMMA OneOrTwo ==
    ASSUME NEW U, NEW a \in U, NEW b \in U
    PROVE  /\ <<>> \in Seq(U) /\ Elements(<<>>) = {}
           /\ <<a>> \in Seq(U) /\ Elements(<<a>>) = {a}
           /\ <<a, b>> \in Seq(U) /\ Elements(<<a, b>>) = {a, b}
<1>1. DOMAIN <<>> = {} /\ DOMAIN <<a>> = {1} /\ DOMAIN <<a, b>> = {1, 2}
  OBVIOUS
<1> QED
  BY <1>1 DEF Elements

\* The first words of the options after the emulator, -fsroot aside.
Words == {"-rom", "-prg", "-run", "-debugstdio", "-warp"}

\* The first words of the options of a program.
LoadWords == {"-prg", "-run"}

\* The command line has the filesystem root if one was found, and no other -fsroot; it
\* loads the program if there is one, and no other, and runs it if it was asked to.
LEMMA CommandLine ==
    /\ BuildArgs # <<>>
    /\ \A option \in Elements(BuildArgs) :
           \/ option = <<found.emulator>>
           \/ found.fsroot # None /\ option = <<"-fsroot", found.fsroot>>
           \/ option[1] \in Words \ LoadWords
           \/ Program # None /\ option[1] = "-prg" /\ option[2] = Program
           \/ Program # None /\ request.run /\ option[1] = "-run"
    /\ found.fsroot # None => <<"-fsroot", found.fsroot>> \in Elements(BuildArgs)
    /\ Program # None =>
           /\ \E option \in Elements(BuildArgs) : option[1] = "-prg"
           /\ request.run => \E option \in Elements(BuildArgs) : option[1] = "-run"
<1> DEFINE emulator == <<found.emulator>>
           rom      == <<"-rom", found.rom>>
           root     == <<"-fsroot", found.fsroot>>
           prg      == IF request.load_addr = None
                       THEN <<"-prg", Program>> ELSE <<"-prg", Program, request.load_addr>>
           bp       == IF request.startup_bp = None
                       THEN <<"-debugstdio">> ELSE <<"-debugstdio", request.startup_bp>>
           U        == {emulator, rom, root, prg, <<"-run">>, bp, <<"-warp">>}
           run      == IF request.run THEN <<<<"-run">>>> ELSE <<>>
           rooted   == Option("-fsroot", found.fsroot)
           loaded   == IF Program = None THEN <<>> ELSE <<prg>> \o run
<1>1. BuildArgs = <<emulator, rom>> \o rooted \o loaded \o <<bp>> \o <<<<"-warp">>>>
  BY DEF BuildArgs
<1>2. /\ rom[1] \in Words \ LoadWords /\ bp[1] \in Words \ LoadWords
      /\ <<"-warp">>[1] \in Words \ LoadWords
      /\ prg[1] = "-prg" /\ prg[2] = Program /\ <<"-run">>[1] = "-run"
  BY DEF Words, LoadWords
<1>3. rooted = IF found.fsroot = None THEN <<>> ELSE <<root>>
  BY DEF Option
<1>4. {emulator, rom, root, prg, <<"-run">>, bp, <<"-warp">>} \subseteq U
  OBVIOUS
<1> HIDE DEF U, emulator, rom, root, prg, bp, rooted
<1>5. rooted \in Seq(U) /\ Elements(rooted) = IF found.fsroot = None THEN {} ELSE {root}
  BY <1>3, <1>4, OneOrTwo
<1>0. \A s, t \in Seq(U) :
          s \o t \in Seq(U) /\ Elements(s \o t) = Elements(s) \cup Elements(t)
  BY Joined
<1>6. run \in Seq(U) /\ Elements(run) = IF request.run THEN {<<"-run">>} ELSE {}
  BY <1>4, OneOrTwo
<1> HIDE DEF run
<1>7. /\ loaded \in Seq(U)
      /\ Elements(loaded) = IF Program = None THEN {} ELSE {prg} \cup Elements(run)
  <2>1. <<prg>> \in Seq(U) /\ Elements(<<prg>>) = {prg} /\ <<>> \in Seq(U) /\ Elements(<<>>) = {}
    BY <1>4, OneOrTwo
  <2>2. /\ <<prg>> \o run \in Seq(U)
        /\ Elements(<<prg>> \o run) = Elements(<<prg>>) \cup Elements(run)
    BY <1>6, <2>1, <1>0
  <2> QED
    BY <1>6, <2>1, <2>2
<1> HIDE DEF loaded
<1>8. /\ <<emulator, rom>> \in Seq(U) /\ Elements(<<emulator, rom>>) = {emulator, rom}
      /\ <<bp>> \in Seq(U) /\ Elements(<<bp>>) = {bp}
      /\ <<<<"-warp">>>> \in Seq(U) /\ Elements(<<<<"-warp">>>>) = {<<"-warp">>}
  <2>1. ASSUME NEW a \in U, NEW b \in U
        PROVE  <<a, b>> \in Seq(U) /\ Elements(<<a, b>>) = {a, b}
    <3>1. <<a, b>> \in Seq(U)
      OBVIOUS
    <3>2. DOMAIN <<a, b>> = {1, 2} /\ <<a, b>>[1] = a /\ <<a, b>>[2] = b
      OBVIOUS
    <3>3. Elements(<<a, b>>) = {a, b}
      BY <3>2 DEF Elements
    <3> QED
      BY <3>1, <3>3
  <2>2. <<bp>> \in Seq(U) /\ Elements(<<bp>>) = {bp}
    BY <1>4, OneOrTwo
  <2>3. ASSUME NEW warp \in U PROVE <<warp>> \in Seq(U) /\ Elements(<<warp>>) = {warp}
    BY OneOrTwo
  <2>4. <<"-warp">> \in U /\ emulator \in U /\ rom \in U
    BY <1>4
  <2>5. <<<<"-warp">>>> \in Seq(U) /\ Elements(<<<<"-warp">>>>) = {<<"-warp">>}
    BY <2>3, <2>4, Zenon
  <2>6. <<emulator, rom>> \in Seq(U) /\ Elements(<<emulator, rom>>) = {emulator, rom}
    BY <2>1, <2>4, Zenon
  <2> QED
    BY <2>2, <2>5, <2>6
<1>9. /\ <<emulator, rom>> \o rooted \in Seq(U)
      /\ Elements(<<emulator, rom>> \o rooted) = {emulator, rom} \cup Elements(rooted)
  BY <1>5, <1>8, <1>0
<1>10. /\ (<<emulator, rom>> \o rooted) \o loaded \in Seq(U)
       /\ Elements((<<emulator, rom>> \o rooted) \o loaded)
              = {emulator, rom} \cup Elements(rooted) \cup Elements(loaded)
  BY <1>7, <1>9, <1>0
<1>11. /\ ((<<emulator, rom>> \o rooted) \o loaded) \o <<bp>> \in Seq(U)
       /\ Elements(((<<emulator, rom>> \o rooted) \o loaded) \o <<bp>>)
              = {emulator, rom} \cup Elements(rooted) \cup Elements(loaded) \cup {bp}
  BY <1>8, <1>10, <1>0
<1>12. Elements(BuildArgs)
           = {emulator, rom} \cup Elements(rooted) \cup Elements(loaded) \cup {bp}
             \cup {<<"-warp">>}
  <2> DEFINE before == <<emulator, rom>> \o rooted \o loaded \o <<bp>>
             warp   == <<<<"-warp">>>>
  <2>1. before \in Seq(U) /\ warp \in Seq(U) /\ Elements(warp) = {<<"-warp">>}
    BY <1>8, <1>11
  <2>2. BuildArgs = before \o warp
    BY <1>1
  <2>3. Elements(before)
            = {emulator, rom} \cup Elements(rooted) \cup Elements(loaded) \cup {bp}
    BY <1>11
  <2> HIDE DEF before, warp
  <2>4. Elements(before \o warp) = Elements(before) \cup Elements(warp)
    BY <2>1, <1>0
  <2> QED
    BY <2>1, <2>2, <2>3, <2>4
<1>13. BuildArgs # <<>>
  <2>1. Elements(<<>>) = {}
    BY <1>4, OneOrTwo
  <2> QED
    BY <1>12, <2>1
<1>14. \A option \in Elements(BuildArgs) :
           \/ option = emulator
           \/ found.fsroot # None /\ option = root
           \/ option[1] \in Words \ LoadWords
           \/ Program # None /\ option[1] = "-prg" /\ option[2] = Program
           \/ Program # None /\ request.run /\ option[1] = "-run"
  <2> SUFFICES ASSUME NEW option \in Elements(BuildArgs)
               PROVE  \/ option = emulator
                      \/ found.fsroot # None /\ option = root
                      \/ option[1] \in Words \ LoadWords
                      \/ Program # None /\ option[1] = "-prg" /\ option[2] = Program
                      \/ Program # None /\ request.run /\ option[1] = "-run"
    OBVIOUS
  <2>1. \/ option \in {emulator, rom, bp, <<"-warp">>}
        \/ option \in Elements(rooted)
        \/ option \in Elements(loaded)
    BY <1>12
  <2>2. CASE option \in Elements(loaded)
    BY <1>2, <1>6, <1>7, <2>2
  <2>3. CASE option \in Elements(rooted)
    BY <1>5, <2>3
  <2> QED
    BY <1>2, <2>1, <2>2, <2>3
<1>15. found.fsroot # None => root \in Elements(BuildArgs)
  BY <1>5, <1>12
<1>16. Program # None =>
           /\ \E option \in Elements(BuildArgs) : option[1] = "-prg"
           /\ request.run => \E option \in Elements(BuildArgs) : option[1] = "-run"
  <2> SUFFICES ASSUME Program # None
               PROVE  /\ \E option \in Elements(BuildArgs) : option[1] = "-prg"
                      /\ request.run =>
                             \E option \in Elements(BuildArgs) : option[1] = "-run"
    OBVIOUS
  <2>1. prg \in Elements(BuildArgs) /\ Elements(run) \subseteq Elements(BuildArgs)
    BY <1>7, <1>12
  <2>2. request.run => <<"-run">> \in Elements(BuildArgs)
    BY <1>6, <2>1
  <2> QED
    BY <1>2, <2>1, <2>2
<1> QED
  BY <1>13, <1>14, <1>15, <1>16 DEF emulator, root

-----------------------------------------------------------------------------
(* The invariant. *)

LEMMA RomSearchBegins ==
    rest = Candidates("rom") => \E k \in Nat : Searching("rom", k)
BY SearchBegins DEF Searched

LEMMA IInvInit == Init => IInv
<1> SUFFICES ASSUME Init PROVE IInv
  OBVIOUS
<1>1. TypeOK
  BY LaunchAssumption DEF Init, TypeOK, Kind, Looking
<1>2. Recorded
  BY DEF Init, Recorded, Looking
<1>3. SearchInv
  <2>1. \E k \in Nat : Searching("emulator", k)
    BY SearchBegins DEF Init, Searched
  <2> QED
    BY <2>1 DEF Init, SearchInv, Searched, Looking
<1>4. FoundInv /\ MissingInv /\ RootInv
  BY DEF Init, FoundInv, Searched, MissingInv, RootInv
<1> QED
  BY <1>1, <1>2, <1>3, <1>4 DEF IInv

\* Where the disk is as it was, so is what was found first.
LEMMA FoundStays ==
    ASSUME NEW what, UNCHANGED <<environ, been>>, found'[what] = found[what]
    PROVE  FoundFirst(what) <=> FoundFirst(what)'
BY DEF FoundFirst, Order, AtTimes, AllAlong, Good

LEMMA SearchStays ==
    ASSUME NEW what, NEW k, UNCHANGED <<environ, been, rest>>
    PROVE  Searching(what, k) => Searching(what, k)'
BY DEF Searching, Order, AllAlong, Good

\* A look changes nothing but how far the search is.
SearchOnly == UNCHANGED <<disk, environ, request, result, args, been, changes>>

\* A candidate that has passed each look is returned.
LEMMA ChooseKeepsIInv ==
    ASSUME IInv, Looking \in {"emulator", "rom", "prg"}, rest # <<>>,
           Head(rest) \in Present,
           Looking \in Searched => AtTimes(Looking, Head(rest)),
           Choose, SearchOnly
    PROVE  IInv'
<1>1. TypeOK /\ Recorded /\ SearchInv /\ FoundInv /\ MissingInv /\ RootInv
  BY DEF IInv
<1>2. UNCHANGED <<environ, been>> /\ \A what : Order(what)' = Order(what)
  BY DEF SearchOnly, Order
<1>3. result' = result /\ args' = args /\ result = "none"
  BY <1>1 DEF SearchOnly, TypeOK, Looking
<1>4. MissingInv'
  BY <1>3 DEF MissingInv
<1>5. /\ found' = [found EXCEPT ![Looking] = Head(rest)]
      /\ step' = After(Looking) /\ rest' = Candidates(After(Looking))
      /\ Head(rest) # None
  BY PathAssumption DEF Choose, GoTo
<1>6. /\ Looking = "emulator" => step' = "rom"
      /\ Looking = "rom" => step' \in {"prg", "fsroot"}
      /\ Looking = "prg" => step' = "fsroot"
  BY <1>5 DEF After
<1>7. Looking' = step' /\ step' \in {"rom", "prg", "fsroot"} /\ step # "over"
  BY <1>6 DEF Looking
<1>8. TypeOK'
  <2>1. /\ Looking = "emulator" => found'.emulator # None
        /\ Looking # "emulator" => found'.emulator = found.emulator
        /\ Looking = "rom" => found'.rom # None
        /\ Looking # "rom" => found'.rom = found.rom
    BY <1>1, <1>5 DEF Recorded
  <2>2. found'.emulator # None
    BY <1>1, <1>3, <2>1 DEF TypeOK
  <2>3. step' \in {"fsroot", "spawn"} => found'.rom # None
    BY <1>1, <1>6, <2>1 DEF TypeOK, Recorded
  <2> QED
    BY <1>1, <1>3, <1>7, <2>2, <2>3 DEF TypeOK, SearchOnly
<1>9. Recorded'
  BY <1>1, <1>5, <1>6, <1>7 DEF Recorded, SearchOnly
<1>10. SearchInv'
  <2>1. CASE Looking = "emulator"
    <3>1. (rest = Candidates("rom"))'
      BY <1>2, <1>5, <2>1 DEF After, Candidates, IfSet
    <3>2. (rest = Candidates("rom") => \E k \in Nat : Searching("rom", k))'
      BY RomSearchBegins, PTL
    <3>3. \E k \in Nat : Searching("rom", k)'
      BY <3>1, <3>2
    <3> QED
      BY <1>6, <1>7, <2>1, <3>3 DEF SearchInv, Searched
  <2>2. CASE Looking # "emulator"
    BY <1>6, <1>7, <2>2 DEF SearchInv, Searched
  <2> QED
    BY <2>1, <2>2
<1>11. FoundInv'
  <2> SUFFICES ASSUME NEW what \in Searched, found'[what] # None
               PROVE  FoundFirst(what)'
    BY DEF FoundInv
  <2>1. CASE Looking = what
    <3>1. PICK k \in Nat : Searching(what, k)
      BY <1>1, <2>1 DEF SearchInv
    <3>2. k \in DOMAIN Order(what) /\ Head(rest) = Order(what)[k]
      BY <3>1, OneTurn
    <3>3. found'[what] = Head(rest)
      BY <1>1, <1>5, <2>1 DEF Recorded, Searched
    <3>4. \A j \in 1..(k - 1) : ~AllAlong(what, Order(what)[j])
      BY <3>1 DEF Searching
    <3>5. AtTimes(what, found[what])'
      BY <1>2, <2>1, <3>3 DEF AtTimes
    <3>6. \A path : AllAlong(what, path)' = AllAlong(what, path)
      BY <1>2 DEF AllAlong, Good
    <3> QED
      BY <1>2, <3>2, <3>3, <3>4, <3>5, <3>6 DEF FoundFirst
  <2>2. CASE Looking # what
    <3>1. found'[what] = found[what]
      BY <1>1, <1>5, <2>2 DEF Recorded, Searched
    <3>2. FoundFirst(what)
      BY <1>1, <3>1 DEF FoundInv
    <3> QED
      BY <1>2, <3>1, <3>2, FoundStays
  <2> QED
    BY <2>1, <2>2
<1>12. RootInv'
  BY <1>3, <1>7 DEF RootInv
<1> QED
  BY <1>4, <1>8, <1>9, <1>10, <1>11, <1>12 DEF IInv

\* One that was not good all along is passed over.
LEMMA SkipKeepsIInv ==
    ASSUME IInv, Looking \in {"emulator", "rom", "prg"}, rest # <<>>,
           Looking \in Searched => ~AllAlong(Looking, Head(rest)),
           Skip, SearchOnly
    PROVE  IInv'
<1>1. TypeOK /\ Recorded /\ SearchInv /\ FoundInv /\ MissingInv /\ RootInv
  BY DEF IInv
<1>2. UNCHANGED <<environ, been>> /\ \A what : Order(what)' = Order(what)
  BY DEF SearchOnly, Order
<1>3. result' = result /\ args' = args /\ result = "none"
  BY <1>1 DEF SearchOnly, TypeOK, Looking
<1>4. MissingInv'
  BY <1>3 DEF MissingInv
<1>5. /\ rest' = Tail(rest) /\ step' = Looking /\ UNCHANGED found
      /\ Looking' = Looking /\ step' # "executable"
  BY DEF Skip, Looking
<1>6. TypeOK' /\ Recorded'
  <2>1. step # "over" /\ step' # "over" /\ step' \notin {"fsroot", "spawn"}
    BY <1>5 DEF Looking
  <2> QED
    BY <1>1, <1>3, <1>5, <2>1 DEF TypeOK, Recorded, SearchOnly
<1>7. SearchInv'
  <2> SUFFICES ASSUME NEW what \in Searched, Looking = what
               PROVE  \E k \in Nat : Searching(what, k)'
    BY <1>5 DEF SearchInv
  <2>1. PICK k \in Nat : Searching(what, k)
    BY <1>1 DEF SearchInv
  <2>2. /\ k \in DOMAIN Order(what) /\ Head(rest) = Order(what)[k]
        /\ Tail(rest) = SubSeq(Order(what), k + 1, Len(Order(what)))
        /\ k + 1 \in 1..(Len(Order(what)) + 1)
    BY <2>1, OneTurn
  <2>3. ~AllAlong(what, Order(what)[k])
    BY <2>2
  <2>4. \A j \in 1..(k - 1) : ~AllAlong(what, Order(what)[j])
    BY <2>1 DEF Searching
  <2>5. \A j \in 1..((k + 1) - 1) : j = k \/ j \in 1..(k - 1)
    OBVIOUS
  <2>6. \A path : AllAlong(what, path)' = AllAlong(what, path)
    BY <1>2 DEF AllAlong, Good
  <2>7. \A j \in 1..((k + 1) - 1) : ~AllAlong(what, Order(what)[j])
    BY <2>3, <2>4, <2>5
  <2>8. k + 1 \in Nat
    OBVIOUS
  <2>9. Searching(what, k + 1)'
    BY <1>2, <1>5, <2>2, <2>6, <2>7 DEF Searching
  <2> QED
    BY <2>8, <2>9
<1>8. FoundInv'
  BY <1>1, <1>2, <1>5, FoundStays DEF FoundInv
<1>9. RootInv'
  BY <1>3, <1>5 DEF RootInv
<1> QED
  BY <1>4, <1>6, <1>7, <1>8, <1>9 DEF IInv

LEMMA LookAtCandidateKeepsIInv == IInv /\ LookAtCandidate => IInv'
<1> SUFFICES ASSUME IInv, LookAtCandidate PROVE IInv'
  OBVIOUS
<1>1. TypeOK /\ Recorded /\ SearchInv /\ FoundInv /\ MissingInv /\ RootInv
  BY DEF IInv
<1>2. /\ Looking = step /\ step \in {"emulator", "rom", "prg"} /\ rest # <<>>
      /\ SearchOnly
  BY DEF LookAtCandidate, Looking, SearchOnly
<1>3. CASE At(Head(rest)) \notin IsFileKind /\ Skip
  BY <1>1, <1>2, <1>3, TurnedDown, SkipKeepsIInv
<1>4. CASE At(Head(rest)) \in IsFileKind /\ step # "emulator" /\ Choose
  <2>1. Head(rest) \in Present /\ been[Head(rest)] \cap IsFileKind # {}
    BY <1>1, <1>4 DEF At, IsFileKind, Recorded
  <2>2. AtTimes(Looking, Head(rest))
    BY <1>2, <1>4, <2>1 DEF AtTimes
  <2> QED
    BY <1>2, <1>4, <2>1, <2>2, ChooseKeepsIInv
<1>5. CASE /\ At(Head(rest)) \in IsFileKind /\ step = "emulator"
           /\ step' = "executable" /\ UNCHANGED <<rest, found>>
  <2>1. Looking' = Looking /\ result = "none" /\ result' = "none"
    BY <1>1, <1>2, <1>5 DEF Looking, SearchOnly, TypeOK
  <2>2. TypeOK' /\ Recorded'
    BY <1>1, <1>5, <2>1, <1>2 DEF TypeOK, Recorded, SearchOnly
  <2>3. SearchInv'
    <3>1. Head(rest) \in Present /\ been[Head(rest)] \cap IsFileKind # {}
      BY <1>1, <1>5 DEF At, IsFileKind, Recorded
    <3>2. \A what \in Searched : Looking = what => \E k \in Nat : Searching(what, k)'
      BY <1>1, <1>2, <1>5, SearchStays DEF SearchInv, SearchOnly
    <3> QED
      BY <1>2, <1>5, <2>1, <3>1, <3>2 DEF SearchInv, SearchOnly
  <2>4. FoundInv' /\ MissingInv' /\ RootInv'
    BY <1>1, <1>2, <1>5, <2>1, FoundStays DEF FoundInv, MissingInv, RootInv, SearchOnly
  <2> QED
    BY <2>2, <2>3, <2>4 DEF IInv
<1> QED
  BY <1>3, <1>4, <1>5 DEF LookAtCandidate

LEMMA LookIfExecutableKeepsIInv == IInv /\ LookIfExecutable => IInv'
<1> SUFFICES ASSUME IInv, LookIfExecutable PROVE IInv'
  OBVIOUS
<1>1. Recorded /\ SearchInv
  BY DEF IInv
<1>2. /\ Looking = "emulator" /\ rest # <<>> /\ SearchOnly
      /\ Head(rest) \in Present /\ been[Head(rest)] \cap IsFileKind # {}
  BY <1>1 DEF LookIfExecutable, Looking, SearchOnly, SearchInv
<1>3. CASE At(Head(rest)) \in ExecutableKind /\ Choose
  <2>1. AtTimes("emulator", Head(rest))
    BY <1>1, <1>2, <1>3 DEF AtTimes, At, Recorded
  <2> QED
    BY <1>2, <1>3, <2>1, ChooseKeepsIInv
<1>4. CASE At(Head(rest)) \notin ExecutableKind /\ Skip
  BY <1>1, <1>2, <1>4, TurnedDown, SkipKeepsIInv
<1> QED
  BY <1>3, <1>4 DEF LookIfExecutable

LEMMA NotFoundKeepsIInv == IInv /\ NotFound => IInv'
<1> SUFFICES ASSUME IInv, NotFound PROVE IInv'
  OBVIOUS
<1> USE DEF Looking
<1>1. TypeOK /\ Recorded /\ SearchInv /\ FoundInv /\ MissingInv /\ RootInv
  BY DEF IInv
<1>2. /\ UNCHANGED <<disk, environ, request, been, changes, found, args>>
      /\ step \in Searched /\ rest = <<>>
      /\ result' = "FileNotFoundError" /\ step' = "over"
  BY DEF NotFound, Raise, Searched
<1>3. TypeOK' /\ Recorded'
  BY <1>1, <1>2 DEF TypeOK, Recorded, Searched
<1>4. SearchInv' /\ RootInv'
  BY <1>2 DEF SearchInv, RootInv, Searched
<1>5. FoundInv'
  BY <1>1, <1>2, FoundStays DEF FoundInv
<1>6. MissingInv'
  <2>1. Missing' = step
    BY <1>1, <1>2 DEF Missing, TypeOK, Recorded, Searched
  <2>2. PICK k \in Nat : Searching(step, k)
    BY <1>1, <1>2 DEF SearchInv
  <2>3. \A i \in DOMAIN Order(step) : ~AllAlong(step, Order(step)[i])
    BY <1>2, <2>2, NothingFound
  <2>4. /\ \A what : Order(what)' = Order(what)
        /\ \A what, path : AllAlong(what, path)' = AllAlong(what, path)
    BY <1>2 DEF Order, AllAlong, Good
  <2>5. (\A i \in DOMAIN Order(Missing) : ~AllAlong(Missing, Order(Missing)[i]))'
    BY <2>1, <2>3, <2>4
  <2> QED
    BY <2>5 DEF MissingInv
<1> QED
  BY <1>3, <1>4, <1>5, <1>6 DEF IInv

\* Once the paths of both searches are there, what is found besides disturbs nothing.
LEMMA BothFound ==
    ASSUME FoundInv, UNCHANGED <<environ, been>>,
           found'.emulator = found.emulator, found'.rom = found.rom,
           step' \notin Searched \cup {"executable"}, result' # "FileNotFoundError"
    PROVE  FoundInv' /\ SearchInv' /\ MissingInv'
<1>1. FoundInv'
  BY FoundStays DEF FoundInv, Searched
<1>2. SearchInv' /\ MissingInv'
  BY DEF SearchInv, MissingInv, Looking
<1> QED
  BY <1>1, <1>2

LEMMA GlobKeepsIInv == IInv /\ Glob => IInv'
<1> SUFFICES ASSUME IInv, Glob PROVE IInv'
  OBVIOUS
<1> USE DEF Looking
<1>1. TypeOK /\ Recorded /\ FoundInv
  BY DEF IInv
<1>2. PICK prg : found' = [found EXCEPT !.prg = prg]
  BY DEF Glob
<1>3. /\ UNCHANGED <<disk, environ, request, result, args, been, changes>>
      /\ step = "prg" /\ step' = "fsroot"
  BY DEF Glob, GoTo
<1>4. TypeOK' /\ Recorded'
  BY <1>1, <1>2, <1>3 DEF TypeOK, Recorded
<1>5. result' = "none"
  BY <1>1, <1>3 DEF TypeOK
<1>6. FoundInv' /\ SearchInv' /\ MissingInv'
  BY <1>1, <1>2, <1>3, <1>5, BothFound DEF Recorded, Searched
<1>7. RootInv'
  BY <1>3, <1>5 DEF RootInv
<1> QED
  BY <1>4, <1>6, <1>7 DEF IInv

LEMMA DiscoverFsrootKeepsIInv == IInv /\ DiscoverFsroot => IInv'
<1> SUFFICES ASSUME IInv, DiscoverFsroot PROVE IInv'
  OBVIOUS
<1> USE DEF Looking
<1>1. TypeOK /\ Recorded /\ FoundInv
  BY DEF IInv
<1>2. UNCHANGED <<disk, environ, request, args, been, changes>> /\ step = "fsroot"
      /\ result = "none"
  BY <1>1 DEF DiscoverFsroot, Raise, TypeOK
<1> DEFINE root == environ["X16FS_ROOT"]
<1>3. CASE root # None /\ At(root) # "directory"
  <2>1. UNCHANGED found /\ result' = "NotADirectoryError" /\ step' = "over"
    BY <1>3 DEF DiscoverFsroot, Raise
  <2>2. TypeOK' /\ Recorded'
    BY <1>1, <1>2, <2>1 DEF TypeOK, Recorded
  <2>3. FoundInv' /\ SearchInv' /\ MissingInv'
    BY <1>1, <1>2, <2>1, BothFound DEF Searched
  <2>4. RootInv'
    BY <2>1 DEF RootInv
  <2> QED
    BY <2>2, <2>3, <2>4 DEF IInv
<1>4. CASE ~(root # None /\ At(root) # "directory")
  <2>1. found' = [found EXCEPT !.fsroot = root] /\ step' = "spawn" /\ result' = "none"
    BY <1>2, <1>4 DEF DiscoverFsroot, GoTo
  <2>2. TypeOK' /\ Recorded'
    BY <1>1, <1>2, <2>1 DEF TypeOK, Recorded
  <2>3. FoundInv' /\ SearchInv' /\ MissingInv'
    BY <1>1, <1>2, <2>1, BothFound DEF Searched, Recorded
  <2>4. RootServed'
    <3>1. found'.fsroot = root
      BY <1>1, <2>1 DEF Recorded
    <3>2. root # None => root \in Present /\ "directory" \in been[root]
      BY <1>1, <1>4 DEF At, Recorded
    <3> QED
      BY <1>2, <3>1, <3>2 DEF RootServed
  <2>5. RootInv'
    BY <2>1, <2>4 DEF RootInv
  <2> QED
    BY <2>2, <2>3, <2>5 DEF IInv
<1> QED
  BY <1>3, <1>4

LEMMA SpawnKeepsIInv == IInv /\ Spawn => IInv'
<1> SUFFICES ASSUME IInv, Spawn PROVE IInv'
  OBVIOUS
<1> USE DEF Looking
<1>1. TypeOK /\ Recorded /\ FoundInv /\ RootInv
  BY DEF IInv
<1>2. /\ UNCHANGED <<disk, environ, request, been, changes, found>>
      /\ step = "spawn" /\ step' = "over" /\ result = "none" /\ found.emulator # None
  BY <1>1 DEF Spawn, Raise, TypeOK
<1>3. \/ result' = "started" /\ args' = BuildArgs
      \/ result' = "OSError" /\ args' = args
  BY DEF Spawn, Raise
<1>4. BuildArgs # <<>> /\ BuildArgs' = BuildArgs
  BY <1>2, CommandLine DEF BuildArgs, Option, Program
<1>5. TypeOK' /\ Recorded'
  BY <1>1, <1>2, <1>3, <1>4 DEF TypeOK, Recorded
<1>6. FoundInv' /\ SearchInv' /\ MissingInv'
  BY <1>1, <1>2, <1>3, BothFound DEF Searched
<1>7. RootInv'
  BY <1>1, <1>2, <1>3, <1>4 DEF RootInv, RootServed
<1> QED
  BY <1>5, <1>6, <1>7 DEF IInv

LEMMA ChangeDiskKeepsIInv == IInv /\ ChangeDisk => IInv'
<1> SUFFICES ASSUME IInv, ChangeDisk PROVE IInv'
  OBVIOUS
<1> USE DEF Looking
<1>1. TypeOK /\ Recorded /\ SearchInv /\ FoundInv /\ MissingInv /\ RootInv
  BY DEF IInv
<1>2. PICK path \in Present, kind \in Kind :
          /\ disk' = [disk EXCEPT ![path] = kind]
          /\ been' = [been EXCEPT ![path] = @ \cup {kind}]
  BY DEF ChangeDisk
<1>3. /\ UNCHANGED <<environ, request, step, rest, found, result, args>>
      /\ changes < MaxChanges /\ changes' = changes + 1
  BY DEF ChangeDisk
<1>4. TypeOK'
  <2>1. changes' \in 0..MaxChanges
    BY <1>1, <1>3, LaunchAssumption DEF TypeOK
  <2>2. disk' \in [Present -> Kind] /\ been' \in [Present -> SUBSET Kind]
    BY <1>1, <1>2 DEF TypeOK
  <2> QED
    BY <1>1, <1>3, <2>1, <2>2 DEF TypeOK
<1>5. Recorded' /\ \A p \in Present : been[p] \subseteq been'[p]
  BY <1>1, <1>2, <1>3 DEF TypeOK, Recorded
<1>6. FoundInv' /\ MissingInv' /\ RootInv' /\ SearchInv'
  BY <1>1, <1>3, <1>5, PastGrows
<1> QED
  BY <1>4, <1>5, <1>6 DEF IInv

LEMMA NextKeepsIInv == IInv /\ [Next]_vars => IInv'
<1> SUFFICES ASSUME IInv, [Next]_vars PROVE IInv'
  OBVIOUS
<1>1. CASE Next
  BY <1>1, LookAtCandidateKeepsIInv, LookIfExecutableKeepsIInv, NotFoundKeepsIInv,
     GlobKeepsIInv, DiscoverFsrootKeepsIInv, SpawnKeepsIInv, ChangeDiskKeepsIInv
  DEF Next, LaunchClient
<1>2. CASE UNCHANGED vars
  <2>1. TypeOK /\ Recorded /\ SearchInv /\ FoundInv /\ MissingInv /\ RootInv
    BY DEF IInv
  <2>2. TypeOK' /\ Recorded'
    BY <1>2, <2>1 DEF vars, TypeOK, Recorded, Looking
  <2>3. FoundInv' /\ MissingInv' /\ RootInv' /\ SearchInv'
    BY <1>2, <2>1, PastGrows DEF vars
  <2> QED
    BY <2>2, <2>3 DEF IInv
<1> QED
  BY <1>1, <1>2

LEMMA Inductive == Spec => []IInv
BY IInvInit, NextKeepsIInv, PTL DEF Spec

-----------------------------------------------------------------------------
(* A disk that does not change. *)

Steady == \A p \in Present : been[p] = {disk[p]}

\* Only the configured program is looked at, and the glob comes after it.
DefaultLeft ==
    step = "prg" =>
        /\ request.prg = None
        /\ \/ rest = IfSet("X16PRG_PATH")
           \/ rest = <<>> /\ ~IsFile(environ["X16PRG_PATH"])

\* The launch has gone past the searches with all that they found.
Discovered == step \in {"fsroot", "spawn"} \/ result = "started"

DefaultFound == Discovered /\ request.prg = None => found.prg = Default

Rooted == environ["X16FS_ROOT"] = None \/ At(environ["X16FS_ROOT"]) = "directory"

RootChecked ==
    /\ step = "spawn" \/ result = "started" => Rooted
    /\ result = "NotADirectoryError" => ~Rooted

Startable == result # "OSError" /\ (result = "started" => found.rom # None)

SteadyInv ==
    changes = 0 => Steady /\ DefaultLeft /\ DefaultFound /\ RootChecked /\ Startable

LEMMA MinFacts ==
    ASSUME NEW numbers \in SUBSET Nat, numbers # {}
    PROVE  Min(numbers) \in numbers /\ \A j \in numbers : Min(numbers) <= j
<1> DEFINE Less == {ss \in Nat \X Nat : ss[1] < ss[2]}
<1>1. IsWellFoundedOn(Less, Nat)
  BY NatLessThanWellFounded, Zenon DEF OpToRel
<1>2. \A i, j \in Nat : <<j, i>> \in Less <=> j < i
  OBVIOUS
<1> HIDE DEF Less
<1>3. PICK i \in numbers : \A j \in numbers : <<j, i>> \notin Less
  BY <1>1, WFMin
<1>4. \A j \in numbers : i \in Nat /\ j \in Nat /\ ~(j < i)
  BY <1>2, <1>3, Zenon
<1>5. \A j \in numbers : i =< j
  BY <1>4
<1> QED
  BY <1>3, <1>5 DEF Min

\* The glob finds the default, where it is not the configured program.
LEMMA GlobFindsDefault ==
    ASSUME ~IsFile(environ["X16PRG_PATH"]),
           NEW first, first = SelectInSeq(ResourcePrgs, LAMBDA path : At(path) # "nothing")
    PROVE  (IF first = 0 THEN None ELSE ResourcePrgs[first]) = Default
<1> DEFINE I     == {i \in 1..Len(ResourcePrgs) : At(ResourcePrgs[i]) # "nothing"}
           there == {i \in DOMAIN ResourcePrgs : disk[ResourcePrgs[i]] # "nothing"}
<1>1. first = IF I # {} THEN Min(I) ELSE 0
  BY DEF SelectInSeq
<1>2. /\ Len(ResourcePrgs) \in Nat /\ DOMAIN ResourcePrgs = 1..Len(ResourcePrgs)
      /\ \A i \in DOMAIN ResourcePrgs : ResourcePrgs[i] \in Present
  BY LaunchAssumption
<1>3. I = there
  BY <1>2 DEF At
<1>4. Default = IF there = {} THEN None
                ELSE ResourcePrgs[CHOOSE i \in there : \A j \in there : i <= j]
  BY DEF Default
<1>5. there \in SUBSET Nat /\ 0 \notin there
  BY <1>2
<1> HIDE DEF I, there
<1>6. CASE there = {}
  BY <1>1, <1>3, <1>4, <1>6
<1>7. CASE there # {}
  <2>1. Min(there) \in there
    BY <1>5, <1>7, MinFacts
  <2>2. Min(there) = CHOOSE i \in there : \A j \in there : i <= j
    BY DEF Min
  <2>3. first = Min(there) /\ first # 0
    BY <1>1, <1>3, <1>5, <1>7, <2>1
  <2> QED
    BY <1>4, <1>7, <2>2, <2>3
<1> QED
  BY <1>6, <1>7

LEMMA SteadyInvInit == Init => SteadyInv
BY DEF Init, SteadyInv, Steady, DefaultLeft, DefaultFound, Discovered, RootChecked,
       Startable

\* What depends on the disk and the environment alone.
LEMMA DiskStays ==
    ASSUME UNCHANGED <<disk, environ, been>>
    PROVE  /\ Default' = Default /\ Rooted' = Rooted /\ Steady' = Steady
           /\ \A path : IsFile(path)' = IsFile(path)
           /\ \A name : IfSet(name)' = IfSet(name)
BY DEF Default, Rooted, Steady, IsFile, IfSet, At

\* The configured program is the only candidate for it.
LEMMA OneProgram ==
    ASSUME DefaultLeft, step = "prg", rest # <<>>
    PROVE  /\ request.prg = None
           /\ Head(rest) = environ["X16PRG_PATH"] /\ Tail(rest) = <<>>
<1>1. request.prg = None /\ rest = IfSet("X16PRG_PATH")
  BY DEF DefaultLeft
<1>2. rest = <<environ["X16PRG_PATH"]>>
  BY <1>1 DEF IfSet
<1>3. \A e : Head(<<e>>) = e /\ Tail(<<e>>) = <<>>
  OBVIOUS
<1> QED
  BY <1>1, <1>2, <1>3

LEMMA ChooseKeepsSteadyInv ==
    ASSUME IInv, SteadyInv, changes = 0, Looking \in {"emulator", "rom", "prg"},
           rest # <<>>, step = "prg" => IsFile(Head(rest)), Choose, SearchOnly
    PROVE  SteadyInv'
<1>1. TypeOK /\ Recorded /\ Steady /\ DefaultLeft
  BY DEF IInv, SteadyInv
<1>2. UNCHANGED <<disk, environ, request, result, been>> /\ result = "none"
  BY <1>1 DEF SearchOnly, Looking, TypeOK
<1>3. Default' = Default /\ Rooted' = Rooted /\ Steady'
      /\ \A name : IfSet(name)' = IfSet(name)
  BY <1>1, <1>2, DiskStays
<1>4. /\ found' = [found EXCEPT ![Looking] = Head(rest)]
      /\ step' = After(Looking) /\ rest' = Candidates(After(Looking))
  BY DEF Choose, GoTo
<1>5. step' # "spawn"
  BY <1>2, <1>4 DEF After
<1>6. DefaultLeft'
  BY <1>2, <1>3, <1>4 DEF DefaultLeft, After, Candidates
<1>7. DefaultFound'
  <2> SUFFICES ASSUME step' = "fsroot", request.prg = None PROVE found'.prg = Default
    BY <1>2, <1>3, <1>5 DEF DefaultFound, Discovered
  <2>1. step = "prg" /\ Looking = "prg"
    BY <1>2, <1>4 DEF After, Looking
  <2>2. IsFile(environ["X16PRG_PATH"]) /\ Head(rest) = environ["X16PRG_PATH"]
    BY <1>1, <2>1, OneProgram
  <2> QED
    BY <1>1, <1>4, <2>1, <2>2 DEF Recorded, Default
<1> QED
  BY <1>2, <1>3, <1>5, <1>6, <1>7 DEF SteadyInv, RootChecked, Startable

LEMMA SkipKeepsSteadyInv ==
    ASSUME IInv, SteadyInv, changes = 0, Looking \in {"emulator", "rom", "prg"},
           rest # <<>>, step = "prg" => ~IsFile(Head(rest)), Skip, SearchOnly
    PROVE  SteadyInv'
<1>1. TypeOK /\ Recorded /\ Steady /\ DefaultLeft
  BY DEF IInv, SteadyInv
<1>2. UNCHANGED <<disk, environ, request, result, been>> /\ result = "none"
  BY <1>1 DEF SearchOnly, Looking, TypeOK
<1>3. Steady' /\ \A path : IsFile(path)' = IsFile(path)
  BY <1>1, <1>2, DiskStays
<1>4. rest' = Tail(rest) /\ step' = Looking /\ UNCHANGED found
  BY DEF Skip
<1>5. DefaultLeft'
  <2> SUFFICES ASSUME step = "prg" PROVE DefaultLeft'
    BY <1>4 DEF DefaultLeft, Looking
  <2>1. /\ request.prg = None /\ ~IsFile(environ["X16PRG_PATH"]) /\ Tail(rest) = <<>>
    BY <1>1, OneProgram
  <2> QED
    BY <1>2, <1>3, <1>4, <2>1 DEF DefaultLeft
<1>6. DefaultFound' /\ RootChecked' /\ Startable'
  BY <1>2, <1>4 DEF DefaultFound, Discovered, RootChecked, Startable
<1> QED
  BY <1>3, <1>5, <1>6 DEF SteadyInv

LEMMA LookAtCandidateKeepsSteadyInv ==
    IInv /\ SteadyInv /\ LookAtCandidate => SteadyInv'
<1> SUFFICES ASSUME IInv, SteadyInv, LookAtCandidate, changes = 0 PROVE SteadyInv'
  BY DEF LookAtCandidate, SteadyInv
<1>1. /\ Looking = step /\ step \in {"emulator", "rom", "prg"} /\ rest # <<>>
      /\ SearchOnly
  BY DEF LookAtCandidate, Looking, SearchOnly
<1>2. At(Head(rest)) \in IsFileKind <=> IsFile(Head(rest))
  BY DEF At, IsFile, IsFileKind
<1>3. CASE At(Head(rest)) \notin IsFileKind /\ Skip
  BY <1>1, <1>2, <1>3, SkipKeepsSteadyInv
<1>4. CASE At(Head(rest)) \in IsFileKind /\ step # "emulator" /\ Choose
  BY <1>1, <1>2, <1>4, ChooseKeepsSteadyInv
<1>5. CASE /\ At(Head(rest)) \in IsFileKind /\ step = "emulator"
           /\ step' = "executable" /\ UNCHANGED <<rest, found>>
  <2>1. Steady' /\ result' = "none"
    BY <1>1, DiskStays DEF SearchOnly, SteadyInv, IInv, TypeOK
  <2> QED
    BY <1>5, <2>1
    DEF SteadyInv, DefaultLeft, DefaultFound, Discovered, RootChecked, Startable
<1> QED
  BY <1>3, <1>4, <1>5 DEF LookAtCandidate

LEMMA LookIfExecutableKeepsSteadyInv ==
    IInv /\ SteadyInv /\ LookIfExecutable => SteadyInv'
<1> SUFFICES ASSUME IInv, SteadyInv, LookIfExecutable, changes = 0 PROVE SteadyInv'
  BY DEF LookIfExecutable, SteadyInv
<1>1. Looking = "emulator" /\ step # "prg" /\ rest # <<>> /\ SearchOnly
  BY DEF LookIfExecutable, Looking, SearchOnly, IInv, SearchInv
<1> QED
  BY <1>1, ChooseKeepsSteadyInv, SkipKeepsSteadyInv DEF LookIfExecutable

LEMMA NotFoundKeepsSteadyInv == SteadyInv /\ NotFound => SteadyInv'
BY DiskStays DEF NotFound, Raise, SteadyInv, DefaultLeft, DefaultFound, Discovered,
                 RootChecked, Startable

LEMMA GlobKeepsSteadyInv == IInv /\ SteadyInv /\ Glob => SteadyInv'
<1> SUFFICES ASSUME IInv, SteadyInv, Glob, changes = 0 PROVE SteadyInv'
  BY DEF Glob, SteadyInv
<1>1. TypeOK /\ Recorded /\ Steady /\ DefaultLeft
  BY DEF IInv, SteadyInv
<1>2. /\ UNCHANGED <<disk, environ, request, result, been>>
      /\ step = "prg" /\ rest = <<>> /\ step' = "fsroot" /\ result = "none"
  BY <1>1 DEF Glob, GoTo, TypeOK
<1>3. Default' = Default /\ Steady'
  BY <1>1, <1>2, DiskStays
<1>4. ~IsFile(environ["X16PRG_PATH"])
  BY <1>1, <1>2, PathAssumption DEF DefaultLeft, IfSet, IsFile
<1> DEFINE first == SelectInSeq(ResourcePrgs, LAMBDA path : At(path) # "nothing")
           prg   == IF first = 0 THEN None ELSE ResourcePrgs[first]
<1>5. found' = [found EXCEPT !.prg = prg]
  BY DEF Glob
<1>6. prg = Default
  BY <1>4, GlobFindsDefault
<1> HIDE DEF prg
<1>7. DefaultFound'
  BY <1>1, <1>3, <1>5, <1>6 DEF DefaultFound, Recorded
<1>8. DefaultLeft' /\ RootChecked' /\ Startable'
  BY <1>2 DEF DefaultLeft, RootChecked, Startable
<1> QED
  BY <1>3, <1>7, <1>8 DEF SteadyInv

LEMMA DiscoverFsrootKeepsSteadyInv == IInv /\ SteadyInv /\ DiscoverFsroot => SteadyInv'
<1> SUFFICES ASSUME IInv, SteadyInv, DiscoverFsroot, changes = 0 PROVE SteadyInv'
  BY DEF DiscoverFsroot, SteadyInv
<1>1. TypeOK /\ Recorded /\ Steady /\ DefaultFound
  BY DEF IInv, SteadyInv
<1>2. /\ UNCHANGED <<disk, environ, request, been>> /\ step = "fsroot" /\ result = "none"
  BY <1>1 DEF DiscoverFsroot, TypeOK
<1>3. Default' = Default /\ Rooted' = Rooted /\ Steady'
  BY <1>1, <1>2, DiskStays
<1>4. CASE ~Rooted
  <2>1. result' = "NotADirectoryError" /\ step' = "over" /\ UNCHANGED found
    BY <1>4 DEF DiscoverFsroot, Raise, Rooted
  <2> QED
    BY <1>3, <1>4, <2>1
    DEF SteadyInv, DefaultLeft, DefaultFound, Discovered, RootChecked, Startable
<1>5. CASE Rooted
  <2>1. /\ found' = [found EXCEPT !.fsroot = environ["X16FS_ROOT"]]
        /\ step' = "spawn" /\ UNCHANGED result
    BY <1>5 DEF DiscoverFsroot, GoTo, Rooted
  <2>2. DefaultFound'
    BY <1>1, <1>2, <1>3, <2>1 DEF DefaultFound, Discovered, Recorded
  <2> QED
    BY <1>2, <1>3, <1>5, <2>1, <2>2 DEF SteadyInv, DefaultLeft, RootChecked, Startable
<1> QED
  BY <1>4, <1>5

\* An emulator that was found on such a disk is still there.
LEMMA SpawnKeepsSteadyInv == IInv /\ SteadyInv /\ Spawn => SteadyInv'
<1> SUFFICES ASSUME IInv, SteadyInv, Spawn, changes = 0 PROVE SteadyInv'
  BY DEF Spawn, SteadyInv
<1>1. TypeOK /\ FoundInv /\ Steady /\ DefaultFound /\ RootChecked
  BY DEF IInv, SteadyInv
<1>2. UNCHANGED <<disk, environ, request, been>> /\ step = "spawn" /\ result = "none"
  BY <1>1 DEF Spawn, TypeOK
<1>3. Default' = Default /\ Rooted' = Rooted /\ Steady'
  BY <1>1, <1>2, DiskStays
<1>4. found["emulator"] # None /\ found.rom # None
  BY <1>1, <1>2 DEF TypeOK, Looking
<1>5. AtTimes("emulator", found["emulator"])
  BY <1>1, <1>4 DEF FoundInv, FoundFirst, Searched
<1>6. At(found["emulator"]) = "program"
  BY <1>1, <1>5 DEF AtTimes, Steady, IsFileKind, ExecutableKind, At
<1>7. result' = "started" /\ step' = "over" /\ UNCHANGED found
  BY <1>6 DEF Spawn
<1> QED
  BY <1>1, <1>2, <1>3, <1>4, <1>7
  DEF SteadyInv, DefaultLeft, DefaultFound, Discovered, RootChecked, Startable

LEMMA ChangeDiskKeepsSteadyInv == IInv /\ ChangeDisk => SteadyInv'
<1>1. IInv => changes \in Nat
  BY DEF IInv, TypeOK
<1> QED
  BY <1>1 DEF ChangeDisk, SteadyInv

LEMMA NextKeepsSteadyInv == IInv /\ SteadyInv /\ [Next]_vars => SteadyInv'
<1> SUFFICES ASSUME IInv, SteadyInv, [Next]_vars PROVE SteadyInv'
  OBVIOUS
<1>1. CASE Next
  BY <1>1, LookAtCandidateKeepsSteadyInv, LookIfExecutableKeepsSteadyInv,
     NotFoundKeepsSteadyInv, GlobKeepsSteadyInv, DiscoverFsrootKeepsSteadyInv,
     SpawnKeepsSteadyInv, ChangeDiskKeepsSteadyInv
  DEF Next, LaunchClient
<1>2. CASE UNCHANGED vars
  BY <1>2, DiskStays
  DEF vars, SteadyInv, DefaultLeft, DefaultFound, Discovered, RootChecked, Startable
<1> QED
  BY <1>1, <1>2

LEMMA InductiveWhileSteady == Spec => [](IInv /\ SteadyInv)
BY Inductive, SteadyInvInit, NextKeepsSteadyInv, PTL DEF Spec

-----------------------------------------------------------------------------
(* The theorems. *)

\* A launch raises or has started exactly when it is over, has a command line only if it
\* started, and went past each search with what that search found (_launchClient).
THEOREM TypeCorrect == Spec => []TypeOK
<1>1. IInv => TypeOK
  BY DEF IInv
<1> QED
  BY <1>1, Inductive, PTL

\* Whatever changes on the disk during the search, what was there and good all along is
\* found before all that comes after it and never missed, and what is found has passed
\* each look at some moment (_firstExisting).
THEOREM FirstIsChosen == Spec => []FirstChoice
<1>1. IInv => FirstChoice
  BY DEF IInv, FoundInv, FoundFirst, MissingInv, FirstChoice, Searched
<1> QED
  BY <1>1, Inductive, PTL

\* A started emulator serves the configured root, which was a directory, and no other
\* (discoverFsroot, _buildArgs).
THEOREM RootIsServed == Spec => []FsrootServed
<1>1. IInv => FsrootServed
  <2> SUFFICES ASSUME IInv, result = "started" PROVE FsrootServed
    BY DEF FsrootServed
  <2>1. RootServed /\ args = BuildArgs /\ found.emulator \in Present
    <3>1. found["emulator"] # None /\ FoundInv
      BY DEF IInv, RootInv
    <3>2. FoundFirst("emulator")
      BY <3>1 DEF FoundInv, Searched
    <3> QED
      BY <3>2 DEF IInv, RootInv, FoundFirst, AtTimes
  <2> DEFINE rootOptions == {j \in DOMAIN args : args[j][1] = "-fsroot"}
             roots == {args[i][2] : i \in rootOptions}
  <2>2. \A i \in rootOptions :
            found.fsroot # None /\ args[i] = <<"-fsroot", found.fsroot>>
    <3> TAKE i \in rootOptions
    <3>1. args[i] \in Elements(BuildArgs) /\ args[i][1] = "-fsroot"
      BY <2>1 DEF Elements
    <3>2. args[i][1] \notin Words
      BY <3>1 DEF Words
    <3>3. args[i] # <<found.emulator>>
      BY <2>1, <3>1, PathAssumption
    <3> QED
      BY <3>1, <3>2, <3>3, CommandLine
  <2>3. found.fsroot # None =>
            \E i \in rootOptions : args[i] = <<"-fsroot", found.fsroot>>
    BY <2>1, CommandLine DEF Elements
  <2>4. \A value : <<"-fsroot", value>>[2] = value
    OBVIOUS
  <2>5. roots = {found.fsroot} \ {None}
    BY <2>2, <2>3, <2>4
  <2> QED
    BY <2>1, <2>5 DEF FsrootServed, RootServed
<1> QED
  BY <1>1, Inductive, PTL

\* Where the disk does not change, what is found is there and what is missed is not.
LEMMA StartsWhenThere ==
    ASSUME IInv, SteadyInv, changes = 0, result # "none"
    PROVE  result = "started" <=> There("emulator") /\ There("rom") /\ Rooted
<1>1. TypeOK /\ Recorded /\ FoundInv /\ MissingInv /\ RootInv
      /\ Steady /\ RootChecked /\ Startable
  BY DEF IInv, SteadyInv
<1>2. \A what, path :
          /\ AtTimes(what, path) => At(path) \in Good(what)
          /\ At(path) \in Good(what) => AllAlong(what, path)
  BY <1>1 DEF Steady, At, AtTimes, AllAlong, Good, IsFileKind
<1>3. CASE result = "started"
  <2>1. found["emulator"] # None /\ found["rom"] # None
    BY <1>1, <1>3 DEF RootInv, Startable
  <2>2. FoundFirst("emulator") /\ FoundFirst("rom")
    BY <1>1, <2>1 DEF FoundInv, Searched
  <2>3. ASSUME NEW what, FoundFirst(what) PROVE There(what)
    <3>1. PICK i \in DOMAIN Order(what) :
              Order(what)[i] = found[what] /\ AtTimes(what, found[what])
      BY <2>3 DEF FoundFirst
    <3>2. At(Order(what)[i]) \in Good(what)
      BY <1>2, <3>1
    <3> QED
      BY <3>2 DEF There
  <2> QED
    BY <1>1, <1>3, <2>2, <2>3 DEF RootChecked
<1>4. CASE result = "FileNotFoundError"
  <2>1. ~There(Missing)
    BY <1>1, <1>2, <1>4 DEF MissingInv, There
  <2> QED
    BY <1>4, <2>1 DEF Missing
<1>5. CASE result = "NotADirectoryError"
  BY <1>1, <1>5 DEF RootChecked
<1> QED
  BY <1>1, <1>3, <1>4, <1>5 DEF TypeOK, Startable

Wanted == IF request.prg # None THEN request.prg ELSE Default

Loaded == {args[i] : i \in {j \in DOMAIN args : args[j][1] = "-prg"}}

Runs == \E i \in DOMAIN args : args[i][1] = "-run"

\* A started launch loads and runs what the call and the default say.
LEMMA LoadsAsAsked ==
    ASSUME IInv, SteadyInv, changes = 0, result = "started"
    PROVE  /\ Wanted = None <=> Loaded = {}
           /\ \A option \in Loaded : option[2] = Wanted
           /\ Runs <=> request.run /\ Wanted # None
<1>1. DefaultFound /\ FoundInv /\ args = BuildArgs /\ found["emulator"] # None
  BY DEF IInv, SteadyInv, RootInv
<1>2. Program = Wanted
  BY <1>1 DEF Program, Wanted, DefaultFound, Discovered
<1>3. found.emulator \in Present
  BY <1>1 DEF FoundInv, FoundFirst, AtTimes, Searched
<1>4. Loaded = {option \in Elements(BuildArgs) : option[1] = "-prg"}
  BY <1>1 DEF Elements, Loaded
<1>5. Runs <=> \E option \in Elements(BuildArgs) : option[1] = "-run"
  BY <1>1 DEF Elements, Runs
<1>6. \A option \in Elements(BuildArgs) :
          /\ option[1] = "-prg" => Program # None /\ option[2] = Program
          /\ option[1] = "-run" => Program # None /\ request.run
  <2> SUFFICES ASSUME NEW option \in Elements(BuildArgs), option[1] \in LoadWords
               PROVE  /\ option[1] = "-prg" => Program # None /\ option[2] = Program
                      /\ option[1] = "-run" => Program # None /\ request.run
    BY DEF LoadWords
  <2>1. option # <<found.emulator>>
    BY <1>3, PathAssumption DEF LoadWords
  <2>2. option # <<"-fsroot", found.fsroot>>
    BY DEF LoadWords
  <2> QED
    BY <2>1, <2>2, CommandLine
<1> QED
  BY <1>2, <1>4, <1>5, <1>6, CommandLine

\* Where the disk does not change, a launch starts if and only if the emulator, the ROM
\* and the root are there, and loads and runs the program that was asked for, or else
\* the default, and nothing where there is neither (_launchClient, discoverPrg,
\* _buildArgs).
THEOREM StartedAsAsked == Spec => []StartsAsAsked
<1>1. IInv /\ SteadyInv => StartsAsAsked
  <2> SUFFICES ASSUME IInv, SteadyInv, result # "none", changes = 0 PROVE StartsAsAsked
    BY DEF StartsAsAsked
  <2>1. result = "started" <=> There("emulator") /\ There("rom") /\ Rooted
    BY StartsWhenThere
  <2>2. result = "started" =>
            /\ Wanted = None <=> Loaded = {}
            /\ \A option \in Loaded : option[2] = Wanted
            /\ Runs <=> request.run /\ Wanted # None
    BY LoadsAsAsked
  <2> QED
    BY <2>1, <2>2, Zenon DEF StartsAsAsked, Rooted, Wanted, Loaded, Runs
<1> QED
  BY <1>1, InductiveWhileSteady, PTL
=============================================================================
