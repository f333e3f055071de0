--------------------------- MODULE RegistryProofs ---------------------------
(***************************************************************************)
(* Proofs about Registry for every number of repositories, sources,        *)
(* requests, versions and faults.                                          *)
(***************************************************************************)
EXTENDS Registry, TLAPS

RequestRow == [pc : Pc, source : Source \cup {None}, id : Id, version : Version,
               file : {"none", "partial", "package"}, alone : BOOLEAN]

\* IInv, as one predicate for every source and one for every request.
Whole(s) ==
    /\ row[s].id \in {0, ids[s]}
    /\ row[s].id = 0 => row[s] = NoRow /\ setting[s] = "unset"
    /\ settled[s] \in {"installed", "removed"} => About(s) = {}
    /\ settled[s] = "removed" =>
          /\ ids[s] # 0
          /\ row[s] = NoRow /\ package[Last(s)] = 0 /\ loaded[Last(s)] = 0 /\ setting[s] = "unset"
    /\ settled[s] = "installed" =>
          /\ row[s].id = ids[s] /\ row[s].version \in Runnable
          /\ package[Last(s)] = row[s].version
          /\ loaded[Last(s)] = row[s].version
          /\ setting[s] # "unset"

Knows(q) == OfItsRow(q) /\ (request[q].alone => HasReached(q))

LEMMA IInvIs ==
    IInv <=> TypeOK /\ (\A s \in Source : Whole(s)) /\ (\A q \in Request : Knows(q))
BY DEF IInv, Whole, Knows, InstallsAreWhole, UninstallsAreWhole

LEMMA IInvNext ==
    ASSUME TypeOK', \A s \in Source : Whole(s)', \A q \in Request : Knows(q)'
    PROVE  IInv'
BY DEF IInv, Whole, Knows, InstallsAreWhole, UninstallsAreWhole

LEMMA IdleType == /\ Idle \in RequestRow /\ Idle.pc = "idle" /\ Idle.source = None
                  /\ Idle.alone = FALSE
BY RegistryAssumption DEF Idle, RequestRow, Pc, Id, Version

LEMMA KeyType == ASSUME NEW s \in Source, NEW i \in 1..MaxIds PROVE <<s, i>> \in Key
BY DEF Key

LEMMA InitIInv == Init => IInv
<1>. SUFFICES ASSUME Init PROVE IInv
  OBVIOUS
<1>1. TypeOK
  BY RegistryAssumption, IdleType
  DEF Init, TypeOK, RequestRow, Version, Id, File, Torn, NoRow
<1>2. \A s \in Source : Whole(s)
  BY DEF Init, Whole, NoRow
<1>3. \A q \in Request : Knows(q)
  BY IdleType DEF Init, Knows, OfItsRow, Writing, Removing
<1>. QED BY <1>1, <1>2, <1>3, IInvIs

-----------------------------------------------------------------------------
\* What a source and its requests are not touched by stays.
Untouched(s) ==
    /\ row'[s] = row[s] /\ ids'[s] = ids[s] /\ setting'[s] = setting[s]
    /\ \A i \in 1..MaxIds : /\ package'[<<s, i>>] = package[<<s, i>>]
                            /\ partial'[<<s, i>>] = partial[<<s, i>>]
                            /\ loaded'[<<s, i>>] = loaded[<<s, i>>]

LEMMA WholeStays ==
    ASSUME TypeOK, NEW s \in Source, Whole(s), Untouched(s), settled'[s] = settled[s],
           About(s)' = About(s)
    PROVE  Whole(s)'
<1>1. ids[s] # 0 => ids[s] \in 1..MaxIds
  BY RegistryAssumption DEF TypeOK, Id
<1>2. settled[s] = "installed" => ids[s] # 0
  <2>1. SUFFICES ASSUME settled[s] = "installed", ids[s] = 0 PROVE FALSE
    OBVIOUS
  <2>2. row[s].version = 0 /\ row[s].version \in Runnable
    BY <2>1 DEF Whole, NoRow
  <2>. QED BY <2>2, RegistryAssumption DEF Runnable
<1>3. ids[s] # 0 => package'[Last(s)] = package[Last(s)] /\ loaded'[Last(s)] = loaded[Last(s)]
  BY <1>1 DEF Untouched, Last
<1>4. Last(s)' = Last(s)
  BY DEF Untouched, Last
<1>. QED BY <1>2, <1>3, <1>4 DEF Whole, Untouched

LEMMA KnowsStays ==
    ASSUME TypeOK, NEW q \in Request, Knows(q), request'[q] = request[q],
           request[q].source \in Source => Untouched(request[q].source),
           \A x \in Request \ {q} : request'[x].source = request[q].source =>
               request[x].source = request[q].source
    PROVE  Knows(q)'
<1>. DEFINE r == request[q]
<1>1. r \in RequestRow
  BY DEF TypeOK, RequestRow
<1>2. CASE r.pc = "idle"
  BY <1>2, IdleType DEF Knows, OfItsRow, Writing, Removing
<1>3. CASE r.pc # "idle"
  <2>1. r.source \in Source
    BY <1>1, <1>3 DEF RequestRow, Knows, OfItsRow
  <2>2. Untouched(r.source)
    BY <2>1
  <2>3. r.pc \in Writing \cup Removing => KeyOf(q) = <<r.source, r.id>> /\ r.id \in 1..MaxIds
    <3>1. r.pc \in Writing \cup Removing => r.id \in 1..ids[r.source] /\ ids[r.source] \in 0..MaxIds
      BY <2>1 DEF Knows, OfItsRow, TypeOK, Id
    <3>. QED BY <3>1, RegistryAssumption DEF KeyOf
  <2>4. r.pc \in Writing \cup Removing =>
            /\ package'[KeyOf(q)] = package[KeyOf(q)] /\ partial'[KeyOf(q)] = partial[KeyOf(q)]
            /\ loaded'[KeyOf(q)] = loaded[KeyOf(q)]
    BY <2>2, <2>3 DEF Untouched
  <2>5. KeyOf(q)' = KeyOf(q) /\ (IsRow(q)' <=> IsRow(q))
    BY <2>2 DEF KeyOf, IsRow, Untouched
  <2>6. OfItsRow(q)'
    BY <2>2, <2>5 DEF Knows, OfItsRow, Untouched
  <2>7. r.alone => HasReached(q)'
    BY <2>2, <2>4, <2>5 DEF Knows, HasReached, Untouched, Writing, Removing
  <2>. QED BY <2>6, <2>7 DEF Knows
<1>. QED BY <1>2, <1>3
-----------------------------------------------------------------------------
\* A step of a request about one source.  Others about it are not alone, and so have reached
\* nothing; those about other sources are where they were.
Bystander(x, s) ==
    /\ request'[x].pc = request[x].pc /\ request'[x].source = request[x].source
    /\ request'[x].id = request[x].id /\ request'[x].version = request[x].version
    /\ request'[x].alone = request[x].alone
    /\ request'[x].file \in {"none", "partial", "package"}
    /\ request[x].source # s => request'[x] = request[x]
    /\ request[x] = Idle => request'[x] = Idle

LEMMA RequestStep ==
    ASSUME IInv, TypeOK', NEW q \in Request, NEW s \in Source,
           request[q].source = s,
           \A t \in Source \ {s} : Untouched(t) /\ settled'[t] = settled[t],
           \A x \in Request \ {q} : Bystander(x, s),
           request'[q].source \in {s, None},
           ids[s] <= ids'[s],
           \A x \in Request \ {q} :
               request[x].source = s /\ request[x].pc = "seeding" =>
                   ~(row'[s].id = request[x].id /\ setting'[s] = "chosen"),
           Whole(s)', Knows(q)'
    PROVE  IInv'
<1>1. \A t \in Source \ {s} : Whole(t)'
  <2>. SUFFICES ASSUME NEW t \in Source \ {s} PROVE Whole(t)'
    OBVIOUS
  <2>1. s # None
    BY RegistryAssumption
  <2>2. About(t)' = About(t)
    BY RegistryAssumption DEF About, Bystander
  <2>. QED BY <2>2, WholeStays, IInvIs
<1>2. \A x \in Request \ {q} : Knows(x)'
  <2>. SUFFICES ASSUME NEW x \in Request \ {q} PROVE Knows(x)'
    OBVIOUS
  <2>1. Bystander(x, s) /\ Knows(x) /\ TypeOK
    BY IInvIs
  <2>2. CASE request[x].source # s
    <3>1. request'[x] = request[x]
      BY <2>1, <2>2 DEF Bystander
    <3>2. request[x].source \in Source => Untouched(request[x].source)
      BY <2>2
    <3>3. \A y \in Request \ {x} : request'[y].source = request[x].source =>
              request[y].source = request[x].source \/ request[x].source = None
      BY <2>2 DEF Bystander
    <3>4. CASE request[x].source = None
      <4>1. request[x] = Idle
        BY <2>1, <3>4 DEF Knows, OfItsRow
      <4>. QED BY <3>1, <4>1, IdleType DEF Knows, OfItsRow, Writing, Removing
    <3>. QED BY <2>1, <3>1, <3>2, <3>3, <3>4, KnowsStays
  <2>3. CASE request[x].source = s
    <3>1. ~request[x].alone
      BY <2>1, <2>3 DEF Knows, HasReached
    <3>2. request[x].pc # "idle" /\ s # None
      BY <2>1, <2>3, RegistryAssumption DEF Knows, OfItsRow
    <3>3. request[x].id \in 1..ids[s] => request[x].id \in 1..ids'[s]
      BY DEF IInv, TypeOK, Id
    <3>4. OfItsRow(x)'
      BY <2>1, <2>3, <3>2, <3>3 DEF Knows, OfItsRow, Bystander, IsRow
    <3>. QED BY <2>1, <3>1, <3>4 DEF Knows, Bystander
  <2>. QED BY <2>2, <2>3
<1>. QED BY <1>1, <1>2, IInvNext
\* What is known of a request under way and of its source.
LEMMA Acting ==
    ASSUME IInv, NEW q \in Request, request[q].pc # "idle"
    PROVE  /\ request[q] \in RequestRow /\ request[q].source \in Source
           /\ settled[request[q].source] \notin {"installed", "removed"}
           /\ Knows(q) /\ Whole(request[q].source)
           /\ request[q].pc \in Writing \cup Removing =>
                 /\ request[q].id \in 1..MaxIds /\ request[q].id \in 1..ids[request[q].source]
                 /\ KeyOf(q) = <<request[q].source, request[q].id>> /\ KeyOf(q) \in Key
<1>1. request[q] \in RequestRow
  BY DEF IInv, TypeOK, RequestRow
<1>2. Knows(q) /\ request[q].source \in Source
  BY <1>1, IInvIs DEF Knows, OfItsRow, RequestRow
<1>3. q \in About(request[q].source)
  BY DEF About
<1>4. Whole(request[q].source) /\ settled[request[q].source] \notin {"installed", "removed"}
  BY <1>2, <1>3, IInvIs DEF Whole
<1>5. request[q].pc \in Writing \cup Removing =>
          request[q].id \in 1..ids[request[q].source] /\ ids[request[q].source] \in 0..MaxIds
  BY <1>2 DEF Knows, OfItsRow, IInv, TypeOK, Id
<1>6. request[q].pc \in Writing \cup Removing => request[q].id \in 1..MaxIds
  BY <1>5, RegistryAssumption
<1>. QED BY <1>1, <1>2, <1>4, <1>5, <1>6, KeyType DEF KeyOf

\* A source with a request about it has nothing settled to lose.
LEMMA BusyWhole ==
    ASSUME NEW s \in Source, settled[s] \notin {"installed", "removed"}, settled'[s] = settled[s],
           row'[s].id \in {0, ids'[s]},
           row'[s].id = 0 => row'[s] = NoRow /\ setting'[s] = "unset"
    PROVE  Whole(s)'
BY DEF Whole

LEMMA StopsFacts ==
    ASSUME TypeOK, NEW q \in Request, Stops(q)
    PROVE  /\ request' \in [Request -> RequestRow] /\ request'[q] = Idle
           /\ \A x \in Request \ {q} : request'[x] = request[x]
BY IdleType DEF Stops, TypeOK, RequestRow

LEMMA IdleKnows == ASSUME NEW q \in Request, request'[q] = Idle PROVE Knows(q)'
BY IdleType DEF Knows, OfItsRow, Writing, Removing

LEMMA GoesFacts ==
    ASSUME TypeOK, NEW q \in Request, NEW pc \in Pc, Goes(q, pc)
    PROVE  /\ request' \in [Request -> RequestRow] /\ request'[q].pc = pc
           /\ request'[q].source = request[q].source /\ request'[q].id = request[q].id
           /\ request'[q].version = request[q].version /\ request'[q].file = request[q].file
           /\ request'[q].alone = request[q].alone
           /\ \A x \in Request \ {q} : request'[x] = request[x]
<1>1. request \in [Request -> RequestRow] /\ request[q] \in RequestRow
  BY DEF TypeOK, RequestRow
<1>2. request' = [request EXCEPT ![q] = [request[q] EXCEPT !.pc = pc]]
  BY DEF Goes
<1>3. [request[q] EXCEPT !.pc = pc] \in RequestRow
  BY <1>1 DEF RequestRow
<1>. QED BY <1>1, <1>2, <1>3 DEF RequestRow

LEMMA StayBystander ==
    ASSUME TypeOK, NEW x \in Request, NEW s, request'[x] = request[x]
    PROVE  Bystander(x, s)
BY DEF Bystander, TypeOK

\* A request that ends with an error leaves the source as it stands.
LEMMA FailsStep ==
    ASSUME IInv, NEW q \in Request, request[q].pc # "idle", Stops(q),
           UNCHANGED <<index, row, ids, package, loaded, setting, settled>>,
           \/ partial' = partial
           \/ KeyOf(q) \in Key /\ partial' = [partial EXCEPT ![KeyOf(q)] = 0],
           faults' \in 0..MaxFaults
    PROVE  IInv'
<1>0. PICK s \in Source : request[q].source = s
  BY Acting
<1>1. /\ TypeOK /\ settled[s] \notin {"installed", "removed"}
      /\ Whole(s)
  BY <1>0, Acting DEF IInv
<1>2. partial' \in [Key -> File]
  <2>1. 0 \in File
    BY RegistryAssumption DEF File, Torn
  <2>. QED BY <1>1, <2>1 DEF TypeOK
<1>3. TypeOK'
  BY <1>1, <1>2, StopsFacts DEF TypeOK, RequestRow, index
<1>4. \A t \in Source \ {s} : Untouched(t) /\ settled'[t] = settled[t]
  BY <1>0, <1>1 DEF Untouched, TypeOK, KeyOf, Key
<1>5. \A x \in Request \ {q} : Bystander(x, s)
  BY <1>1, StopsFacts, StayBystander
<1>6. Whole(s)'
  BY <1>1, BusyWhole DEF Whole
<1>7. Knows(q)' /\ request'[q].source \in {s, None} /\ ids[s] <= ids'[s]
  BY <1>1, StopsFacts, IdleKnows, IdleType DEF TypeOK, Id
<1>8. \A x \in Request \ {q} : request[x].source = s /\ request[x].pc = "seeding" =>
          ~(row'[s].id = request[x].id /\ setting'[s] = "chosen")
  BY IInvIs DEF Knows, OfItsRow, IsRow
<1>. QED BY <1>0, <1>1, <1>3, <1>4, <1>5, <1>6, <1>7, <1>8, RequestStep

LEMMA RefuseStep == ASSUME IInv, NEW q \in Request, Refuse(q) PROVE IInv'
BY FailsStep DEF Refuse, At, homes, index, IInv, TypeOK
-----------------------------------------------------------------------------
LEMMA RowExcept ==
    ASSUME NEW r \in RequestRow, NEW b \in BOOLEAN
    PROVE  /\ [r EXCEPT !.alone = b] \in RequestRow
           /\ [r EXCEPT !.alone = b].pc = r.pc /\ [r EXCEPT !.alone = b].source = r.source
           /\ [r EXCEPT !.alone = b].id = r.id /\ [r EXCEPT !.alone = b].version = r.version
           /\ [r EXCEPT !.alone = b].file = r.file /\ [r EXCEPT !.alone = b].alone = b
           /\ r.alone = b => [r EXCEPT !.alone = b] = r
BY DEF RequestRow

LEMMA BeginsStep ==
    ASSUME IInv, NEW q \in Request, NEW s \in Source, NEW new \in RequestRow,
           request[q] = Idle, Begins(q, s, new), new.source = s,
           new.pc = "fetched" \/ (new.pc = "unloading" /\ new.id = ids[s] /\ ids[s] # 0),
           UNCHANGED <<index, homes, faults>>
    PROVE  IInv'
<1>. DEFINE alone == About(s) = {}
            keeps(x) == request[x].alone /\ request[x].source # s
<1>1. /\ TypeOK /\ request \in [Request -> RequestRow] /\ s # None
      /\ \A x \in Request : Knows(x) /\ \A t \in Source : Whole(t)
  BY IInvIs, RegistryAssumption DEF IInv, TypeOK, RequestRow
<1>2. \A x \in Request : keeps(x) \in BOOLEAN
  BY <1>1 DEF RequestRow
<1>3. /\ request' \in [Request -> RequestRow]
      /\ request'[q] = [new EXCEPT !.alone = alone]
      /\ \A x \in Request \ {q} : request'[x] = [request[x] EXCEPT !.alone = keeps(x)]
  <2>1. request' = [x \in Request |-> IF x = q THEN [new EXCEPT !.alone = alone]
                                      ELSE [request[x] EXCEPT !.alone = keeps(x)]]
    BY DEF Begins
  <2>2. \A x \in Request : /\ [request[x] EXCEPT !.alone = keeps(x)] \in RequestRow
                           /\ [new EXCEPT !.alone = alone] \in RequestRow
    BY <1>1, <1>2, RowExcept
  <2>. HIDE DEF keeps, alone
  <2>. QED BY <2>1, <2>2
<1>4. settled' = [settled EXCEPT ![s] = "unknown"]
  BY DEF Begins
<1>5. TypeOK'
  BY <1>1, <1>3, <1>4 DEF TypeOK, RequestRow, index, homes
<1>6. \A x \in Request \ {q} :
          /\ request'[x].pc = request[x].pc /\ request'[x].source = request[x].source
          /\ request'[x].id = request[x].id /\ request'[x].version = request[x].version
          /\ request'[x].file = request[x].file /\ (request'[x].alone <=> keeps(x))
          /\ request[x] = Idle => request'[x] = Idle
  <2>. SUFFICES ASSUME NEW x \in Request \ {q}
                PROVE  /\ request'[x].pc = request[x].pc /\ request'[x].source = request[x].source
                       /\ request'[x].id = request[x].id /\ request'[x].version = request[x].version
                       /\ request'[x].file = request[x].file /\ (request'[x].alone <=> keeps(x))
                       /\ request[x] = Idle => request'[x] = Idle
    BY Zenon
  <2>1. request[x] = Idle => keeps(x) = FALSE
    BY IdleType
  <2>2. request[x] \in RequestRow /\ keeps(x) \in BOOLEAN
    BY <1>1, <1>2
  <2>3. request'[x] = [request[x] EXCEPT !.alone = keeps(x)]
    BY <1>3
  <2>. HIDE DEF keeps
  <2>4. request[x] = Idle => request'[x] = request[x]
    <3>1. [Idle EXCEPT !.alone = FALSE] = Idle
      BY IdleType, RowExcept, Zenon
    <3>. QED BY <2>1, <2>3, <3>1
  <2>. QED BY <2>2, <2>3, <2>4, RowExcept
<1>7. /\ request'[q].pc = new.pc /\ request'[q].source = s /\ request'[q].id = new.id
      /\ request'[q].version = new.version /\ (request'[q].alone <=> alone)
  <2>1. alone \in BOOLEAN /\ request'[q] = [new EXCEPT !.alone = alone]
    BY <1>3
  <2>. HIDE DEF alone
  <2>. QED BY <2>1, RowExcept
<1>8. \A t \in Source : Untouched(t)
  BY DEF Untouched, homes
<1>9. \A t \in Source : Whole(t)'
  <2>. SUFFICES ASSUME NEW t \in Source PROVE Whole(t)'
    OBVIOUS
  <2>1. CASE t = s
    <3>1. settled'[s] = "unknown"
      BY <1>1, <1>4 DEF TypeOK
    <3>. QED BY <1>1, <2>1, <3>1 DEF Whole, homes
  <2>2. CASE t # s
    <3>1. t # None /\ settled'[t] = settled[t]
      BY <1>1, <1>4, <2>2, RegistryAssumption DEF TypeOK
    <3>2. About(t)' = About(t)
      BY <1>6, <1>7, <2>2, <3>1, IdleType DEF About
    <3>. QED BY <1>1, <1>8, <3>1, <3>2, WholeStays
  <2>. QED BY <2>1, <2>2
<1>10. \A x \in Request \ {q} : Knows(x)'
  <2>. SUFFICES ASSUME NEW x \in Request \ {q} PROVE Knows(x)'
    OBVIOUS
  <2>1. OfItsRow(x)'
    BY <1>1, <1>6 DEF Knows, OfItsRow, IsRow, homes
  <2>2. request'[x].alone => HasReached(x)'
    <3>. SUFFICES ASSUME request'[x].alone PROVE HasReached(x)'
      OBVIOUS
    <3>1. request[x].alone /\ request[x].source # s /\ HasReached(x)
      BY <1>1, <1>6 DEF Knows
    <3>2. KeyOf(x)' = KeyOf(x)
      BY <1>6 DEF KeyOf
    <3>3. \A y \in Request \ {x} : request'[y].source # request'[x].source
      BY <1>6, <1>7, <3>1 DEF HasReached
    <3>. QED BY <1>6, <3>1, <3>2, <3>3 DEF HasReached, homes
  <2>. QED BY <2>1, <2>2 DEF Knows
<1>11. Knows(q)'
  <2>1. OfItsRow(q)'
    <3>1. new.pc \in Removing => ids[s] \in 1..ids'[s]
      BY <1>1 DEF Removing, TypeOK, Id, homes
    <3>. QED BY <1>1, <1>7, <3>1 DEF OfItsRow, Writing, Removing, homes
  <2>2. alone => HasReached(q)'
    <3>1. alone => \A x \in Request \ {q} : request'[x].source # s
      BY <1>6 DEF About
    <3>. QED BY <1>7, <3>1 DEF HasReached, Writing, Removing, homes
  <2>. QED BY <1>7, <2>1, <2>2 DEF Knows
<1>. QED BY <1>5, <1>9, <1>10, <1>11, IInvNext

LEMMA BeginInstallStep == ASSUME IInv, NEW q \in Request, NEW s \in Source, BeginInstall(q, s)
                          PROVE  IInv'
<1>. DEFINE new == [Idle EXCEPT !.pc = "fetched", !.source = s, !.version = entry[s]]
<1>1. entry[s] \in Version
  BY DEF IInv, TypeOK
<1>2. new \in RequestRow /\ new.source = s /\ new.pc = "fetched"
  BY <1>1, IdleType DEF RequestRow, Pc, Idle
<1>3. request[q] = Idle /\ Begins(q, s, new) /\ UNCHANGED <<index, homes, faults>>
  BY DEF BeginInstall
<1>. HIDE DEF new
<1>. QED BY <1>2, <1>3, BeginsStep

LEMMA BeginUninstallStep == ASSUME IInv, NEW q \in Request, NEW s \in Source, BeginUninstall(q, s)
                            PROVE  IInv'
<1>. DEFINE new == [Idle EXCEPT !.pc = "unloading", !.source = s, !.id = ids[s]]
<1>1. ids[s] \in Id
  BY DEF IInv, TypeOK
<1>2. new \in RequestRow /\ new.source = s /\ new.pc = "unloading" /\ new.id = ids[s]
  BY <1>1, IdleType DEF RequestRow, Pc, Idle
<1>3. request[q] = Idle /\ Begins(q, s, new) /\ ids[s] # 0 /\ UNCHANGED <<index, homes, faults>>
  BY DEF BeginUninstall
<1>. HIDE DEF new
<1>. QED BY <1>2, <1>3, BeginsStep
-----------------------------------------------------------------------------
\* A step that moves a request on, within its source.
LEMMA MovesStep ==
    ASSUME IInv, NEW q \in Request, request[q].pc # "idle", NEW s \in Source, request[q].source = s,
           TypeOK', Knows(q)', request'[q].source = s,
           UNCHANGED settled, ids[s] <= ids'[s],
           \A t \in Source \ {s} : Untouched(t),
           \A x \in Request \ {q} : Bystander(x, s),
           row'[s].id \in {0, ids'[s]}, row'[s].id = 0 => row'[s] = NoRow /\ setting'[s] = "unset",
           \A x \in Request \ {q} :
               request[x].source = s /\ request[x].pc = "seeding" =>
                   ~(row'[s].id = request[x].id /\ setting'[s] = "chosen")
    PROVE  IInv'
<1>1. settled[s] \notin {"installed", "removed"} /\ settled'[s] = settled[s]
  BY Acting
<1>2. Whole(s)'
  BY <1>1, BusyWhole
<1>. QED BY <1>2, RequestStep

\* The others are not about to overtake a choice, and do not gain a row, when the row and the
\* setting stay.
LEMMA SeedingStays ==
    ASSUME IInv, NEW s \in Source, row' = row, setting' = setting
    PROVE  \A x \in Request : request[x].source = s /\ request[x].pc = "seeding" =>
               ~(row'[s].id = request[x].id /\ setting'[s] = "chosen")
BY IInvIs DEF Knows, OfItsRow, IsRow

\* A request that is alone.
LEMMA AloneStays ==
    ASSUME NEW q \in Request, HasReached(q), request'[q].source = request[q].source,
           \A x \in Request \ {q} : request'[x].source = request[x].source
    PROVE  \A x \in Request \ {q} : request'[x].source # request'[q].source
BY DEF HasReached

LEMMA OpenStep == ASSUME IInv, NEW q \in Request, Open(q) PROVE IInv'
<1>0. request[q].pc = "opening" /\ "opening" \in Writing /\ TypeOK
  BY DEF Open, At, Writing, IInv
<1>1. PICK s \in Source : request[q].source = s
  BY <1>0, Acting
<1>2. /\ request[q] \in RequestRow /\ Knows(q) /\ Whole(s) /\ KeyOf(q) = <<s, request[q].id>>
      /\ KeyOf(q) \in Key /\ request[q].id \in 1..MaxIds /\ request[q].id \in 1..ids[s]
  BY <1>0, <1>1, Acting
<1>3. CASE Fails(q) /\ UNCHANGED partial
  BY <1>0, <1>3, FailsStep, RegistryAssumption DEF Open, Fails, Fault, IInv, TypeOK
<1>4. CASE /\ partial' = [partial EXCEPT ![KeyOf(q)] = Torn]
           /\ request' = [request EXCEPT ![q].pc = "filling", ![q].file = "partial"]
           /\ UNCHANGED <<settled, faults>>
  <2>. DEFINE new == [request[q] EXCEPT !.pc = "filling", !.file = "partial"]
  <2>1. /\ new \in RequestRow /\ new.pc = "filling" /\ new.file = "partial" /\ new.source = s
        /\ new.id = request[q].id /\ new.version = request[q].version /\ new.alone = request[q].alone
    BY <1>1, <1>2 DEF RequestRow, Pc
  <2>2. /\ request' \in [Request -> RequestRow] /\ request'[q] = new
        /\ \A x \in Request \ {q} : request'[x] = request[x]
    <3>1. request' = [request EXCEPT ![q] = new]
      BY <1>0, <1>4 DEF TypeOK
    <3>. HIDE DEF new
    <3>. QED BY <1>0, <2>1, <3>1 DEF TypeOK, RequestRow
  <2>. HIDE DEF new
  <2>3. UNCHANGED <<repos, entry, row, ids, package, loaded, setting, settled, faults>>
    BY <1>4 DEF Open, index
  <2>4. TypeOK'
    <3>1. Torn \in File
      BY RegistryAssumption DEF File, Torn
    <3>. QED BY <1>0, <1>2, <1>4, <2>2, <2>3, <3>1 DEF TypeOK, RequestRow
  <2>5. Knows(q)'
    <3>1. OfItsRow(q)'
      BY <1>0, <1>2, <2>1, <2>2, <2>3, RegistryAssumption DEF Knows, OfItsRow, Writing, Removing
    <3>2. request[q].alone => HasReached(q)'
      <4>. SUFFICES ASSUME request[q].alone PROVE HasReached(q)'
        OBVIOUS
      <4>1. HasReached(q) /\ row[s] = [id |-> request[q].id, version |-> request[q].version]
        BY <1>0, <1>1, <1>2 DEF Knows, HasReached
      <4>2. KeyOf(q)' = KeyOf(q) /\ partial'[KeyOf(q)] = Torn
        BY <1>0, <1>1, <1>2, <1>4, <2>1, <2>2 DEF KeyOf, TypeOK
      <4>3. \A x \in Request \ {q} : request'[x].source # request'[q].source
        BY <1>1, <2>1, <2>2, <4>1, AloneStays
      <4>. QED BY <2>1, <2>2, <2>3, <4>1, <4>2, <4>3 DEF HasReached, Writing, Removing
    <3>. QED BY <2>1, <2>2, <3>1, <3>2 DEF Knows
  <2>6. \A t \in Source \ {s} : Untouched(t)
    BY <1>0, <1>2, <1>4, <2>3 DEF Untouched, TypeOK, Key
  <2>7. \A x \in Request \ {q} : Bystander(x, s)
    BY <1>0, <2>2, StayBystander
  <2>8. /\ ids[s] <= ids'[s] /\ row'[s].id \in {0, ids'[s]}
        /\ row'[s].id = 0 => row'[s] = NoRow /\ setting'[s] = "unset"
    BY <1>0, <1>2, <2>3 DEF Whole, TypeOK, Id
  <2>9. request'[q].source = s
    BY <2>1, <2>2
  <2>. QED
    BY <1>0, <1>1, <2>3, <2>4, <2>5, <2>6, <2>7, <2>8, <2>9, MovesStep, SeedingStays
<1>. QED BY <1>3, <1>4 DEF Open
LEMMA FillStep == ASSUME IInv, NEW q \in Request, Fill(q) PROVE IInv'
<1>0. request[q].pc = "filling" /\ "filling" \in Writing /\ TypeOK /\ "renaming" \in Pc
  BY DEF Fill, At, Writing, IInv, Pc
<1>1. PICK s \in Source : request[q].source = s
  BY <1>0, Acting
<1>2. /\ request[q] \in RequestRow /\ Knows(q) /\ Whole(s) /\ KeyOf(q) = <<s, request[q].id>>
      /\ KeyOf(q) \in Key /\ request[q].id \in 1..MaxIds /\ request[q].id \in 1..ids[s]
  BY <1>0, <1>1, Acting
<1>3. CASE Fails(q) /\ UNCHANGED <<package, partial>>
  BY <1>0, <1>3, FailsStep, RegistryAssumption DEF Fill, Fails, Fault, IInv, TypeOK
<1>4. CASE /\ partial' = IF request[q].file = "partial"
                         THEN [partial EXCEPT ![KeyOf(q)] = request[q].version] ELSE partial
           /\ package' = IF request[q].file = "package"
                         THEN [package EXCEPT ![KeyOf(q)] = request[q].version] ELSE package
           /\ Goes(q, "renaming")
           /\ UNCHANGED <<settled, faults>>
  <2>1. /\ request' \in [Request -> RequestRow] /\ request'[q].pc = "renaming"
        /\ request'[q].source = s /\ request'[q].id = request[q].id
        /\ request'[q].version = request[q].version /\ request'[q].alone = request[q].alone
        /\ \A x \in Request \ {q} : request'[x] = request[x]
    BY <1>0, <1>1, <1>4, GoesFacts
  <2>2. UNCHANGED <<repos, entry, row, ids, loaded, setting, settled, faults>>
    BY <1>4 DEF Fill, index
  <2>3. TypeOK'
    <3>1. request[q].version \in File
      BY <1>2, RegistryAssumption DEF RequestRow, Version, File, Torn
    <3>2. partial' \in [Key -> File] /\ package' \in [Key -> File]
      BY <1>0, <1>4, <3>1 DEF TypeOK
    <3>. QED BY <1>0, <2>1, <2>2, <3>2 DEF TypeOK, RequestRow
  <2>4. Knows(q)'
    <3>1. OfItsRow(q)'
      BY <1>0, <1>1, <1>2, <2>1, <2>2, RegistryAssumption DEF Knows, OfItsRow, Writing, Removing
    <3>2. request[q].alone => HasReached(q)'
      <4>. SUFFICES ASSUME request[q].alone PROVE HasReached(q)'
        OBVIOUS
      <4>1. /\ HasReached(q) /\ request[q].file = "partial"
            /\ row[s] = [id |-> request[q].id, version |-> request[q].version]
        BY <1>0, <1>1, <1>2 DEF Knows, HasReached
      <4>2. KeyOf(q)' = KeyOf(q) /\ partial'[KeyOf(q)] = request[q].version
        BY <1>0, <1>1, <1>2, <1>4, <2>1, <4>1 DEF KeyOf, TypeOK
      <4>3. \A x \in Request \ {q} : request'[x].source # request'[q].source
        BY <1>1, <2>1, <4>1, AloneStays
      <4>. QED BY <2>1, <2>2, <4>1, <4>2, <4>3 DEF HasReached, Writing, Removing
    <3>. QED BY <2>1, <3>1, <3>2 DEF Knows
  <2>5. \A t \in Source \ {s} : Untouched(t)
    BY <1>0, <1>2, <1>4, <2>2 DEF Untouched, TypeOK, Key
  <2>6. \A x \in Request \ {q} : Bystander(x, s)
    BY <1>0, <2>1, StayBystander
  <2>7. /\ ids[s] <= ids'[s] /\ row'[s].id \in {0, ids'[s]}
        /\ row'[s].id = 0 => row'[s] = NoRow /\ setting'[s] = "unset"
    BY <1>0, <1>2, <2>2 DEF Whole, TypeOK, Id
  <2>. QED
    BY <1>0, <1>1, <2>1, <2>2, <2>3, <2>4, <2>5, <2>6, <2>7, MovesStep, SeedingStays
<1>. QED BY <1>3, <1>4 DEF Fill

LEMMA CheckStep == ASSUME IInv, NEW q \in Request, Check(q) PROVE IInv'
<1>0. request[q].pc = "checking" /\ "checking" \in Writing /\ TypeOK
  BY DEF Check, At, Writing, IInv
<1>1. PICK s \in Source : request[q].source = s
  BY <1>0, Acting
<1>2. /\ request[q] \in RequestRow /\ Knows(q) /\ Whole(s) /\ KeyOf(q) = <<s, request[q].id>>
      /\ KeyOf(q) \in Key /\ request[q].id \in 1..MaxIds /\ request[q].id \in 1..ids[s]
  BY <1>0, <1>1, Acting
<1>3. CASE Fails(q)
  BY <1>0, <1>3, FailsStep, RegistryAssumption DEF Check, Fails, Fault, IInv, TypeOK, homes
<1>4. CASE /\ Goes(q, IF IsRow(q) /\ setting[request[q].source] # "unset" THEN "registering"
                      ELSE "seeding")
           /\ UNCHANGED <<settled, faults>>
  <2>. DEFINE pc == IF IsRow(q) /\ setting[request[q].source] # "unset" THEN "registering"
                    ELSE "seeding"
  <2>0. /\ pc \in Pc /\ pc \in {"seeding", "registering"}
        /\ pc = "registering" => setting[s] # "unset"
        /\ pc = "seeding" => ~(row[s].id = request[q].id /\ setting[s] = "chosen")
    BY <1>1 DEF Pc, IsRow
  <2>. HIDE DEF pc
  <2>1. /\ request' \in [Request -> RequestRow] /\ request'[q].pc = pc
        /\ request'[q].source = s /\ request'[q].id = request[q].id
        /\ request'[q].version = request[q].version /\ request'[q].alone = request[q].alone
        /\ \A x \in Request \ {q} : request'[x] = request[x]
    BY <1>0, <1>1, <1>4, <2>0, GoesFacts DEF pc
  <2>2. UNCHANGED <<repos, entry, row, ids, package, partial, loaded, setting, settled, faults>>
    BY <1>4 DEF Check, index, homes
  <2>3. TypeOK'
    BY <1>0, <2>1, <2>2 DEF TypeOK, RequestRow
  <2>4. Knows(q)'
    <3>1. OfItsRow(q)'
      BY <1>0, <1>1, <1>2, <2>0, <2>1, <2>2, RegistryAssumption
      DEF Knows, OfItsRow, Writing, Removing, IsRow
    <3>2. request[q].alone => HasReached(q)'
      <4>. SUFFICES ASSUME request[q].alone PROVE HasReached(q)'
        OBVIOUS
      <4>1. /\ HasReached(q) /\ package[KeyOf(q)] = request[q].version
            /\ row[s] = [id |-> request[q].id, version |-> request[q].version]
        BY <1>0, <1>1, <1>2 DEF Knows, HasReached
      <4>2. KeyOf(q)' = KeyOf(q)
        BY <1>1, <2>1 DEF KeyOf
      <4>3. \A x \in Request \ {q} : request'[x].source # request'[q].source
        BY <1>1, <2>1, <4>1, AloneStays
      <4>. QED BY <2>0, <2>1, <2>2, <4>1, <4>2, <4>3 DEF HasReached, Writing, Removing
    <3>. QED BY <2>1, <3>1, <3>2 DEF Knows
  <2>5. \A t \in Source \ {s} : Untouched(t)
    BY <2>2 DEF Untouched
  <2>6. \A x \in Request \ {q} : Bystander(x, s)
    BY <1>0, <2>1, StayBystander
  <2>7. /\ ids[s] <= ids'[s] /\ row'[s].id \in {0, ids'[s]}
        /\ row'[s].id = 0 => row'[s] = NoRow /\ setting'[s] = "unset"
    BY <1>0, <1>2, <2>2 DEF Whole, TypeOK, Id
  <2>. QED
    BY <1>0, <1>1, <2>1, <2>2, <2>3, <2>4, <2>5, <2>6, <2>7, MovesStep, SeedingStays
<1>. QED BY <1>3, <1>4 DEF Check

LEMMA UnloadStep == ASSUME IInv, NEW q \in Request, Unload(q) PROVE IInv'
<1>0. /\ request[q].pc = "unloading" /\ "unloading" \in Removing /\ TypeOK /\ "unpacking" \in Pc
      /\ Goes(q, "unpacking") /\ loaded' = [loaded EXCEPT ![KeyOf(q)] = 0]
  BY DEF Unload, At, Removing, IInv, Pc
<1>1. PICK s \in Source : request[q].source = s
  BY <1>0, Acting
<1>2. /\ request[q] \in RequestRow /\ Knows(q) /\ Whole(s) /\ KeyOf(q) = <<s, request[q].id>>
      /\ KeyOf(q) \in Key /\ request[q].id \in 1..MaxIds /\ request[q].id \in 1..ids[s]
  BY <1>0, <1>1, Acting
<1>3. /\ request' \in [Request -> RequestRow] /\ request'[q].pc = "unpacking"
      /\ request'[q].source = s /\ request'[q].id = request[q].id
      /\ request'[q].version = request[q].version /\ request'[q].alone = request[q].alone
      /\ \A x \in Request \ {q} : request'[x] = request[x]
  BY <1>0, <1>1, GoesFacts
<1>4. UNCHANGED <<repos, entry, row, ids, package, partial, setting, settled, faults>>
  BY DEF Unload, index
<1>5. TypeOK'
  <2>1. 0 \in Version
    BY RegistryAssumption DEF Version
  <2>. QED BY <1>0, <1>3, <1>4, <2>1 DEF TypeOK, RequestRow
<1>6. Knows(q)'
  <2>1. OfItsRow(q)'
    BY <1>0, <1>1, <1>2, <1>3, <1>4, RegistryAssumption DEF Knows, OfItsRow, Writing, Removing
  <2>2. request[q].alone => HasReached(q)'
    <3>. SUFFICES ASSUME request[q].alone PROVE HasReached(q)'
      OBVIOUS
    <3>1. HasReached(q) /\ request[q].id = ids[s]
      BY <1>0, <1>1, <1>2 DEF Knows, HasReached
    <3>2. KeyOf(q)' = KeyOf(q) /\ loaded'[KeyOf(q)] = 0
      BY <1>0, <1>1, <1>2, <1>3 DEF KeyOf, TypeOK
    <3>3. \A x \in Request \ {q} : request'[x].source # request'[q].source
      BY <1>1, <1>3, <3>1, AloneStays
    <3>. QED BY <1>3, <1>4, <3>1, <3>2, <3>3 DEF HasReached, Writing, Removing
  <2>. QED BY <1>3, <2>1, <2>2 DEF Knows
<1>7. \A t \in Source \ {s} : Untouched(t)
  BY <1>0, <1>2, <1>4 DEF Untouched, TypeOK, Key
<1>8. \A x \in Request \ {q} : Bystander(x, s)
  BY <1>0, <1>3, StayBystander
<1>9. /\ ids[s] <= ids'[s] /\ row'[s].id \in {0, ids'[s]}
      /\ row'[s].id = 0 => row'[s] = NoRow /\ setting'[s] = "unset"
  BY <1>0, <1>2, <1>4 DEF Whole, TypeOK, Id
<1>. QED
  BY <1>0, <1>1, <1>3, <1>4, <1>5, <1>6, <1>7, <1>8, <1>9, MovesStep, SeedingStays
-----------------------------------------------------------------------------
\* The steps after which other open files of the source are something else.
LEMMA FileExcept ==
    ASSUME NEW r \in RequestRow, NEW file \in {"none", "partial", "package"}
    PROVE  LET new == [r EXCEPT !.file = file] IN
           /\ new \in RequestRow /\ new.pc = r.pc /\ new.source = r.source /\ new.id = r.id
           /\ new.version = r.version /\ new.alone = r.alone /\ new.file = file
BY DEF RequestRow

LEMMA OtherFiles ==
    ASSUME IInv, NEW s \in Source, NEW x \in Request, request[x] # Idle =>
               \/ request'[x] = request[x]
               \/ /\ request[x].source = s
                  /\ \E file \in {"none", "partial", "package"} :
                        request'[x] = [request[x] EXCEPT !.file = file],
           request[x] = Idle => request'[x] = request[x]
    PROVE  request'[x] \in RequestRow /\ Bystander(x, s)
<1>1. request[x] \in RequestRow
  BY DEF IInv, TypeOK, RequestRow
<1>2. CASE request'[x] = request[x]
  BY <1>1, <1>2, StayBystander DEF IInv
<1>3. CASE request[x] # Idle /\ request'[x] # request[x]
  <2>1. PICK file \in {"none", "partial", "package"} :
            request[x].source = s /\ request'[x] = [request[x] EXCEPT !.file = file]
    BY <1>3
  <2>. QED BY <1>1, <1>3, <2>1, FileExcept DEF Bystander
<1>. QED BY <1>2, <1>3

LEMMA UnpackStep == ASSUME IInv, NEW q \in Request, Unpack(q) PROVE IInv'
<1>0. request[q].pc = "unpacking" /\ "unpacking" \in Removing /\ TypeOK
  BY DEF Unpack, At, Removing, IInv
<1>1. PICK s \in Source : request[q].source = s
  BY <1>0, Acting
<1>2. /\ request[q] \in RequestRow /\ Knows(q) /\ Whole(s) /\ KeyOf(q) = <<s, request[q].id>>
      /\ KeyOf(q) \in Key /\ request[q].id \in 1..MaxIds /\ request[q].id \in 1..ids[s]
  BY <1>0, <1>1, Acting
<1>3. CASE Fails(q) /\ UNCHANGED package
  BY <1>0, <1>3, FailsStep, RegistryAssumption DEF Unpack, Fails, Fault, IInv, TypeOK
<1>4. CASE /\ package' = [package EXCEPT ![KeyOf(q)] = 0]
           /\ request' = [x \in Request |->
                            IF x = q THEN [request[q] EXCEPT !.pc = "deleting"]
                            ELSE IF KeyOf(x) = KeyOf(q) /\ request[x].file = "package"
                            THEN [request[x] EXCEPT !.file = "none"]
                            ELSE request[x]]
           /\ UNCHANGED <<settled, faults>>
  <2>1. UNCHANGED <<repos, entry, row, ids, partial, loaded, setting, settled, faults>>
    BY <1>4 DEF Unpack, index
  <2>2. /\ request'[q] \in RequestRow /\ request'[q].pc = "deleting"
        /\ request'[q].source = s /\ request'[q].id = request[q].id
        /\ request'[q].version = request[q].version /\ request'[q].alone = request[q].alone
    BY <1>1, <1>2, <1>4 DEF RequestRow, Pc
  <2>3. \A x \in Request \ {q} : request'[x] \in RequestRow /\ Bystander(x, s)
    <3>. SUFFICES ASSUME NEW x \in Request \ {q} PROVE request'[x] \in RequestRow /\ Bystander(x, s)
      OBVIOUS
    <3>1. KeyOf(x) = KeyOf(q) => request[x].source = s
      BY <1>2 DEF KeyOf
    <3>2. request[x] = Idle => KeyOf(x) # KeyOf(q)
      BY <1>2, IdleType, RegistryAssumption DEF KeyOf
    <3>3. \/ request'[x] = request[x]
          \/ KeyOf(x) = KeyOf(q) /\ request'[x] = [request[x] EXCEPT !.file = "none"]
      BY <1>4
    <3>. QED BY <3>1, <3>2, <3>3, OtherFiles
  <2>4. TypeOK'
    <3>1. 0 \in File
      BY RegistryAssumption DEF File, Torn
    <3>2. request' \in [Request -> RequestRow]
      BY <1>4, <2>2, <2>3
    <3>. QED BY <1>0, <1>2, <1>4, <2>1, <3>1, <3>2 DEF TypeOK, RequestRow
  <2>5. Knows(q)'
    <3>1. OfItsRow(q)'
      BY <1>0, <1>1, <1>2, <2>1, <2>2, RegistryAssumption DEF Knows, OfItsRow, Writing, Removing
    <3>2. request[q].alone => HasReached(q)'
      <4>. SUFFICES ASSUME request[q].alone PROVE HasReached(q)'
        OBVIOUS
      <4>1. HasReached(q) /\ request[q].id = ids[s] /\ loaded[KeyOf(q)] = 0
        BY <1>0, <1>1, <1>2 DEF Knows, HasReached
      <4>2. KeyOf(q)' = KeyOf(q) /\ package'[KeyOf(q)] = 0
        BY <1>0, <1>1, <1>2, <1>4, <2>2 DEF KeyOf, TypeOK
      <4>3. \A x \in Request \ {q} : request'[x].source # request'[q].source
        BY <1>1, <2>2, <2>3, <4>1, AloneStays DEF Bystander
      <4>. QED BY <2>1, <2>2, <4>1, <4>2, <4>3 DEF HasReached, Writing, Removing
    <3>. QED BY <2>2, <3>1, <3>2 DEF Knows
  <2>6. \A t \in Source \ {s} : Untouched(t)
    BY <1>0, <1>2, <1>4, <2>1 DEF Untouched, TypeOK, Key
  <2>7. /\ ids[s] <= ids'[s] /\ row'[s].id \in {0, ids'[s]}
        /\ row'[s].id = 0 => row'[s] = NoRow /\ setting'[s] = "unset"
    BY <1>0, <1>2, <2>1 DEF Whole, TypeOK, Id
  <2>. QED
    BY <1>0, <1>1, <2>1, <2>2, <2>3, <2>4, <2>5, <2>6, <2>7, MovesStep, SeedingStays
<1>. QED BY <1>3, <1>4 DEF Unpack

LEMMA RenameStep == ASSUME IInv, NEW q \in Request, Rename(q) PROVE IInv'
<1>0. request[q].pc = "renaming" /\ "renaming" \in Writing /\ TypeOK
  BY DEF Rename, At, Writing, IInv
<1>1. PICK s \in Source : request[q].source = s
  BY <1>0, Acting
<1>2. /\ request[q] \in RequestRow /\ Knows(q) /\ Whole(s) /\ KeyOf(q) = <<s, request[q].id>>
      /\ KeyOf(q) \in Key /\ request[q].id \in 1..MaxIds /\ request[q].id \in 1..ids[s]
  BY <1>0, <1>1, Acting
<1>3. CASE Stops(q) /\ UNCHANGED <<package, partial, settled, faults>>
  BY <1>0, <1>3, FailsStep DEF Rename, IInv, TypeOK
<1>4. CASE /\ Fails(q)
           /\ partial' = [partial EXCEPT ![KeyOf(q)] = 0]
           /\ UNCHANGED package
  <2>1. Stops(q) /\ UNCHANGED <<index, row, ids, package, loaded, setting, settled>>
    BY <1>4 DEF Fails, Rename
  <2>2. faults' \in 0..MaxFaults
    BY <1>0, <1>4, RegistryAssumption DEF Fails, Fault, TypeOK
  <2>3. request[q].pc # "idle"
    BY <1>0
  <2>. QED BY <1>2, <1>4, <2>1, <2>2, <2>3, FailsStep
<1>5. CASE /\ package' = [package EXCEPT ![KeyOf(q)] = partial[KeyOf(q)]]
           /\ partial' = [partial EXCEPT ![KeyOf(q)] = 0]
           /\ request' = [x \in Request |->
                            IF x = q THEN [request[q] EXCEPT !.pc = "checking", !.file = "none"]
                            ELSE IF KeyOf(x) = KeyOf(q)
                            THEN [request[x] EXCEPT !.file = Renamed(x, @)]
                            ELSE request[x]]
           /\ UNCHANGED <<settled, faults>>
  <2>1. UNCHANGED <<repos, entry, row, ids, loaded, setting, settled, faults>>
    BY <1>5 DEF Rename, index
  <2>2. /\ request'[q] \in RequestRow /\ request'[q].pc = "checking"
        /\ request'[q].source = s /\ request'[q].id = request[q].id
        /\ request'[q].version = request[q].version /\ request'[q].alone = request[q].alone
    BY <1>1, <1>2, <1>5 DEF RequestRow, Pc
  <2>3. \A x \in Request \ {q} : request'[x] \in RequestRow /\ Bystander(x, s)
    <3>. SUFFICES ASSUME NEW x \in Request \ {q} PROVE request'[x] \in RequestRow /\ Bystander(x, s)
      OBVIOUS
    <3>1. KeyOf(x) = KeyOf(q) => request[x].source = s
      BY <1>2 DEF KeyOf
    <3>2. request[x] = Idle => KeyOf(x) # KeyOf(q)
      BY <1>2, IdleType, RegistryAssumption DEF KeyOf
    <3>3. \/ request'[x] = request[x]
          \/ /\ KeyOf(x) = KeyOf(q)
             /\ request'[x] = [request[x] EXCEPT !.file = Renamed(x, request[x].file)]
      BY <1>5
    <3>4. Renamed(x, request[x].file) \in {"none", "partial", "package"}
      BY DEF Renamed
    <3>. QED BY <3>1, <3>2, <3>3, <3>4, OtherFiles
  <2>4. TypeOK'
    <3>1. 0 \in File /\ partial[KeyOf(q)] \in File
      BY <1>0, <1>2, RegistryAssumption DEF File, Torn, TypeOK
    <3>2. request' \in [Request -> RequestRow]
      BY <1>5, <2>2, <2>3
    <3>. QED BY <1>0, <1>2, <1>5, <2>1, <3>1, <3>2 DEF TypeOK, RequestRow
  <2>5. Knows(q)'
    <3>1. OfItsRow(q)'
      BY <1>0, <1>1, <1>2, <2>1, <2>2, RegistryAssumption DEF Knows, OfItsRow, Writing, Removing
    <3>2. request[q].alone => HasReached(q)'
      <4>. SUFFICES ASSUME request[q].alone PROVE HasReached(q)'
        OBVIOUS
      <4>1. /\ HasReached(q) /\ partial[KeyOf(q)] = request[q].version
            /\ row[s] = [id |-> request[q].id, version |-> request[q].version]
        BY <1>0, <1>1, <1>2 DEF Knows, HasReached
      <4>2. KeyOf(q)' = KeyOf(q) /\ package'[KeyOf(q)] = request[q].version
        BY <1>0, <1>1, <1>2, <1>5, <2>2, <4>1 DEF KeyOf, TypeOK
      <4>3. \A x \in Request \ {q} : request'[x].source # request'[q].source
        BY <1>1, <2>2, <2>3, <4>1, AloneStays DEF Bystander
      <4>. QED BY <2>1, <2>2, <4>1, <4>2, <4>3 DEF HasReached, Writing, Removing
    <3>. QED BY <2>2, <3>1, <3>2 DEF Knows
  <2>6. \A t \in Source \ {s} : Untouched(t)
    BY <1>0, <1>2, <1>5, <2>1 DEF Untouched, TypeOK, Key
  <2>7. /\ ids[s] <= ids'[s] /\ row'[s].id \in {0, ids'[s]}
        /\ row'[s].id = 0 => row'[s] = NoRow /\ setting'[s] = "unset"
    BY <1>0, <1>2, <2>1 DEF Whole, TypeOK, Id
  <2>. QED
    BY <1>0, <1>1, <2>1, <2>2, <2>3, <2>4, <2>5, <2>6, <2>7, MovesStep, SeedingStays
<1>. QED BY <1>3, <1>4, <1>5 DEF Rename
-----------------------------------------------------------------------------
LEMMA UpsertStep == ASSUME IInv, NEW q \in Request, Upsert(q) PROVE IInv'
<1>0. request[q].pc = "fetched" /\ TypeOK /\ "opening" \in Pc /\ request[q].version \in Runnable
  BY DEF Upsert, At, IInv, Pc, IsRunnable
<1>1. PICK s \in Source : request[q].source = s
  BY <1>0, Acting
<1>2. /\ request[q] \in RequestRow /\ Knows(q) /\ Whole(s)
      /\ row[s] \in [id : Id, version : Version] /\ ids[s] \in Id
  BY <1>0, <1>1, Acting DEF TypeOK
<1>3. CASE Fails(q) /\ UNCHANGED <<row, ids>>
  <2>1. faults' \in 0..MaxFaults
    BY <1>0, <1>3, RegistryAssumption DEF Fails, Fault, TypeOK
  <2>. QED BY <1>0, <1>3, <2>1, FailsStep DEF Upsert, Fails
<1>4. CASE Stops(q) /\ UNCHANGED <<row, ids, settled, faults>>
  BY <1>0, <1>4, FailsStep DEF Upsert, TypeOK
<1>5. CASE /\ IdFor(s) <= MaxIds
           /\ row' = [row EXCEPT ![s] = [id |-> IdFor(s), version |-> request[q].version]]
           /\ ids' = [ids EXCEPT ![s] = IF row[s].id = 0 THEN @ + 1 ELSE @]
           /\ request' = [request EXCEPT ![q].pc = "opening", ![q].id = IdFor(s)]
           /\ UNCHANGED <<settled, faults>>
  <2>1. /\ IdFor(s) \in 1..MaxIds /\ ids'[s] = IdFor(s) /\ ids'[s] \in Id /\ ids[s] <= ids'[s]
        /\ row[s].id # 0 => IdFor(s) = row[s].id
        /\ row[s].id = 0 => IdFor(s) = ids[s] + 1
    BY <1>0, <1>2, <1>5, RegistryAssumption DEF Whole, IdFor, Id, TypeOK
  <2>2. UNCHANGED <<repos, entry, package, partial, loaded, setting, settled, faults>>
    BY <1>5 DEF Upsert, index
  <2>3. PICK n \in 1..MaxIds : n = IdFor(s)
    BY <2>1
  <2>4. /\ request' \in [Request -> RequestRow] /\ request'[q].pc = "opening"
        /\ request'[q].source = s /\ request'[q].id = n
        /\ request'[q].version = request[q].version /\ request'[q].alone = request[q].alone
        /\ \A x \in Request \ {q} : request'[x] = request[x]
    <3>. DEFINE made == [request[q] EXCEPT !.pc = "opening", !.id = n]
    <3>1. /\ made \in RequestRow /\ made.pc = "opening" /\ made.source = s /\ made.id = n
          /\ made.version = request[q].version /\ made.alone = request[q].alone
      <4>1. n \in Id
        BY DEF Id
      <4>. QED BY <1>0, <1>1, <1>2, <4>1 DEF RequestRow
    <3>2. request' = [request EXCEPT ![q] = made]
      BY <1>0, <1>5, <2>3 DEF TypeOK
    <3>. HIDE DEF made
    <3>. QED BY <1>0, <3>1, <3>2 DEF TypeOK, RequestRow
  <2>5. row'[s] = [id |-> n, version |-> request[q].version] /\ row'[s] \in [id : Id, version : Version]
    BY <1>0, <1>2, <1>5, <2>3 DEF TypeOK, RequestRow, Id
  <2>6. TypeOK'
    <3>1. row' \in [Source -> [id : Id, version : Version]]
      <4>. DEFINE made == [id |-> IdFor(s), version |-> request[q].version]
      <4>1. made \in [id : Id, version : Version]
        BY <1>2, <2>3 DEF RequestRow, Id
      <4>2. row' = [row EXCEPT ![s] = made] /\ row \in [Source -> [id : Id, version : Version]]
        BY <1>0, <1>5 DEF TypeOK
      <4>. HIDE DEF made
      <4>. QED BY <4>1, <4>2
    <3>2. ids' \in [Source -> Id]
      BY <1>0, <1>5, <2>1 DEF TypeOK
    <3>. QED BY <1>0, <2>2, <2>4, <3>1, <3>2 DEF TypeOK, RequestRow
  <2>7. Knows(q)'
    <3>1. OfItsRow(q)'
      BY <1>0, <1>1, <1>2, <2>1, <2>3, <2>4, RegistryAssumption
      DEF Knows, OfItsRow, Writing, Removing, Id
    <3>2. request[q].alone => HasReached(q)'
      <4>. SUFFICES ASSUME request[q].alone PROVE HasReached(q)'
        OBVIOUS
      <4>1. HasReached(q)
        BY <1>2 DEF Knows
      <4>2. \A x \in Request \ {q} : request'[x].source # request'[q].source
        BY <1>1, <2>4, <4>1, AloneStays
      <4>. QED BY <2>4, <2>5, <4>2 DEF HasReached, Writing, Removing
    <3>. QED BY <2>4, <3>1, <3>2 DEF Knows
  <2>8. \A t \in Source \ {s} : Untouched(t)
    BY <1>0, <1>5, <2>2 DEF Untouched, TypeOK
  <2>9. \A x \in Request \ {q} : Bystander(x, s)
    BY <1>0, <2>4, StayBystander
  <2>10. /\ row'[s].id \in {0, ids'[s]}
         /\ row'[s].id = 0 => row'[s] = NoRow /\ setting'[s] = "unset"
    BY <2>1, <2>3, <2>5
  <2>11. \A x \in Request \ {q} :
            request[x].source = s /\ request[x].pc = "seeding" =>
                ~(row'[s].id = request[x].id /\ setting'[s] = "chosen")
    <3>. SUFFICES ASSUME NEW x \in Request \ {q}, request[x].source = s, request[x].pc = "seeding",
                         row'[s].id = request[x].id, setting'[s] = "chosen"
                  PROVE  FALSE
      OBVIOUS
    <3>1. row[s].id # 0
      BY <1>2, <2>2 DEF Whole
    <3>2. row[s].id = request[x].id
      BY <2>1, <2>3, <2>5, <3>1
    <3>. QED BY <2>2, <3>2, IInvIs DEF Knows, OfItsRow, IsRow
  <2>. QED
    BY <1>0, <1>1, <2>1, <2>2, <2>4, <2>6, <2>7, <2>8, <2>9, <2>10, <2>11, MovesStep
<1>. QED BY <1>1, <1>3, <1>4, <1>5 DEF Upsert
LEMMA SeedStep == ASSUME IInv, NEW q \in Request, Seed(q) PROVE IInv'
<1>0. request[q].pc = "seeding" /\ "seeding" \in Writing /\ TypeOK /\ "registering" \in Pc
  BY DEF Seed, At, Writing, IInv, Pc
<1>1. PICK s \in Source : request[q].source = s
  BY <1>0, Acting
<1>2. /\ request[q] \in RequestRow /\ Knows(q) /\ Whole(s) /\ KeyOf(q) = <<s, request[q].id>>
      /\ KeyOf(q) \in Key /\ request[q].id \in 1..MaxIds /\ request[q].id \in 1..ids[s]
  BY <1>0, <1>1, Acting
<1>3. CASE Fails(q) /\ UNCHANGED setting
  <2>1. faults' \in 0..MaxFaults
    BY <1>0, <1>3, RegistryAssumption DEF Fails, Fault, TypeOK
  <2>. QED BY <1>0, <1>3, <2>1, FailsStep DEF Seed, Fails
<1>4. CASE Stops(q) /\ UNCHANGED <<setting, settled, faults>>
  BY <1>0, <1>4, FailsStep DEF Seed, TypeOK
<1>5. CASE /\ IsRow(q)
           /\ setting' = [setting EXCEPT ![request[q].source] = "default"]
           /\ Goes(q, "registering")
           /\ UNCHANGED <<settled, faults>>
  <2>1. /\ request' \in [Request -> RequestRow] /\ request'[q].pc = "registering"
        /\ request'[q].source = s /\ request'[q].id = request[q].id
        /\ request'[q].version = request[q].version /\ request'[q].alone = request[q].alone
        /\ \A x \in Request \ {q} : request'[x] = request[x]
    BY <1>0, <1>1, <1>5, GoesFacts
  <2>2. UNCHANGED <<repos, entry, row, ids, package, partial, loaded, settled, faults>>
    BY <1>5 DEF Seed, index
  <2>3. TypeOK' /\ setting'[s] = "default"
    BY <1>0, <1>1, <1>5, <2>1, <2>2 DEF TypeOK, RequestRow
  <2>4. Knows(q)'
    <3>1. OfItsRow(q)'
      BY <1>0, <1>1, <1>2, <2>1, <2>2, RegistryAssumption DEF Knows, OfItsRow, Writing, Removing
    <3>2. request[q].alone => HasReached(q)'
      <4>. SUFFICES ASSUME request[q].alone PROVE HasReached(q)'
        OBVIOUS
      <4>1. /\ HasReached(q) /\ package[KeyOf(q)] = request[q].version
            /\ row[s] = [id |-> request[q].id, version |-> request[q].version]
        BY <1>0, <1>1, <1>2 DEF Knows, HasReached
      <4>2. KeyOf(q)' = KeyOf(q)
        BY <1>1, <2>1 DEF KeyOf
      <4>3. \A x \in Request \ {q} : request'[x].source # request'[q].source
        BY <1>1, <2>1, <4>1, AloneStays
      <4>. QED BY <2>1, <2>2, <2>3, <4>1, <4>2, <4>3 DEF HasReached, Writing, Removing
    <3>. QED BY <2>1, <3>1, <3>2 DEF Knows
  <2>5. \A t \in Source \ {s} : Untouched(t)
    BY <1>0, <1>1, <1>5, <2>2 DEF Untouched, TypeOK
  <2>6. \A x \in Request \ {q} : Bystander(x, s)
    BY <1>0, <2>1, StayBystander
  <2>7. ids[s] <= ids'[s] /\ row'[s].id \in {0, ids'[s]} /\ row'[s].id # 0
    BY <1>0, <1>1, <1>2, <1>5, <2>2 DEF Whole, TypeOK, Id, IsRow
  <2>. QED BY <1>0, <1>1, <2>1, <2>2, <2>3, <2>4, <2>5, <2>6, <2>7, MovesStep
<1>. QED BY <1>3, <1>4, <1>5 DEF Seed

\* The ends of the requests that succeed: what a request that was alone has reached is settled.
LEMMA SettlesFacts ==
    ASSUME IInv, NEW q \in Request, NEW s \in Source, request[q].source = s,
           NEW how \in {"installed", "removed"}, Settles(q, how)
    PROVE  /\ request' \in [Request -> RequestRow] /\ request'[q] = Idle
           /\ \A x \in Request \ {q} : request'[x] = request[x]
           /\ settled' \in [Source -> {"unknown", "installed", "removed"}]
           /\ \A t \in Source \ {s} : settled'[t] = settled[t]
           /\ request[q].alone => About(s)' = {}
           /\ settled'[s] = IF request[q].alone THEN how ELSE settled[s]
<1>1. TypeOK /\ s # None
  BY RegistryAssumption DEF IInv
<1>2. /\ request' \in [Request -> RequestRow] /\ request'[q] = Idle
      /\ \A x \in Request \ {q} : request'[x] = request[x]
  BY <1>1, StopsFacts DEF Settles
<1>3. request[q].alone => \A x \in Request \ {q} : request[x].source # s
  BY IInvIs DEF Knows, HasReached
<1>4. request[q].alone => About(s)' = {}
  BY <1>1, <1>2, <1>3, IdleType DEF About
<1>5. settled' = IF request[q].alone THEN [settled EXCEPT ![s] = how] ELSE settled
  BY DEF Settles
<1>. QED BY <1>1, <1>2, <1>4, <1>5 DEF TypeOK

LEMMA RegisterStep == ASSUME IInv, NEW q \in Request, Register(q) PROVE IInv'
<1>0. /\ request[q].pc = "registering" /\ "registering" \in Writing /\ TypeOK
      /\ loaded' = [loaded EXCEPT ![KeyOf(q)] = request[q].version] /\ Settles(q, "installed")
  BY DEF Register, At, Writing, IInv
<1>1. PICK s \in Source : request[q].source = s
  BY <1>0, Acting
<1>2. /\ request[q] \in RequestRow /\ Knows(q) /\ Whole(s) /\ KeyOf(q) = <<s, request[q].id>>
      /\ KeyOf(q) \in Key /\ request[q].id \in 1..MaxIds /\ request[q].id \in 1..ids[s]
      /\ settled[s] \notin {"installed", "removed"}
  BY <1>0, <1>1, Acting
<1>3. UNCHANGED <<repos, entry, row, ids, package, partial, setting, faults>>
  BY DEF Register, index
<1>4. /\ request' \in [Request -> RequestRow] /\ request'[q] = Idle
      /\ \A x \in Request \ {q} : request'[x] = request[x]
      /\ settled' \in [Source -> {"unknown", "installed", "removed"}]
      /\ \A t \in Source \ {s} : settled'[t] = settled[t]
      /\ request[q].alone => About(s)' = {}
      /\ settled'[s] = IF request[q].alone THEN "installed" ELSE settled[s]
  BY <1>0, <1>1, SettlesFacts
<1>5. TypeOK'
  BY <1>0, <1>2, <1>3, <1>4 DEF TypeOK, RequestRow
<1>6. Whole(s)'
  <2>1. CASE request[q].alone
    <3>1. /\ row[s] = [id |-> request[q].id, version |-> request[q].version]
          /\ package[KeyOf(q)] = request[q].version /\ setting[s] # "unset"
          /\ request[q].version \in Runnable
      BY <1>0, <1>1, <1>2, <2>1 DEF Knows, HasReached, OfItsRow
    <3>2. row[s].id = ids[s] /\ ids[s] = request[q].id
      BY <1>2, <3>1 DEF Whole
    <3>3. Last(s) = KeyOf(q) /\ Last(s)' = KeyOf(q)
      BY <1>2, <1>3, <3>2 DEF Last
    <3>4. loaded'[KeyOf(q)] = request[q].version
      BY <1>0, <1>2 DEF TypeOK
    <3>. QED BY <1>2, <1>3, <1>4, <2>1, <3>1, <3>2, <3>3, <3>4 DEF Whole
  <2>2. CASE ~request[q].alone
    BY <1>2, <1>3, <1>4, <2>2, BusyWhole DEF Whole
  <2>. QED BY <2>1, <2>2
<1>7. Knows(q)' /\ request'[q].source \in {s, None} /\ ids[s] <= ids'[s]
  BY <1>0, <1>3, <1>4, IdleKnows, IdleType DEF TypeOK, Id
<1>8. \A t \in Source \ {s} : Untouched(t)
  BY <1>0, <1>2, <1>3 DEF Untouched, TypeOK, Key
<1>9. \A x \in Request \ {q} : Bystander(x, s)
  BY <1>0, <1>4, StayBystander
<1>. QED BY <1>1, <1>3, <1>4, <1>5, <1>6, <1>7, <1>8, <1>9, SeedingStays, RequestStep

LEMMA DeleteStep == ASSUME IInv, NEW q \in Request, Delete(q) PROVE IInv'
<1>0. request[q].pc = "deleting" /\ "deleting" \in Removing /\ TypeOK
  BY DEF Delete, At, Removing, IInv
<1>1. PICK s \in Source : request[q].source = s
  BY <1>0, Acting
<1>2. /\ request[q] \in RequestRow /\ Knows(q) /\ Whole(s) /\ KeyOf(q) = <<s, request[q].id>>
      /\ KeyOf(q) \in Key /\ request[q].id \in 1..MaxIds /\ request[q].id \in 1..ids[s]
      /\ settled[s] \notin {"installed", "removed"}
  BY <1>0, <1>1, Acting
<1>3. CASE Fails(q) /\ UNCHANGED <<row, setting>>
  <2>1. faults' \in 0..MaxFaults
    BY <1>0, <1>3, RegistryAssumption DEF Fails, Fault, TypeOK
  <2>. QED BY <1>0, <1>3, <2>1, FailsStep DEF Delete, Fails
<1>4. CASE /\ row' = IF IsRow(q) THEN [row EXCEPT ![s] = NoRow] ELSE row
           /\ setting' = IF IsRow(q) THEN [setting EXCEPT ![s] = "unset"] ELSE setting
           /\ Settles(q, "removed")
           /\ UNCHANGED faults
  <2>1. UNCHANGED <<repos, entry, ids, package, partial, loaded, faults>>
    BY <1>4 DEF Delete, index
  <2>2. /\ request' \in [Request -> RequestRow] /\ request'[q] = Idle
        /\ \A x \in Request \ {q} : request'[x] = request[x]
        /\ settled' \in [Source -> {"unknown", "installed", "removed"}]
        /\ \A t \in Source \ {s} : settled'[t] = settled[t]
        /\ request[q].alone => About(s)' = {}
        /\ settled'[s] = IF request[q].alone THEN "removed" ELSE settled[s]
    BY <1>1, <1>4, SettlesFacts
  <2>3. IF IsRow(q) THEN row'[s] = NoRow /\ setting'[s] = "unset"
                    ELSE row'[s] = row[s] /\ setting'[s] = setting[s]
    BY <1>0, <1>4 DEF TypeOK
  <2>4. TypeOK'
    <3>1. NoRow \in [id : Id, version : Version]
      BY RegistryAssumption DEF NoRow, Id, Version
    <3>2. row' \in [Source -> [id : Id, version : Version]]
      BY <1>0, <1>4, <3>1 DEF TypeOK
    <3>. QED BY <1>0, <1>4, <2>1, <2>2, <3>2 DEF TypeOK, RequestRow
  <2>5. row'[s].id \in {0, ids'[s]} /\ (row'[s].id = 0 => row'[s] = NoRow /\ setting'[s] = "unset")
    BY <1>2, <2>1, <2>3 DEF Whole, NoRow
  <2>6. Whole(s)'
    <3>1. CASE request[q].alone
      <4>1. request[q].id = ids[s] /\ loaded[KeyOf(q)] = 0 /\ package[KeyOf(q)] = 0
        BY <1>0, <1>1, <1>2, <3>1 DEF Knows, HasReached
      <4>2. row'[s] = NoRow /\ setting'[s] = "unset"
        BY <1>1, <1>2, <2>3, <4>1 DEF Whole, IsRow
      <4>3. Last(s)' = KeyOf(q) /\ ids'[s] # 0
        BY <1>0, <1>2, <2>1, <4>1 DEF Last, TypeOK, Id
      <4>. QED BY <2>1, <2>2, <2>5, <3>1, <4>1, <4>2, <4>3 DEF Whole
    <3>2. CASE ~request[q].alone
      BY <1>2, <2>2, <2>5, <3>2, BusyWhole
    <3>. QED BY <3>1, <3>2
  <2>7. Knows(q)' /\ request'[q].source \in {s, None} /\ ids[s] <= ids'[s]
    BY <1>0, <2>1, <2>2, IdleKnows, IdleType DEF TypeOK, Id
  <2>8. \A t \in Source \ {s} : Untouched(t)
    BY <1>0, <1>4, <2>1 DEF Untouched, TypeOK
  <2>9. \A x \in Request \ {q} : Bystander(x, s)
    BY <1>0, <2>2, StayBystander
  <2>10. \A x \in Request \ {q} : request[x].source = s /\ request[x].pc = "seeding" =>
             ~(row'[s].id = request[x].id /\ setting'[s] = "chosen")
    BY <1>0, <2>3, IInvIs DEF Knows, OfItsRow, IsRow
  <2>. QED BY <1>1, <2>2, <2>4, <2>6, <2>7, <2>8, <2>9, <2>10, RequestStep
<1>. QED BY <1>1, <1>3, <1>4 DEF Delete
-----------------------------------------------------------------------------
LEMMA RefreshStep == ASSUME IInv, NEW s \in Source, Refresh(s) PROVE IInv'
<1>1. UNCHANGED <<repos, homes, request, settled, faults>> /\ TypeOK
  BY DEF Refresh, IInv
<1>2. entry' \in [Source -> Version]
  BY RegistryAssumption DEF Refresh, IInv, TypeOK, Version
<1>3. TypeOK'
  BY <1>1, <1>2 DEF TypeOK, homes
<1>4. \A t \in Source : Untouched(t) /\ About(t)' = About(t)
  BY <1>1 DEF Untouched, homes, About
<1>5. \A t \in Source : Whole(t)'
  BY <1>1, <1>4, WholeStays, IInvIs
<1>6. \A x \in Request : Knows(x)'
  BY <1>1, <1>4, KnowsStays, IInvIs
<1>. QED BY <1>3, <1>5, <1>6, IInvNext

LEMMA ChooseStep == ASSUME IInv, NEW s \in Source, Choose(s) PROVE IInv'
<1>1. /\ UNCHANGED <<repos, entry, row, ids, package, partial, loaded, request, settled, faults>>
      /\ TypeOK /\ row[s].id # 0
  BY DEF Choose, IInv, index
<1>2. /\ setting' \in [Source -> {"unset", "default", "chosen", "overtaken"}]
      /\ \A t \in Source \ {s} : setting'[t] = setting[t]
      /\ setting'[s] \in {"chosen", "overtaken"}
      /\ setting'[s] = "chosen" => \A q \in About(s) : request[q].pc # "seeding"
  <2>. DEFINE new == IF \E q \in About(s) : At(q, "seeding") THEN "overtaken" ELSE "chosen"
  <2>1. setting' = [setting EXCEPT ![s] = new]
    BY DEF Choose
  <2>2. new \in {"chosen", "overtaken"} /\ (new = "chosen" => \A q \in About(s) : ~At(q, "seeding"))
    OBVIOUS
  <2>. HIDE DEF new
  <2>. QED BY <1>1, <2>1, <2>2 DEF TypeOK, At
<1>3. TypeOK'
  BY <1>1, <1>2 DEF TypeOK
<1>4. \A t \in Source \ {s} : Untouched(t)
  BY <1>1, <1>2 DEF Untouched
<1>5. \A t \in Source : About(t)' = About(t)
  BY <1>1 DEF About
<1>6. \A t \in Source \ {s} : Whole(t)'
  BY <1>1, <1>4, <1>5, WholeStays, IInvIs
<1>7. Whole(s)'
  <2>1. Whole(s) /\ Last(s)' = Last(s)
    BY <1>1, IInvIs DEF Last
  <2>. QED BY <1>1, <1>2, <1>5, <2>1 DEF Whole, NoRow
<1>8. \A x \in Request : Knows(x)'
  <2>. SUFFICES ASSUME NEW x \in Request PROVE Knows(x)'
    OBVIOUS
  <2>1. Knows(x)
    BY IInvIs
  <2>2. CASE request[x].source # s
    BY <1>1, <1>4, <2>1, <2>2, KnowsStays
  <2>3. CASE request[x].source = s
    <3>1. OfItsRow(x)'
      BY <1>1, <1>2, <2>1, <2>3 DEF Knows, OfItsRow, About, IsRow
    <3>2. request[x].alone => HasReached(x)'
      BY <1>1, <1>2, <2>1, <2>3 DEF Knows, HasReached, KeyOf
    <3>. QED BY <1>1, <3>1, <3>2 DEF Knows
  <2>. QED BY <2>2, <2>3
<1>. QED BY <1>3, <1>6, <1>7, <1>8, IInvNext

LEMMA DeleteRepoStep == ASSUME IInv, NEW r \in Repo, DeleteRepo(r) PROVE IInv'
<1>. DEFINE keeps(x) == request[x].alone /\ request[x].source \notin Listed(r)
<1>1. /\ UNCHANGED <<ids, package, partial, loaded, faults>>
      /\ TypeOK /\ request \in [Request -> RequestRow]
  BY DEF DeleteRepo, IInv, TypeOK, RequestRow
<1>2. \A s \in Source :
          IF s \in Listed(r)
          THEN /\ row'[s] = NoRow /\ setting'[s] = "unset" /\ settled'[s] # "installed"
               /\ settled'[s] = "removed" => settled[s] = "removed"
          ELSE row'[s] = row[s] /\ setting'[s] = setting[s] /\ settled'[s] = settled[s]
  BY DEF DeleteRepo, Listed
<1>3. \A x \in Request : /\ request'[x] \in RequestRow
                         /\ request'[x].pc = request[x].pc /\ request'[x].source = request[x].source
                         /\ request'[x].id = request[x].id
                         /\ request'[x].version = request[x].version
                         /\ request'[x].file = request[x].file
                         /\ request[x].source \in Listed(r) => ~request'[x].alone
                         /\ request[x].source \notin Listed(r) => request'[x] = request[x]
  <2>. SUFFICES ASSUME NEW x \in Request
                PROVE  /\ request'[x] \in RequestRow
                       /\ request'[x].pc = request[x].pc /\ request'[x].source = request[x].source
                       /\ request'[x].id = request[x].id
                       /\ request'[x].version = request[x].version
                       /\ request'[x].file = request[x].file
                       /\ request[x].source \in Listed(r) => ~request'[x].alone
                       /\ request[x].source \notin Listed(r) => request'[x] = request[x]
    BY Zenon
  <2>1. request'[x] = [request[x] EXCEPT !.alone = keeps(x)]
    BY DEF DeleteRepo
  <2>2. request[x] \in RequestRow /\ keeps(x) \in BOOLEAN /\ request[x].alone \in BOOLEAN
    BY <1>1 DEF RequestRow
  <2>3. /\ request[x].source \in Listed(r) => keeps(x) = FALSE
        /\ request[x].source \notin Listed(r) => request[x].alone = keeps(x)
    BY <2>2
  <2>. HIDE DEF keeps
  <2>4. request[x].source \notin Listed(r) => request'[x] = request[x]
    BY <2>1, <2>2, <2>3, RowExcept
  <2>. QED BY <2>1, <2>2, <2>3, <2>4, RowExcept
<1>4. TypeOK'
  <2>1. request' \in [Request -> RequestRow]
    BY <1>1, <1>3 DEF DeleteRepo
  <2>2. row' \in [Source -> [id : Id, version : Version]]
    <3>1. NoRow \in [id : Id, version : Version]
      BY RegistryAssumption DEF NoRow, Id, Version
    <3>. QED BY <1>1, <3>1 DEF DeleteRepo, TypeOK
  <2>3. /\ repos' \subseteq Repo /\ entry' \in [Source -> Version]
        /\ setting' \in [Source -> {"unset", "default", "chosen", "overtaken"}]
        /\ settled' \in [Source -> {"unknown", "installed", "removed"}]
    BY <1>1, RegistryAssumption DEF DeleteRepo, TypeOK, Version
  <2>. QED BY <1>1, <2>1, <2>2, <2>3 DEF TypeOK, RequestRow
<1>5. \A s \in Source : About(s)' = About(s)
  BY <1>3 DEF About
<1>6. \A s \in Source \ Listed(r) : Untouched(s) /\ Whole(s)'
  BY <1>1, <1>2, <1>5, WholeStays, IInvIs DEF Untouched
<1>7. \A s \in Listed(r) : Whole(s)'
  <2>. SUFFICES ASSUME NEW s \in Listed(r) PROVE Whole(s)'
    OBVIOUS
  <2>1. s \in Source /\ Whole(s) /\ Last(s)' = Last(s)
    BY <1>1, IInvIs DEF Listed, Last
  <2>. QED BY <1>1, <1>2, <1>5, <2>1 DEF Whole, NoRow
<1>8. \A x \in Request : Knows(x)'
  <2>. SUFFICES ASSUME NEW x \in Request PROVE Knows(x)'
    OBVIOUS
  <2>1. Knows(x)
    BY IInvIs
  <2>2. CASE request[x].source \notin Listed(r)
    BY <1>1, <1>3, <1>6, <2>1, <2>2, KnowsStays
  <2>3. CASE request[x].source \in Listed(r)
    <3>1. request[x].source \in Source /\ request[x].source # None
      BY <2>3, RegistryAssumption DEF Listed
    <3>2. request[x].pc # "idle" /\ setting'[request[x].source] = "unset"
      BY <1>2, <2>1, <2>3, <3>1 DEF Knows, OfItsRow
    <3>3. OfItsRow(x)'
      BY <1>1, <1>3, <2>1, <3>1, <3>2 DEF Knows, OfItsRow
    <3>. QED BY <1>3, <2>3, <3>3 DEF Knows
  <2>. QED BY <2>2, <2>3
<1>. QED BY <1>4, <1>6, <1>7, <1>8, IInvNext

LEMMA RestartStep == ASSUME IInv, Restart PROVE IInv'
<1>1. /\ UNCHANGED <<repos, entry, row, ids, package, setting, settled>> /\ TypeOK
      /\ \A q \in Request : request'[q] = Idle
      /\ \A k \in Key : loaded'[k] = IF Compiles(k) THEN package[k] ELSE 0
  BY DEF Restart, IInv, index
<1>2. TypeOK'
  <2>1. 0 \in File /\ 0 \in Version /\ Runnable \subseteq Version
    BY RegistryAssumption DEF File, Torn, Version, Runnable
  <2>2. partial' \in [Key -> File] /\ loaded' \in [Key -> Version]
    BY <2>1 DEF Restart, Compiles
  <2>3. request' \in [Request -> RequestRow]
    BY IdleType DEF Restart
  <2>4. faults' \in 0..MaxFaults
    BY <1>1, RegistryAssumption DEF Restart, Fault, TypeOK
  <2>. QED BY <1>1, <2>2, <2>3, <2>4 DEF TypeOK, RequestRow
<1>3. \A q \in Request : Knows(q)'
  BY <1>1, IdleKnows
<1>4. \A s \in Source : Whole(s)'
  <2>. SUFFICES ASSUME NEW s \in Source PROVE Whole(s)'
    OBVIOUS
  <2>1. Whole(s) /\ Last(s)' = Last(s)
    BY <1>1, IInvIs DEF Last
  <2>2. About(s)' = {}
    BY <1>1, IdleType, RegistryAssumption DEF About
  <2>3. ids[s] # 0 => Last(s) \in Key
    BY <1>1, RegistryAssumption DEF TypeOK, Id, Last, Key
  <2>4. CASE settled[s] = "installed"
    <3>1. ids[s] # 0
      BY <2>1, <2>4, RegistryAssumption DEF Whole, NoRow
    <3>2. Compiles(Last(s)) /\ loaded'[Last(s)] = package[Last(s)]
      BY <1>1, <2>1, <2>3, <2>4, <3>1 DEF Whole, Compiles, Last
    <3>. QED BY <1>1, <2>1, <2>2, <2>4, <3>2 DEF Whole
  <2>5. CASE settled[s] = "removed"
    <3>1. ids[s] # 0 /\ row[s].id = 0
      BY <2>1, <2>5 DEF Whole, NoRow
    <3>2. loaded'[Last(s)] = 0
      BY <1>1, <2>3, <3>1 DEF Compiles, Last
    <3>. QED BY <1>1, <2>1, <2>2, <2>5, <3>2 DEF Whole
  <2>6. CASE settled[s] \notin {"installed", "removed"}
    BY <1>1, <2>1, <2>6 DEF Whole
  <2>. QED BY <2>4, <2>5, <2>6
<1>. QED BY <1>2, <1>3, <1>4, IInvNext

-----------------------------------------------------------------------------
LEMMA NextIInv == IInv /\ [Next]_vars => IInv'
<1>. SUFFICES ASSUME IInv, [Next]_vars PROVE IInv'
  OBVIOUS
<1>1. CASE UNCHANGED vars
  <2>1. TypeOK /\ TypeOK'
    BY <1>1 DEF IInv, TypeOK, vars
  <2>2. \A s \in Source : Untouched(s) /\ About(s)' = About(s)
    BY <1>1 DEF vars, Untouched, About
  <2>3. \A s \in Source : Whole(s)'
    BY <1>1, <2>1, <2>2, WholeStays, IInvIs DEF vars
  <2>4. \A q \in Request : Knows(q)'
    BY <1>1, <2>1, <2>2, KnowsStays, IInvIs DEF vars
  <2>. QED BY <2>1, <2>3, <2>4, IInvNext
<1>2. CASE \E q \in Request : InstallStep(q)
  BY <1>2, RefuseStep, UpsertStep, OpenStep, FillStep, RenameStep, CheckStep, SeedStep, RegisterStep
  DEF InstallStep
<1>3. CASE \E q \in Request : UninstallStep(q)
  BY <1>3, UnloadStep, UnpackStep, DeleteStep DEF UninstallStep
<1>. QED
  BY <1>1, <1>2, <1>3, RefreshStep, ChooseStep, DeleteRepoStep, BeginInstallStep,
     BeginUninstallStep, RestartStep DEF Next

\* However installs, uninstalls, choices, refreshes, deleted repositories, failing steps and restarts
\* follow one another, every request under way knows its row, and one that has its source to itself
\* has reached what its place in the handler says (AidokuRegistry::install, uninstall).
THEOREM RegistryInvariant == Spec => []IInv
BY InitIInv, NextIInv, PTL DEF Spec

\* An install that was alone leaves row, package and module at one version, over restarts
\* (install_bytes and load_installed).
THEOREM InstallsLeaveOneVersion == Spec => []InstallsAreWhole
<1>1. IInv => InstallsAreWhole
  BY DEF IInv
<1>. QED BY <1>1, RegistryInvariant, PTL

\* An uninstall that was alone leaves nothing anywhere (routes/sources.rs, uninstall).
THEOREM UninstallsLeaveNothing == Spec => []UninstallsAreWhole
<1>1. IInv => UninstallsAreWhole
  BY DEF IInv
<1>. QED BY <1>1, RegistryInvariant, PTL

\* A stored choice is never replaced by the declared default (install_bytes: "Only keys with
\* nothing stored").
THEOREM ChoicesAreKept == Spec => ChosenIsKept
<1>1. IInv /\ [Next]_vars => [\A s \in Source : setting[s] = "chosen" => setting'[s] # "default"]_vars
  <2>. SUFFICES ASSUME IInv, Next, NEW s \in Source, setting[s] = "chosen"
                PROVE  setting'[s] # "default"
    OBVIOUS
  <2>1. CASE \E q \in Request : Seed(q)
    <3>1. PICK q \in Request : Seed(q)
      BY <2>1
    <3>2. request[q].source = s => ~IsRow(q)
      BY <3>1, IInvIs DEF Seed, At, Knows, OfItsRow
    <3>3. request[q].source # s \/ setting' = setting
      BY <3>1, <3>2 DEF Seed
    <3>. QED BY <3>1, <3>3 DEF Seed, IInv, TypeOK
  <2>2. CASE \E q \in Request : Delete(q)
    BY <2>2 DEF Delete, IInv, TypeOK
  <2>3. CASE \E t \in Source : Choose(t)
    BY <2>3 DEF Choose, IInv, TypeOK
  <2>4. CASE \E r \in Repo : DeleteRepo(r)
    BY <2>4 DEF DeleteRepo
  <2>5. CASE setting' = setting
    BY <2>5
  <2>. QED
    BY <2>1, <2>2, <2>3, <2>4, <2>5
    DEF Next, Refresh, Restart, BeginInstall, BeginUninstall, InstallStep, UninstallStep, Refuse,
        Upsert, Open, Fill, Rename, Check, Register, Unload, Unpack, homes
<1>. QED BY <1>1, RegistryInvariant, PTL DEF Spec, ChosenIsKept

-----------------------------------------------------------------------------
\* A package that was found runnable finds all it imports: every namespace of Aidoku's belongs to a
\* capability, so that one without a definition here was refused (prepare, package.rs).
LEMMA LoadsLinks == ASSUME NEW p, Loads(p) PROVE Links(p)
<1>. SUFFICES ASSUME NEW i \in p.imports,
                     i[1] \in {"env", "std", "defaults", "net", "html", "js", "canvas"}
              PROVE  IsProvided(i)
  BY DEF Links
<1>1. CapabilityForImport(i) \in {"canvas", "net", "html", "defaults", "std", "webview", "js"}
  BY DEF CapabilityForImport
<1>2. CapabilityForImport(i) \in RequiredCapabilities(p.imports)
  BY <1>1 DEF RequiredCapabilities
<1>3. CapabilityForImport(i) \in SupportedCapabilities
  BY <1>2 DEF Loads
<1>. QED BY <1>3 DEF Loads, UnprovidedImports

\* FilesInv, for one key.
FilesOf(k) ==
    /\ loaded[k] \in {0} \cup Runnable
    /\ package[k] \in {0, Torn} \cup Runnable /\ partial[k] \in {0, Torn} \cup Runnable
    /\ k[2] > ids[k[1]] => loaded[k] = 0
    /\ faults = 0 =>
        /\ package[k] = Torn => \E q \in Request : Fills(q, "package", k)
        /\ partial[k] = Torn => \E q \in Request : Fills(q, "partial", k)
        /\ /\ row[k[1]].id = k[2]
           /\ loaded[k] # 0 \/ \E q \in Request : Installing(q, k)
           => package[k] # 0 \/ \E q \in Request : At(q, "deleting") /\ KeyOf(q) = k

LEMMA FilesInvIs == FilesInv <=> \A k \in Key : FilesOf(k)
<1>1. ASSUME NEW k \in Key
      PROVE  {package[k], partial[k]} \subseteq {0, Torn} \cup Runnable <=>
             package[k] \in {0, Torn} \cup Runnable /\ partial[k] \in {0, Torn} \cup Runnable
  OBVIOUS
<1>. QED BY <1>1 DEF FilesInv, FilesOf, OnlyRunnable, TornHasAWriter, LoadedHasAPackage

LEMMA FilesInvNext == ASSUME \A k \in Key : FilesOf(k)' PROVE FilesInv'
<1>1. ASSUME NEW k \in Key
      PROVE  {package[k], partial[k]}' \subseteq ({0, Torn} \cup Runnable)' <=>
             package'[k] \in {0, Torn} \cup Runnable /\ partial'[k] \in {0, Torn} \cup Runnable
  BY DEF Torn, Runnable
<1>. QED BY <1>1 DEF FilesInv, FilesOf, OnlyRunnable, TornHasAWriter, LoadedHasAPackage

\* A request that is where it was, with the file it had.
SameWork(x) ==
    /\ request'[x].pc = request[x].pc /\ request'[x].source = request[x].source
    /\ request'[x].id = request[x].id /\ request'[x].file = request[x].file

SameKey(x) == request'[x].source = request[x].source /\ request'[x].id = request[x].id

\* A step of a request that takes no writer from a file of k and makes no install of it.
Passes(x, k) ==
    /\ faults' = 0 /\ KeyOf(x) = k => ~At(x, "filling")
    /\ faults' = 0 /\ KeyOf(x) = k /\ row'[k[1]].id = k[2] => ~At(x, "deleting")
    /\ Installing(x, k)' => Installing(x, k)

LEMMA FilesStay ==
    ASSUME NEW k \in Key, FilesOf(k), TypeOK, TypeOK',
           package'[k] = package[k], partial'[k] = partial[k], loaded'[k] \in {0, loaded[k]},
           ids[k[1]] <= ids'[k[1]], faults' = 0 => faults = 0,
           \A x \in Request : SameWork(x) \/ Passes(x, k),
           row'[k[1]].id = k[2] =>
               \/ row[k[1]].id = k[2]
               \/ loaded[k] = 0 /\ \A x \in Request : ~Installing(x, k)
    PROVE  FilesOf(k)'
<1>1. /\ (k[2] > ids[k[1]])' => k[2] > ids[k[1]]
      /\ k[1] \in Source
  <2>1. k[1] \in Source /\ k[2] \in 1..MaxIds
    BY DEF Key
  <2>2. ids[k[1]] \in Nat /\ ids'[k[1]] \in Nat
    BY <2>1, RegistryAssumption DEF TypeOK, Id
  <2>. QED BY <2>1, <2>2, RegistryAssumption
<1>2. ASSUME faults' = 0, NEW file, NEW x \in Request, Fills(x, file, k)
      PROVE  Fills(x, file, k)'
  BY <1>2 DEF Fills, At, KeyOf, SameWork, Passes
<1>3. ASSUME faults' = 0, row'[k[1]].id = k[2], NEW x \in Request, At(x, "deleting"), KeyOf(x) = k
      PROVE  (At(x, "deleting") /\ KeyOf(x) = k)'
  BY <1>3 DEF At, KeyOf, SameWork, Passes
<1>4. ASSUME NEW x \in Request, Installing(x, k)' PROVE Installing(x, k)
  BY <1>4 DEF Installing, At, KeyOf, SameWork, Passes
<1>5. /\ loaded'[k] \in {0} \cup Runnable
      /\ package'[k] \in {0, Torn} \cup Runnable /\ partial'[k] \in {0, Torn} \cup Runnable
      /\ (k[2] > ids[k[1]])' => loaded'[k] = 0
  BY <1>1 DEF FilesOf
<1>6. ASSUME faults' = 0
      PROVE  /\ package'[k] = Torn => \E x \in Request : Fills(x, "package", k)'
             /\ partial'[k] = Torn => \E x \in Request : Fills(x, "partial", k)'
  BY <1>2, <1>6 DEF FilesOf
<1>7. ASSUME faults' = 0, row'[k[1]].id = k[2],
             loaded'[k] # 0 \/ \E x \in Request : Installing(x, k)'
      PROVE  package'[k] # 0 \/ \E x \in Request : (At(x, "deleting") /\ KeyOf(x) = k)'
  <2>1. loaded[k] # 0 \/ \E x \in Request : Installing(x, k)
    BY <1>4, <1>7
  <2>2. row[k[1]].id = k[2]
    BY <1>7, <2>1
  <2>3. package[k] # 0 \/ \E x \in Request : At(x, "deleting") /\ KeyOf(x) = k
    BY <1>7, <2>1, <2>2 DEF FilesOf
  <2>. QED BY <1>3, <1>7, <2>3
<1>8. Torn' = Torn /\ Runnable' = Runnable
  BY DEF Torn, Runnable
<1>. QED BY <1>5, <1>6, <1>7, <1>8 DEF FilesOf

\* The keys that a step of q is not about.
LEMMA OtherKeys ==
    ASSUME IInv, TypeOK', FilesInv, NEW q \in Request, NEW k \in Key, KeyOf(q) # k,
           UNCHANGED <<row, ids, faults>>,
           package'[k] = package[k], partial'[k] = partial[k], loaded'[k] = loaded[k],
           SameKey(q) \/ request'[q] = Idle,
           \A x \in Request \ {q} : SameWork(x) \/ (SameKey(x) /\ KeyOf(x) = KeyOf(q))
    PROVE  FilesOf(k)'
<1>1. FilesOf(k) /\ TypeOK
  BY FilesInvIs DEF IInv
<1>2. \A x \in Request : SameWork(x) \/ Passes(x, k)
  <2>1. Passes(q, k)
    BY IdleType DEF Passes, Installing, SameKey, KeyOf
  <2>2. \A x \in Request \ {q} : SameWork(x) \/ Passes(x, k)
    BY DEF Passes, Installing, SameKey, KeyOf
  <2>. QED BY <2>1, <2>2
<1>3. ids[k[1]] <= ids'[k[1]]
  BY <1>1 DEF TypeOK, Key, Id
<1>. QED BY <1>1, <1>2, <1>3, FilesStay

-----------------------------------------------------------------------------
\* The steps that move no request, or only whether it is alone.
LEMMA StillFiles ==
    ASSUME IInv, TypeOK', FilesInv, UNCHANGED <<ids, package, partial, loaded, faults>>,
           \A x \in Request : SameWork(x),
           \A s \in Source : row'[s].id \in {row[s].id, 0}
    PROVE  FilesInv'
<1>. SUFFICES ASSUME NEW k \in Key PROVE FilesOf(k)'
  BY FilesInvNext
<1>1. FilesOf(k) /\ TypeOK /\ k[1] \in Source /\ k[2] \in 1..MaxIds
  BY FilesInvIs DEF IInv, Key
<1>2. ids[k[1]] <= ids'[k[1]] /\ k[2] # 0
  BY <1>1, RegistryAssumption DEF TypeOK, Id
<1>. QED BY <1>1, <1>2, FilesStay

LEMMA OutsideFiles ==
    ASSUME IInv, IInv', FilesInv,
           \/ \E s \in Source : Refresh(s) \/ Choose(s)
           \/ \E r \in Repo : DeleteRepo(r)
           \/ UNCHANGED vars
    PROVE  FilesInv'
<1>1. TypeOK /\ TypeOK'
  BY DEF IInv
<1>2. CASE (\E s \in Source : Refresh(s) \/ Choose(s)) \/ UNCHANGED vars
  <2>1. UNCHANGED <<row, ids, package, partial, loaded, request, faults>>
    BY <1>2 DEF Refresh, Choose, vars, homes
  <2>. QED BY <1>1, <2>1, StillFiles DEF SameWork
<1>3. ASSUME NEW r \in Repo, DeleteRepo(r) PROVE FilesInv'
  <2>1. \A x \in Request : SameWork(x)
    <3>. SUFFICES ASSUME NEW x \in Request PROVE SameWork(x)
      OBVIOUS
    <3>. DEFINE keeps == request[x].alone /\ request[x].source \notin Listed(r)
    <3>1. request'[x] = [request[x] EXCEPT !.alone = keeps] /\ request[x] \in RequestRow
      BY <1>1, <1>3 DEF DeleteRepo, TypeOK, RequestRow
    <3>2. keeps \in BOOLEAN
      OBVIOUS
    <3>. HIDE DEF keeps
    <3>. QED BY <3>1, <3>2, RowExcept DEF SameWork
  <2>2. \A s \in Source : row'[s].id \in {row[s].id, 0}
    BY <1>3 DEF DeleteRepo, NoRow
  <2>. QED BY <1>1, <1>3, <2>1, <2>2, StillFiles DEF DeleteRepo
<1>. QED BY <1>2, <1>3

\* After a fault only what is runnable is promised.
LEMMA FaultyFiles ==
    ASSUME IInv, TypeOK', FilesInv, faults' # 0, UNCHANGED <<ids, package>>,
           \A k \in Key : loaded'[k] \in {0, loaded[k]} /\ partial'[k] \in {0, partial[k]}
    PROVE  FilesInv'
<1>. SUFFICES ASSUME NEW k \in Key PROVE FilesOf(k)'
  BY FilesInvNext
<1>1. FilesOf(k)
  BY FilesInvIs
<1>2. Torn' = Torn /\ Runnable' = Runnable
  BY DEF Torn, Runnable
<1>. QED BY <1>1, <1>2 DEF FilesOf

LEMMA FailsFiles ==
    ASSUME IInv, IInv', FilesInv, NEW q \in Request, Fails(q), UNCHANGED <<ids, package, loaded>>,
           \/ UNCHANGED partial
           \/ partial' = [partial EXCEPT ![KeyOf(q)] = 0]
    PROVE  FilesInv'
<1>1. faults' # 0 /\ TypeOK'
  BY DEF Fails, Fault, IInv, TypeOK
<1>2. \A k \in Key : partial'[k] \in {0, partial[k]}
  BY DEF IInv, TypeOK
<1>. QED BY <1>1, <1>2, FaultyFiles

LEMMA RestartFiles == ASSUME IInv, IInv', FilesInv, Restart PROVE FilesInv'
<1>. SUFFICES ASSUME NEW k \in Key PROVE FilesOf(k)'
  BY FilesInvNext
<1>1. FilesOf(k) /\ k[1] \in Source /\ k[2] \in 1..MaxIds
  BY FilesInvIs DEF Key
<1>2. Torn' = Torn /\ Runnable' = Runnable
  BY DEF Torn, Runnable
<1>3. faults' # 0 /\ UNCHANGED <<row, ids, package>> /\ partial'[k] = 0
  BY DEF Restart, Fault, IInv, TypeOK
<1>4. loaded'[k] = IF Compiles(k) THEN package[k] ELSE 0
  BY DEF Restart
<1>5. Compiles(k) => package[k] \in Runnable /\ ~(k[2] > ids[k[1]])
  <2>1. row[k[1]].id \in {0, ids[k[1]]} /\ ids[k[1]] \in Nat
    BY <1>1, RegistryAssumption DEF IInv, TypeOK, Id
  <2>. QED BY <1>1, <2>1, RegistryAssumption DEF Compiles
<1>. QED BY <1>1, <1>2, <1>3, <1>4, <1>5 DEF FilesOf

-----------------------------------------------------------------------------
\* Requests that begin, end or go on without touching a file.
LEMMA PassingFiles ==
    ASSUME IInv, IInv', FilesInv, UNCHANGED <<row, ids, package, partial, loaded, faults>>,
           NEW q \in Request, ~At(q, "filling"), ~At(q, "deleting"),
           \A x \in Request \ {q} : SameWork(x),
           \/ request'[q].pc \notin {"checking", "seeding", "registering"}
           \/ /\ request[q].pc \in {"checking", "seeding", "registering"}
              /\ request'[q].source = request[q].source /\ request'[q].id = request[q].id
    PROVE  FilesInv'
<1>. SUFFICES ASSUME NEW k \in Key PROVE FilesOf(k)'
  BY FilesInvNext
<1>1. FilesOf(k) /\ TypeOK /\ TypeOK'
  BY FilesInvIs DEF IInv
<1>2. \A x \in Request : SameWork(x) \/ Passes(x, k)
  BY DEF Passes, Installing, KeyOf
<1>3. ids[k[1]] <= ids'[k[1]]
  BY <1>1 DEF TypeOK, Key, Id
<1>. QED BY <1>1, <1>2, <1>3, FilesStay

LEMMA StopsWork ==
    ASSUME IInv, NEW q \in Request, Stops(q)
    PROVE  request'[q].pc = "idle" /\ \A x \in Request \ {q} : SameWork(x)
BY StopsFacts, IdleType DEF SameWork, IInv

LEMMA GoesWork ==
    ASSUME IInv, NEW q \in Request, NEW pc \in Pc, Goes(q, pc)
    PROVE  /\ request'[q].pc = pc /\ request'[q].source = request[q].source
           /\ request'[q].id = request[q].id /\ request'[q].file = request[q].file
           /\ SameKey(q) /\ KeyOf(q)' = KeyOf(q)
           /\ \A x \in Request \ {q} : SameWork(x)
BY GoesFacts DEF SameWork, SameKey, IInv, KeyOf

LEMMA BeginFiles ==
    ASSUME IInv, IInv', FilesInv, NEW q \in Request, NEW s \in Source,
           BeginInstall(q, s) \/ BeginUninstall(q, s)
    PROVE  FilesInv'
<1>0. IInv /\ TypeOK /\ ids[s] \in Id /\ entry[s] \in Version
  BY DEF IInv, TypeOK
<1>1. request[q] = Idle /\ UNCHANGED <<homes, faults>>
  BY DEF BeginInstall, BeginUninstall
<1>2. PICK new \in RequestRow : Begins(q, s, new) /\ new.pc \in {"fetched", "unloading"}
  <2>1. CASE BeginInstall(q, s)
    <3>1. [Idle EXCEPT !.pc = "fetched", !.source = s, !.version = entry[s]] \in RequestRow
      BY <1>0, IdleType DEF RequestRow, Pc, Idle
    <3>2. [Idle EXCEPT !.pc = "fetched", !.source = s, !.version = entry[s]].pc = "fetched"
      BY DEF Idle
    <3>. QED BY <2>1, <3>1, <3>2 DEF BeginInstall
  <2>2. CASE BeginUninstall(q, s)
    <3>1. [Idle EXCEPT !.pc = "unloading", !.source = s, !.id = ids[s]] \in RequestRow
      BY <1>0, IdleType DEF RequestRow, Pc, Idle
    <3>2. [Idle EXCEPT !.pc = "unloading", !.source = s, !.id = ids[s]].pc = "unloading"
      BY DEF Idle
    <3>. QED BY <2>2, <3>1, <3>2 DEF BeginUninstall
  <2>. QED BY <2>1, <2>2
<1>3. request'[q].pc \in {"fetched", "unloading"}
  <2>. DEFINE b == About(s) = {}
  <2>1. request'[q] = [new EXCEPT !.alone = b] /\ b \in BOOLEAN
    BY <1>2 DEF Begins
  <2>. HIDE DEF b
  <2>. QED BY <1>2, <2>1, RowExcept
<1>4. \A x \in Request \ {q} : SameWork(x)
  <2>. SUFFICES ASSUME NEW x \in Request \ {q} PROVE SameWork(x)
    OBVIOUS
  <2>. DEFINE b == request[x].alone /\ request[x].source # s
  <2>1. request'[x] = [request[x] EXCEPT !.alone = b] /\ request[x] \in RequestRow
    BY <1>0, <1>2 DEF Begins, TypeOK, RequestRow
  <2>2. b \in BOOLEAN
    OBVIOUS
  <2>. HIDE DEF b
  <2>. QED BY <2>1, <2>2, RowExcept DEF SameWork
<1>5. ~At(q, "filling") /\ ~At(q, "deleting")
  BY <1>1, IdleType DEF At
<1>. QED BY <1>1, <1>3, <1>4, <1>5, PassingFiles DEF homes

LEMMA CheckFiles == ASSUME IInv, IInv', FilesInv, NEW q \in Request, Refuse(q) \/ Check(q) \/ Seed(q)
                    PROVE  FilesInv'
<1>1. CASE Fails(q)
  BY <1>1, FailsFiles DEF Refuse, Check, Seed, homes
<1>2. CASE ~Fails(q)
  <2>1. /\ request[q].pc \in {"fetched", "checking", "seeding"}
        /\ UNCHANGED <<row, ids, package, partial, loaded, faults>>
    BY <1>2 DEF Refuse, Check, Seed, At, homes
  <2>2. CASE Stops(q)
    BY <2>1, <2>2, StopsWork, PassingFiles DEF At
  <2>3. CASE ~Stops(q)
    <3>1. PICK pc \in {"registering", "seeding"} : Goes(q, pc)
      BY <1>2, <2>3 DEF Refuse, Check, Seed
    <3>2. request[q].pc \in {"checking", "seeding"} /\ pc \in Pc
      BY <1>2, <2>3 DEF Refuse, Check, Seed, At, Pc
    <3>. QED BY <2>1, <3>1, <3>2, GoesWork, PassingFiles DEF At
  <2>. QED BY <2>2, <2>3
<1>. QED BY <1>1, <1>2

\* A row that is new has a key nothing has been loaded for and no request is about.
LEMMA UpsertFiles == ASSUME IInv, IInv', FilesInv, NEW q \in Request, Upsert(q) PROVE FilesInv'
<1>0. request[q].pc = "fetched" /\ TypeOK /\ TypeOK' /\ request[q] \in RequestRow
  BY DEF Upsert, At, IInv, TypeOK, RequestRow
<1>1. PICK s \in Source : request[q].source = s
  BY <1>0, Acting
<1>2. CASE Fails(q)
  <2>1. UNCHANGED <<ids, package, partial, loaded>>
    BY <1>0, <1>2 DEF Upsert, Fails, Fault, TypeOK
  <2>. QED BY <1>2, <2>1, FailsFiles
<1>3. CASE Stops(q) /\ ~Fails(q)
  <2>1. CASE UNCHANGED <<row, ids, faults>>
    BY <1>0, <1>3, <2>1, StopsWork, PassingFiles DEF At, Upsert
  <2>2. CASE request' = [request EXCEPT ![q].pc = "opening", ![q].id = IdFor(s)]
    <3>1. request'[q].pc = "opening" /\ request'[q].pc = "idle"
      BY <1>0, <1>3, <2>2, StopsWork DEF TypeOK, RequestRow
    <3>. QED BY <3>1
  <2>. QED BY <1>1, <1>3, <2>1, <2>2 DEF Upsert
<1>4. CASE /\ row' = [row EXCEPT ![s] = [id |-> IdFor(s), version |-> request[q].version]]
           /\ ids' = [ids EXCEPT ![s] = IF row[s].id = 0 THEN @ + 1 ELSE @]
           /\ request' = [request EXCEPT ![q].pc = "opening", ![q].id = IdFor(s)]
           /\ UNCHANGED <<settled, faults>>
  <2>. SUFFICES ASSUME NEW k \in Key PROVE FilesOf(k)'
    BY FilesInvNext
  <2>1. FilesOf(k) /\ k[1] \in Source /\ k[2] \in 1..MaxIds
    BY FilesInvIs DEF Key
  <2>2. UNCHANGED <<package, partial, loaded>>
    BY DEF Upsert
  <2>3. request'[q].pc = "opening" /\ \A x \in Request \ {q} : request'[x] = request[x]
    BY <1>0, <1>4 DEF TypeOK, RequestRow
  <2>4. \A x \in Request : SameWork(x) \/ Passes(x, k)
    BY <1>0, <2>3 DEF SameWork, Passes, At, Installing
  <2>5. ids[s] \in Nat /\ row[s].id \in {0, ids[s]} /\ row[s].id \in Nat
    BY <1>0, RegistryAssumption DEF IInv, TypeOK, Id
  <2>6. ids[k[1]] <= ids'[k[1]]
    BY <1>0, <1>4, <2>1, <2>5 DEF TypeOK, Id
  <2>7. ASSUME row'[k[1]].id = k[2], row[k[1]].id # k[2]
        PROVE  loaded[k] = 0 /\ \A x \in Request : ~Installing(x, k)
    <3>1. k[1] = s /\ k[2] = ids[s] + 1
      BY <1>0, <1>4, <2>1, <2>5, <2>7 DEF TypeOK, IdFor
    <3>2. loaded[k] = 0
      BY <2>1, <2>5, <3>1 DEF FilesOf
    <3>3. \A x \in Request : ~Installing(x, k)
      <4>. SUFFICES ASSUME NEW x \in Request, Installing(x, k) PROVE FALSE
        OBVIOUS
      <4>1. request[x].pc \in Writing /\ request[x].pc # "idle" /\ request[x].id \in 1..ids[request[x].source]
        <5>1. request[x].pc \in Writing /\ request[x].pc # "idle"
          BY DEF Installing, Writing
        <5>. QED BY <5>1, Acting
      <4>2. request[x].source = s /\ request[x].id = ids[s] + 1
        BY <3>1 DEF Installing, KeyOf
      <4>. QED BY <2>5, <4>1, <4>2
    <3>. QED BY <3>2, <3>3
  <2>. QED BY <1>0, <1>4, <2>1, <2>2, <2>4, <2>6, <2>7, FilesStay
<1>. QED BY <1>1, <1>2, <1>3, <1>4 DEF Upsert

\* The request itself, at its key, and the others as they were.
LEMMA OpenFiles == ASSUME IInv, IInv', FilesInv, NEW q \in Request, Open(q) PROVE FilesInv'
<1>0. /\ request[q].pc = "opening" /\ TypeOK /\ TypeOK' /\ request[q] \in RequestRow
      /\ UNCHANGED <<row, ids, package, loaded>>
  BY DEF Open, At, IInv, TypeOK, RequestRow
<1>1. CASE Fails(q)
  BY <1>0, <1>1, FailsFiles DEF Open, TypeOK, Fails, Fault
<1>2. CASE /\ partial' = [partial EXCEPT ![KeyOf(q)] = Torn]
           /\ request' = [request EXCEPT ![q].pc = "filling", ![q].file = "partial"]
           /\ UNCHANGED <<settled, faults>>
  <2>. SUFFICES ASSUME NEW k \in Key PROVE FilesOf(k)'
    BY FilesInvNext
  <2>1. /\ request'[q].pc = "filling" /\ request'[q].file = "partial" /\ SameKey(q) /\ KeyOf(q)' = KeyOf(q)
        /\ \A x \in Request \ {q} : request'[x] = request[x]
    BY <1>0, <1>2 DEF TypeOK, RequestRow, KeyOf, SameKey
  <2>2. CASE KeyOf(q) # k
    <3>1. package'[k] = package[k] /\ partial'[k] = partial[k] /\ loaded'[k] = loaded[k]
      BY <1>0, <1>2, <2>2 DEF TypeOK
    <3>. QED BY <1>0, <1>2, <2>1, <2>2, <3>1, OtherKeys DEF SameWork
  <2>3. CASE KeyOf(q) = k
    <3>1. FilesOf(k) /\ partial'[k] = Torn
      BY <1>0, <1>2, <2>3, FilesInvIs DEF TypeOK
    <3>2. Fills(q, "partial", k)'
      BY <2>1, <2>3 DEF Fills, At
    <3>3. \A x \in Request : Fills(x, "package", k) => Fills(x, "package", k)'
      BY <1>0, <2>1 DEF Fills, At, KeyOf
    <3>4. \A x \in Request : Installing(x, k)' => Installing(x, k)
      BY <2>1 DEF Installing, KeyOf
    <3>5. \A x \in Request : At(x, "deleting") /\ KeyOf(x) = k => (At(x, "deleting") /\ KeyOf(x) = k)'
      BY <1>0, <2>1 DEF At, KeyOf
    <3>6. Torn' = Torn /\ Runnable' = Runnable
      BY DEF Torn, Runnable
    <3>. QED BY <1>0, <1>2, <3>1, <3>2, <3>3, <3>4, <3>5, <3>6 DEF FilesOf
  <2>. QED BY <2>2, <2>3
<1>. QED BY <1>1, <1>2 DEF Open

LEMMA FillFiles == ASSUME IInv, IInv', FilesInv, NEW q \in Request, Fill(q) PROVE FilesInv'
<1>0. /\ request[q].pc = "filling" /\ TypeOK /\ TypeOK' /\ UNCHANGED <<row, ids, loaded>>
      /\ "renaming" \in Pc
  BY DEF Fill, At, IInv, Pc
<1>1. /\ request[q] \in RequestRow /\ KeyOf(q) \in Key /\ request[q].version \in Runnable
      /\ request[q].version \in Nat
  <2>1. "filling" \in Writing
    BY DEF Writing
  <2>. QED BY <1>0, <2>1, Acting DEF Knows, OfItsRow, Runnable
<1>2. CASE Fails(q)
  BY <1>0, <1>2, FailsFiles DEF Fill, TypeOK, Fails, Fault
<1>3. CASE /\ partial' = IF request[q].file = "partial"
                         THEN [partial EXCEPT ![KeyOf(q)] = request[q].version] ELSE partial
           /\ package' = IF request[q].file = "package"
                         THEN [package EXCEPT ![KeyOf(q)] = request[q].version] ELSE package
           /\ Goes(q, "renaming")
           /\ UNCHANGED <<settled, faults>>
  <2>. SUFFICES ASSUME NEW k \in Key PROVE FilesOf(k)'
    BY FilesInvNext
  <2>1. /\ request'[q].pc = "renaming" /\ SameKey(q) /\ KeyOf(q)' = KeyOf(q)
        /\ \A x \in Request \ {q} : SameWork(x)
    BY <1>0, <1>3, GoesWork
  <2>2. CASE KeyOf(q) # k
    <3>1. package'[k] = package[k] /\ partial'[k] = partial[k] /\ loaded'[k] = loaded[k]
      BY <1>0, <1>3, <2>2 DEF TypeOK
    <3>. QED BY <1>0, <1>3, <2>1, <2>2, <3>1, OtherKeys
  <2>3. CASE KeyOf(q) = k
    <3>1. FilesOf(k) /\ 0 \notin Runnable /\ Torn \notin Runnable
      BY FilesInvIs, RegistryAssumption DEF Runnable, Torn
    <3>2. /\ partial'[k] = IF request[q].file = "partial" THEN request[q].version ELSE partial[k]
          /\ package'[k] = IF request[q].file = "package" THEN request[q].version ELSE package[k]
      BY <1>0, <1>3, <2>3 DEF TypeOK
    <3>3. ASSUME NEW x \in Request, NEW file, Fills(x, file, k), file # request[q].file
          PROVE  Fills(x, file, k)'
      BY <2>1, <3>3 DEF Fills, At, KeyOf, SameWork
    <3>4. \A x \in Request : Installing(x, k)' => Installing(x, k)
      BY <2>1 DEF Installing, KeyOf, SameWork
    <3>5. \A x \in Request : At(x, "deleting") /\ KeyOf(x) = k => (At(x, "deleting") /\ KeyOf(x) = k)'
      BY <1>0, <2>1 DEF At, KeyOf, SameWork
    <3>6. Torn' = Torn /\ Runnable' = Runnable
      BY DEF Torn, Runnable
    <3>7. faults' = 0 => /\ package'[k] = Torn => \E x \in Request : Fills(x, "package", k)'
                         /\ partial'[k] = Torn => \E x \in Request : Fills(x, "partial", k)'
      BY <1>1, <1>3, <3>1, <3>2, <3>3 DEF FilesOf
    <3>8. /\ loaded'[k] \in {0} \cup Runnable /\ (k[2] > ids[k[1]])' => loaded'[k] = 0
          /\ package'[k] \in {0, Torn} \cup Runnable /\ partial'[k] \in {0, Torn} \cup Runnable
          /\ package[k] # 0 => package'[k] # 0
      BY <1>0, <1>1, <3>1, <3>2 DEF FilesOf
    <3>. QED BY <1>0, <1>3, <3>1, <3>4, <3>5, <3>6, <3>7, <3>8 DEF FilesOf
  <2>. QED BY <2>2, <2>3
<1>. QED BY <1>2, <1>3 DEF Fill

\* What is renamed may be torn: then its writer goes on, in the package.
LEMMA RenameFiles == ASSUME IInv, IInv', FilesInv, NEW q \in Request, Rename(q) PROVE FilesInv'
<1>0. /\ request[q].pc = "renaming" /\ TypeOK /\ TypeOK' /\ UNCHANGED <<row, ids, loaded>>
  BY DEF Rename, At, IInv
<1>1. request[q] \in RequestRow /\ KeyOf(q) \in Key
  <2>1. "renaming" \in Writing
    BY DEF Writing
  <2>. QED BY <1>0, <2>1, Acting
<1>2. CASE Fails(q)
  <2>1. /\ UNCHANGED package
        /\ UNCHANGED partial \/ partial' = [partial EXCEPT ![KeyOf(q)] = 0]
    BY <1>0, <1>2 DEF Rename, Fails, Fault, TypeOK
  <2>. QED BY <1>0, <1>2, <2>1, FailsFiles
<1>3. CASE Stops(q) /\ UNCHANGED <<package, partial, settled, faults>>
  BY <1>0, <1>3, StopsWork, PassingFiles DEF At
<1>4. CASE /\ partial[KeyOf(q)] # 0
           /\ package' = [package EXCEPT ![KeyOf(q)] = partial[KeyOf(q)]]
           /\ partial' = [partial EXCEPT ![KeyOf(q)] = 0]
           /\ request' = [x \in Request |->
                            IF x = q THEN [request[q] EXCEPT !.pc = "checking", !.file = "none"]
                            ELSE IF KeyOf(x) = KeyOf(q)
                            THEN [request[x] EXCEPT !.file = Renamed(x, @)]
                            ELSE request[x]]
           /\ UNCHANGED <<settled, faults>>
  <2>. SUFFICES ASSUME NEW k \in Key PROVE FilesOf(k)'
    BY FilesInvNext
  <2>1. SameKey(q) /\ KeyOf(q)' = KeyOf(q) /\ request'[q].pc = "checking"
    BY <1>1, <1>4 DEF RequestRow, KeyOf, SameKey
  <2>2. ASSUME NEW x \in Request \ {q}
        PROVE  /\ KeyOf(x) # KeyOf(q) => request'[x] = request[x]
               /\ KeyOf(x) = KeyOf(q) =>
                     /\ request'[x].pc = request[x].pc /\ SameKey(x) /\ KeyOf(x)' = KeyOf(x)
                     /\ request[x].file = "partial" => request'[x].file = "package"
    <3>1. CASE KeyOf(x) # KeyOf(q)
      BY <1>4, <3>1
    <3>2. CASE KeyOf(x) = KeyOf(q)
      <4>1. request[x] \in RequestRow /\ Renamed(x, request[x].file) \in {"none", "partial", "package"}
        BY <1>0 DEF TypeOK, RequestRow, Renamed
      <4>2. request'[x] = [request[x] EXCEPT !.file = Renamed(x, request[x].file)]
        BY <1>4, <3>2
      <4>3. request[x].file = "partial" => Renamed(x, request[x].file) = "package"
        BY DEF Renamed
      <4>. QED BY <3>2, <4>1, <4>2, <4>3, FileExcept DEF KeyOf, SameKey
    <3>. QED BY <3>1, <3>2
  <2>3. CASE KeyOf(q) # k
    <3>1. package'[k] = package[k] /\ partial'[k] = partial[k] /\ loaded'[k] = loaded[k]
      BY <1>0, <1>4, <2>3 DEF TypeOK
    <3>. QED BY <1>0, <1>4, <2>1, <2>2, <2>3, <3>1, OtherKeys DEF SameWork
  <2>4. CASE KeyOf(q) = k
    <3>1. FilesOf(k) /\ Torn # 0
      BY FilesInvIs, RegistryAssumption DEF Torn
    <3>2. partial'[k] = 0 /\ package'[k] = partial[k] /\ package'[k] # 0
      BY <1>0, <1>4, <2>4 DEF TypeOK
    <3>3. ASSUME NEW x \in Request, Fills(x, "partial", k) PROVE Fills(x, "package", k)'
      BY <1>0, <2>2, <2>4, <3>3 DEF Fills, At
    <3>4. Torn' = Torn /\ Runnable' = Runnable
      BY DEF Torn, Runnable
    <3>. QED BY <1>0, <1>4, <3>1, <3>2, <3>3, <3>4 DEF FilesOf
  <2>. QED BY <2>3, <2>4
<1>. QED BY <1>2, <1>3, <1>4 DEF Rename

LEMMA RegisterFiles == ASSUME IInv, IInv', FilesInv, NEW q \in Request, Register(q) PROVE FilesInv'
<1>0. /\ request[q].pc = "registering" /\ TypeOK /\ TypeOK'
      /\ UNCHANGED <<row, ids, package, partial, faults>> /\ Stops(q)
      /\ loaded' = [loaded EXCEPT ![KeyOf(q)] = request[q].version]
  BY DEF Register, At, IInv, Settles
<1>1. /\ KeyOf(q) \in Key /\ request[q].version \in Runnable
      /\ request[q].id \in 1..ids[request[q].source] /\ KeyOf(q) = <<request[q].source, request[q].id>>
      /\ request[q].source \in Source
  <2>1. "registering" \in Writing
    BY DEF Writing
  <2>. QED BY <1>0, <2>1, Acting DEF Knows, OfItsRow
<1>. SUFFICES ASSUME NEW k \in Key PROVE FilesOf(k)'
  BY FilesInvNext
<1>2. request'[q] = Idle /\ \A x \in Request \ {q} : SameWork(x)
  BY <1>0, StopsFacts, StopsWork
<1>3. CASE KeyOf(q) # k
  <2>1. package'[k] = package[k] /\ partial'[k] = partial[k] /\ loaded'[k] = loaded[k]
    BY <1>0, <1>3 DEF TypeOK
  <2>. QED BY <1>0, <1>2, <1>3, <2>1, OtherKeys
<1>4. CASE KeyOf(q) = k
  <2>1. FilesOf(k) /\ loaded'[k] = request[q].version
    BY <1>0, <1>4, FilesInvIs DEF TypeOK
  <2>2. Installing(q, k)
    BY <1>0, <1>4 DEF Installing
  <2>3. \A x \in Request, file \in {"partial", "package"} : Fills(x, file, k) => Fills(x, file, k)'
    BY <1>0, <1>2 DEF Fills, At, KeyOf, SameWork
  <2>4. \A x \in Request : At(x, "deleting") /\ KeyOf(x) = k => (At(x, "deleting") /\ KeyOf(x) = k)'
    BY <1>0, <1>2 DEF At, KeyOf, SameWork
  <2>5. Torn' = Torn /\ Runnable' = Runnable
    BY DEF Torn, Runnable
  <2>6. ~(k[2] > ids'[k[1]])
    <3>1. k[1] = request[q].source /\ k[2] = request[q].id /\ ids[request[q].source] \in Nat
      BY <1>0, <1>1, <1>4, RegistryAssumption DEF TypeOK, Id
    <3>. QED BY <1>0, <1>1, <3>1
  <2>. QED BY <1>0, <1>1, <2>1, <2>2, <2>3, <2>4, <2>5, <2>6 DEF FilesOf
<1>. QED BY <1>3, <1>4

LEMMA UnloadFiles == ASSUME IInv, IInv', FilesInv, NEW q \in Request, Unload(q) PROVE FilesInv'
<1>0. /\ request[q].pc = "unloading" /\ TypeOK /\ TypeOK' /\ "unpacking" \in Pc
      /\ UNCHANGED <<row, ids, package, partial, faults>> /\ Goes(q, "unpacking")
      /\ loaded' = [loaded EXCEPT ![KeyOf(q)] = 0]
  BY DEF Unload, At, IInv, Pc
<1>. SUFFICES ASSUME NEW k \in Key PROVE FilesOf(k)'
  BY FilesInvNext
<1>1. request'[q].pc = "unpacking" /\ \A x \in Request \ {q} : SameWork(x)
  BY <1>0, GoesWork
<1>2. \A x \in Request : SameWork(x) \/ Passes(x, k)
  BY <1>0, <1>1 DEF Passes, At, Installing
<1>3. FilesOf(k) /\ loaded'[k] \in {0, loaded[k]} /\ ids[k[1]] <= ids'[k[1]]
  BY <1>0, FilesInvIs DEF TypeOK, Key, Id
<1>. QED BY <1>0, <1>2, <1>3, FilesStay

\* The one that takes the package is now about to take the row.
LEMMA UnpackFiles == ASSUME IInv, IInv', FilesInv, NEW q \in Request, Unpack(q) PROVE FilesInv'
<1>0. /\ request[q].pc = "unpacking" /\ TypeOK /\ TypeOK' /\ UNCHANGED <<row, ids, partial, loaded>>
      /\ request[q] \in RequestRow
  BY DEF Unpack, At, IInv, TypeOK, RequestRow
<1>1. CASE Fails(q)
  BY <1>0, <1>1, FailsFiles DEF Unpack, Fails, Fault, TypeOK
<1>2. CASE /\ package' = [package EXCEPT ![KeyOf(q)] = 0]
           /\ request' = [x \in Request |->
                            IF x = q THEN [request[q] EXCEPT !.pc = "deleting"]
                            ELSE IF KeyOf(x) = KeyOf(q) /\ request[x].file = "package"
                            THEN [request[x] EXCEPT !.file = "none"]
                            ELSE request[x]]
           /\ UNCHANGED <<settled, faults>>
  <2>. SUFFICES ASSUME NEW k \in Key PROVE FilesOf(k)'
    BY FilesInvNext
  <2>1. SameKey(q) /\ KeyOf(q)' = KeyOf(q) /\ request'[q].pc = "deleting"
    BY <1>0, <1>2 DEF RequestRow, KeyOf, SameKey
  <2>2. ASSUME NEW x \in Request \ {q}
        PROVE  \/ request'[x] = request[x]
               \/ /\ KeyOf(x) = KeyOf(q) /\ SameKey(x) /\ KeyOf(x)' = KeyOf(x) /\ request'[x].pc = request[x].pc
                  /\ request[x].file = "package"
    <3>1. CASE KeyOf(x) = KeyOf(q) /\ request[x].file = "package"
      <4>1. request[x] \in RequestRow /\ request'[x] = [request[x] EXCEPT !.file = "none"]
        BY <1>0, <1>2, <3>1 DEF TypeOK, RequestRow
      <4>. QED BY <3>1, <4>1 DEF RequestRow, KeyOf, SameKey
    <3>. QED BY <1>2, <3>1
  <2>3. CASE KeyOf(q) # k
    <3>1. package'[k] = package[k] /\ partial'[k] = partial[k] /\ loaded'[k] = loaded[k]
      BY <1>0, <1>2, <2>3 DEF TypeOK
    <3>. QED BY <1>0, <1>2, <2>1, <2>2, <2>3, <3>1, OtherKeys DEF SameWork
  <2>4. CASE KeyOf(q) = k
    <3>1. FilesOf(k) /\ package'[k] = 0 /\ Torn # 0
      BY <1>0, <1>2, <2>4, FilesInvIs, RegistryAssumption DEF TypeOK, Torn
    <3>2. (At(q, "deleting") /\ KeyOf(q) = k)'
      BY <2>1, <2>4 DEF At
    <3>3. ASSUME NEW x \in Request, Fills(x, "partial", k) PROVE Fills(x, "partial", k)'
      BY <1>0, <2>2, <3>3 DEF Fills, At, KeyOf
    <3>4. Torn' = Torn /\ Runnable' = Runnable
      BY DEF Torn, Runnable
    <3>. QED BY <1>0, <1>2, <3>1, <3>2, <3>3, <3>4 DEF FilesOf
  <2>. QED BY <2>3, <2>4
<1>. QED BY <1>1, <1>2 DEF Unpack

LEMMA DeleteFiles == ASSUME IInv, IInv', FilesInv, NEW q \in Request, Delete(q) PROVE FilesInv'
<1>0. /\ request[q].pc = "deleting" /\ TypeOK /\ TypeOK'
      /\ UNCHANGED <<ids, package, partial, loaded>>
  BY DEF Delete, At, IInv
<1>1. CASE Fails(q)
  BY <1>0, <1>1, FailsFiles
<1>2. CASE /\ row' = IF IsRow(q) THEN [row EXCEPT ![request[q].source] = NoRow] ELSE row
           /\ Stops(q) /\ UNCHANGED faults
  <2>. SUFFICES ASSUME NEW k \in Key PROVE FilesOf(k)'
    BY FilesInvNext
  <2>1. FilesOf(k) /\ k[1] \in Source /\ k[2] \in 1..MaxIds
    BY FilesInvIs DEF Key
  <2>2. request'[q].pc = "idle" /\ \A x \in Request \ {q} : SameWork(x)
    BY <1>2, StopsWork
  <2>3. row'[k[1]].id = k[2] => row[k[1]].id = k[2] /\ KeyOf(q) # k
    <3>1. row'[k[1]] \in {row[k[1]], NoRow} /\ NoRow.id = 0
      BY <1>0, <1>2, <2>1 DEF TypeOK, NoRow
    <3>2. KeyOf(q) = k => k[1] = request[q].source /\ k[2] = request[q].id
      BY DEF KeyOf
    <3>3. KeyOf(q) = k /\ IsRow(q) => row'[k[1]] = NoRow
      BY <1>0, <1>2, <2>1, <3>2 DEF TypeOK
    <3>4. KeyOf(q) = k /\ ~IsRow(q) => row'[k[1]].id # k[2]
      BY <1>2, <3>2 DEF IsRow
    <3>. QED BY <2>1, <3>1, <3>3, <3>4
  <2>4. \A x \in Request : SameWork(x) \/ Passes(x, k)
    BY <1>0, <2>2, <2>3 DEF Passes, At, Installing
  <2>5. ids[k[1]] <= ids'[k[1]]
    BY <1>0, <2>1 DEF TypeOK, Id
  <2>. QED BY <1>0, <1>2, <2>1, <2>3, <2>4, <2>5, FilesStay
<1>. QED BY <1>1, <1>2 DEF Delete, Settles

-----------------------------------------------------------------------------
LEMMA NextFiles == IInv /\ IInv' /\ FilesInv /\ [Next]_vars => FilesInv'
<1>. SUFFICES ASSUME IInv, IInv', FilesInv, [Next]_vars PROVE FilesInv'
  OBVIOUS
<1>1. CASE \E q \in Request : InstallStep(q)
  BY <1>1, CheckFiles, UpsertFiles, OpenFiles, FillFiles, RenameFiles, RegisterFiles DEF InstallStep
<1>2. CASE \E q \in Request : UninstallStep(q)
  BY <1>2, UnloadFiles, UnpackFiles, DeleteFiles DEF UninstallStep
<1>. QED BY <1>1, <1>2, OutsideFiles, BeginFiles, RestartFiles DEF Next

\* A module in memory finds all it imports when it is called, and while no step has failed, what runs
\* can be started again from the disk, however many installs and uninstalls of the source shared its
\* partial file, renamed each other's or took the package (install_bytes, PackageStore::write, uninstall).
THEOREM UsableStays == Spec => []UsableSurvives
<1>1. Init => FilesInv
  <2>. SUFFICES ASSUME Init, NEW k \in Key PROVE FilesOf(k)
    BY FilesInvIs
  <2>1. Torn # 0 /\ \A q \in Request : ~Installing(q, k)
    BY IdleType, RegistryAssumption DEF Init, Torn, Installing
  <2>. QED BY <2>1 DEF Init, FilesOf
<1>2. IInv /\ FilesInv => UsableSurvives
  <2>. SUFFICES ASSUME IInv, FilesInv, NEW s \in Source
                PROVE  /\ ids[s] # 0 /\ loaded[Last(s)] # 0 => Links(Contents[loaded[Last(s)]])
                       /\ faults = 0 /\ row[s].id # 0 /\ About(s) = {} /\ loaded[Last(s)] # 0
                            => package[Last(s)] \in 1..MaxVersion /\ Links(Contents[package[Last(s)]])
    BY DEF UsableSurvives
  <2>1. ids[s] # 0 => Last(s) \in Key /\ FilesOf(Last(s)) /\ Last(s)[1] = s /\ Last(s)[2] = ids[s]
    <3>1. ids[s] # 0 => ids[s] \in 1..MaxIds
      BY RegistryAssumption DEF IInv, TypeOK, Id
    <3>. QED BY <3>1, KeyType, FilesInvIs DEF Last
  <2>2. \A v \in Runnable : v \in 1..MaxVersion /\ Links(Contents[v])
    BY LoadsLinks DEF Runnable
  <2>3. ids[s] # 0 /\ loaded[Last(s)] # 0 => Links(Contents[loaded[Last(s)]])
    BY <2>1, <2>2 DEF FilesOf
  <2>4. ASSUME faults = 0, row[s].id # 0, About(s) = {}, loaded[Last(s)] # 0
        PROVE  package[Last(s)] \in Runnable
    <3>1. row[s].id = ids[s] /\ ids[s] # 0
      BY <2>4 DEF IInv
    <3>2. \A q \in Request : KeyOf(q) # Last(s)
      BY <2>4 DEF KeyOf, Last, About
    <3>. QED BY <2>1, <2>4, <3>1, <3>2 DEF FilesOf, Fills
  <2>. QED BY <2>2, <2>3, <2>4
<1>. QED BY <1>1, <1>2, NextFiles, RegistryInvariant, PTL DEF Spec
=============================================================================
