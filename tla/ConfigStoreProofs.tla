-------------------------- MODULE ConfigStoreProofs --------------------------
(***************************************************************************)
(* The configuration store, for any printers, requests and settings: its   *)
(* types, and that no writer of the file undoes what another one wrote.    *)
(*                                                                         *)
(* The reason is that Load strips a configuration for good: what it kept   *)
(* it keeps, in its order, so the next Load finds what Modify was given.   *)
(***************************************************************************)
EXTENDS ConfigStore, FiniteSetTheorems, SequenceTheorems, TLAPS

-----------------------------------------------------------------------------
(* Subsequences. *)

LEMMA RankBounds ==
  ASSUME NEW m \in Nat, NEW places \in SUBSET (1..m)
  PROVE  /\ IsFiniteSet(places) /\ Cardinality(places) \in Nat
         /\ \A i \in places : Rank(places, i) \in 1..Cardinality(places)
<1>1. IsFiniteSet(places) /\ Cardinality(places) \in Nat
  <2>1. IsFiniteSet(1..m)
    BY FS_Interval
  <2> QED
    BY <2>1, FS_Subset, FS_CardinalityType
<1>2. ASSUME NEW i \in places
      PROVE  Rank(places, i) \in 1..Cardinality(places)
  <2> DEFINE below == {j \in places : j <= i}
  <2>1. below \in SUBSET places /\ i \in below
    OBVIOUS
  <2>2. IsFiniteSet(below) /\ Cardinality(below) <= Cardinality(places)
    BY <1>1, <2>1, FS_Subset
  <2>3. Cardinality(below) \in Nat /\ Cardinality(below) # 0
    BY <2>1, <2>2, FS_CardinalityType, FS_EmptySet
  <2> QED
    BY <1>1, <2>2, <2>3 DEF Rank
<1> QED
  BY <1>1, <1>2

(* Later places have higher ranks. *)
LEMMA RankGrows ==
  ASSUME NEW m \in Nat, NEW places \in SUBSET (1..m),
         NEW i \in places, NEW j \in places, i < j
  PROVE  Rank(places, i) < Rank(places, j)
<1> DEFINE low == {k \in places : k <= i}
           high == {k \in places : k <= j}
<1>1. low \in SUBSET high /\ j \in high /\ j \notin low
  <2>1. \A k \in places : k \in Nat
    OBVIOUS
  <2>2. \A k \in places : k <= i => k <= j
    BY <2>1
  <2>3. ~(j <= i) /\ j <= j
    BY <2>1
  <2> QED
    BY <2>2, <2>3
<1>2. IsFiniteSet(high)
  <2>1. IsFiniteSet(places) /\ high \in SUBSET places
    BY RankBounds
  <2> QED
    BY <2>1, FS_Subset
<1>3. /\ Cardinality(low) <= Cardinality(high) /\ Cardinality(low) # Cardinality(high)
      /\ Cardinality(low) \in Nat /\ Cardinality(high) \in Nat
  BY <1>1, <1>2, FS_Subset, FS_CardinalityType
<1> QED
  BY <1>3 DEF Rank

(* Every place has its rank, and every rank one place. *)
LEMMA RankHasPlace ==
  ASSUME NEW m \in Nat, NEW places \in SUBSET (1..m), NEW n \in 1..Cardinality(places)
  PROVE  \E i \in places : Rank(places, i) = n
<1> DEFINE rank == [i \in places |-> Rank(places, i)]
           ranks == 1..Cardinality(places)
<1>1. IsFiniteSet(places) /\ Cardinality(places) \in Nat /\ rank \in [places -> ranks]
  BY RankBounds
<1>2. \A i, j \in places : rank[i] = rank[j] => i = j
  <2>1. ASSUME NEW i \in places, NEW j \in places, i < j
        PROVE  rank[i] # rank[j]
    <3>1. Rank(places, i) < Rank(places, j)
      BY <2>1, RankGrows
    <3>2. rank[i] \in Nat /\ rank[i] < rank[j]
      BY <1>1, <3>1
    <3> QED
      BY <1>1, <3>2
  <2>2. \A i, j \in places : i \in Nat /\ j \in Nat
    OBVIOUS
  <2> QED
    BY <2>1, <2>2
<1>3. rank \in Injection(places, ranks)
  BY <1>1, <1>2 DEF Injection, IsInjective
<1>4. IsFiniteSet(ranks) /\ Cardinality(ranks) = Cardinality(places)
  BY <1>1, FS_Interval
<1>5. rank \in Surjection(places, ranks)
  BY <1>1, <1>3, <1>4, FS_Injection
<1> QED
  BY <1>5 DEF Surjection

(* What ElementsAt returns. *)
LEMMA ElementsAtPlaces ==
  ASSUME NEW S, NEW seq \in Seq(S), NEW places \in SUBSET (DOMAIN seq)
  PROVE  /\ ElementsAt(seq, places) \in Seq(S)
         /\ \A n \in DOMAIN ElementsAt(seq, places) :
              \E i \in places : ElementsAt(seq, places)[n] = seq[i]
<1>1. /\ places \in SUBSET (1..Len(seq)) /\ Len(seq) \in Nat
      /\ \A i \in places : seq[i] \in S
  BY ElementOfSeq
<1>2. Cardinality(places) \in Nat
  BY <1>1, RankBounds
<1>3. \A n \in 1..Cardinality(places) :
        \E i \in places : ElementsAt(seq, places)[n] = seq[i]
  <2> SUFFICES ASSUME NEW n \in 1..Cardinality(places)
               PROVE  \E i \in places : ElementsAt(seq, places)[n] = seq[i]
    OBVIOUS
  <2>1. (CHOOSE i \in places : Rank(places, i) = n) \in places
    BY <1>1, RankHasPlace
  <2>2. ElementsAt(seq, places)[n] = seq[CHOOSE i \in places : Rank(places, i) = n]
    BY DEF ElementsAt
  <2> QED
    BY <2>1, <2>2
<1>4. DOMAIN ElementsAt(seq, places) = 1..Cardinality(places)
  BY DEF ElementsAt
<1>5. ElementsAt(seq, places) = [n \in 1..Cardinality(places) |-> ElementsAt(seq, places)[n]]
  BY DEF ElementsAt
<1>6. \A n \in 1..Cardinality(places) : ElementsAt(seq, places)[n] \in S
  BY <1>1, <1>3
<1>7. ElementsAt(seq, places) \in Seq(S)
  BY <1>2, <1>5, <1>6, IsASeq
<1> QED
  BY <1>3, <1>4, <1>7

(* Nothing is left out: the sequence itself. *)
LEMMA ElementsAtAll ==
  ASSUME NEW S, NEW seq \in Seq(S)
  PROVE  ElementsAt(seq, DOMAIN seq) = seq
<1> DEFINE m == Len(seq)
<1>1. m \in Nat /\ DOMAIN seq = 1..m /\ seq = [i \in 1..m |-> seq[i]]
  OBVIOUS
<1>2. Cardinality(1..m) = m
  BY <1>1, FS_Interval
<1>3. \A i \in 1..m : Rank(1..m, i) = i
  <2> SUFFICES ASSUME NEW i \in 1..m
               PROVE  Rank(1..m, i) = i
    OBVIOUS
  <2>1. {j \in 1..m : j <= i} = 1..i /\ i \in Nat /\ ~(1 > i)
    BY <1>1
  <2>2. Cardinality(1..i) = i
    BY <2>1, FS_Interval
  <2> QED
    BY <2>1, <2>2 DEF Rank
<1>4. \A n \in 1..m : (CHOOSE i \in 1..m : Rank(1..m, i) = n) = n
  BY <1>3
<1>5. ElementsAt(seq, 1..m) = [n \in 1..m |-> seq[n]]
  <2> DEFINE place(n) == CHOOSE i \in 1..m : Rank(1..m, i) = n
  <2>1. ElementsAt(seq, 1..m) = [n \in 1..m |-> seq[place(n)]]
    BY <1>2 DEF ElementsAt
  <2>2. \A n \in 1..m : place(n) = n
    BY <1>4
  <2> HIDE DEF place, m
  <2> QED
    BY <2>1, <2>2
<1> QED
  BY <1>1, <1>5

-----------------------------------------------------------------------------
(* Configurations. *)

Stripped(cfg) == \A i \in DOMAIN cfg.printers : cfg.printers[i].sn \notin Unsupported

(* Loading strips a configuration, and one that is stripped it keeps.      *)
LEMMA SupportedRows ==
  ASSUME NEW printers \in Seq(Row)
  PROVE  /\ Supported(printers) \in Seq(Row)
         /\ \A i \in DOMAIN Supported(printers) : Supported(printers)[i].sn \notin Unsupported
<1> DEFINE kept == {i \in DOMAIN printers : printers[i].sn \notin Unsupported}
<1>1. kept \in SUBSET (DOMAIN printers)
  OBVIOUS
<1>2. \A i \in kept : printers[i].sn \notin Unsupported
  OBVIOUS
<1>3. Supported(printers) = ElementsAt(printers, kept)
  BY DEF Supported
<1> HIDE DEF kept
<1>4. /\ ElementsAt(printers, kept) \in Seq(Row)
      /\ \A n \in DOMAIN ElementsAt(printers, kept) :
           \E i \in kept : ElementsAt(printers, kept)[n] = printers[i]
  BY <1>1, ElementsAtPlaces
<1> QED
  BY <1>2, <1>3, <1>4

LEMMA SupportedKeeps ==
  ASSUME NEW printers \in Seq(Row),
         \A i \in DOMAIN printers : printers[i].sn \notin Unsupported
  PROVE  Supported(printers) = printers
<1>1. {i \in DOMAIN printers : printers[i].sn \notin Unsupported} = DOMAIN printers
  OBVIOUS
<1> QED
  BY <1>1, ElementsAtAll DEF Supported

LEMMA LoadIsStripped ==
  ASSUME file \in Configs
  PROVE  Load \in Configs /\ Stripped(Load)
<1>1. file.printers \in Seq(Row)
  BY DEF Configs
<1>2. /\ Load = [file EXCEPT !.printers = Supported(file.printers)]
      /\ Load.printers = Supported(file.printers)
  BY DEF Load, Configs
<1> QED
  BY <1>1, <1>2, SupportedRows DEF Configs, Stripped

LEMMA LoadFindsWritten ==
  ASSUME NEW cfg \in Configs, Stripped(cfg), file' = cfg
  PROVE  Load' = cfg
<1>1. cfg.printers \in Seq(Row)
  BY DEF Configs
<1>2. Supported(cfg.printers) = cfg.printers
  BY <1>1, SupportedKeeps DEF Stripped
<1>3. Load' = [cfg EXCEPT !.printers = Supported(cfg.printers)]
  BY DEF Load
<1> QED
  BY <1>2, <1>3 DEF Configs

(* What the modifiers do to a configuration that was loaded.               *)
LEMMA WithAddressChanges ==
  ASSUME NEW cfg \in Configs, Stripped(cfg), NEW idx \in Nat, NEW ip \in SNs \union {NoSN}
  PROVE  LET new == WithAddress(cfg, idx, ip)
         IN  /\ new \in Configs /\ Stripped(new)
             /\ new = cfg \/ OneChange(cfg, new)
<1> DEFINE new == WithAddress(cfg, idx, ip)
           k   == idx + 1
           rows == [cfg.printers EXCEPT ![k] = [@ EXCEPT !.ip = ip]]
<1>1. CASE ~(idx < Len(cfg.printers))
  BY <1>1 DEF WithAddress
<1>2. CASE idx < Len(cfg.printers)
  <2>1. cfg.printers \in Seq(Row) /\ k \in DOMAIN cfg.printers
    BY <1>2 DEF Configs
  <2>2. cfg.printers[k] \in Row
    BY <2>1, ElementOfSeq
  <2>3. /\ [cfg.printers[k] EXCEPT !.ip = ip] \in Row
        /\ [cfg.printers[k] EXCEPT !.ip = ip].sn = cfg.printers[k].sn
    BY <2>2 DEF Row
  <2>4. /\ rows \in Seq(Row) /\ DOMAIN rows = DOMAIN cfg.printers
        /\ rows[k] = [cfg.printers[k] EXCEPT !.ip = ip]
        /\ \A i \in DOMAIN cfg.printers : i # k => rows[i] = cfg.printers[i]
    <3>1. rows[k] = [cfg.printers[k] EXCEPT !.ip = ip]
      BY <2>1
    <3>2. rows \in Seq(Row)
      BY <2>1, <2>3, ExceptSeq
    <3> QED
      BY <2>1, <3>1, <3>2
  <2>5. new = [cfg EXCEPT !.printers = rows]
    BY <1>2 DEF WithAddress
  <2>6. new \in Configs /\ new.printers = rows /\ new = [cfg EXCEPT !.printers = new.printers]
    BY <2>4, <2>5 DEF Configs
  <2>7. Stripped(new)
    BY <2>3, <2>4, <2>6 DEF Stripped
  <2>8. cfg.printers[k].sn \in SNs
    BY <2>2 DEF Row
  <2>9. MovesOnePrinter(cfg, new)
    <3> DEFINE sn == cfg.printers[k].sn
    <3>1. \A i \in DOMAIN cfg.printers :
            rows[i] \in {cfg.printers[i]} \union
              (IF cfg.printers[i].sn = sn THEN {[cfg.printers[i] EXCEPT !.ip = ip]} ELSE {})
      BY <2>4
    <3>2. sn \in SNs
      BY <2>8
    <3> HIDE DEF sn, rows, new
    <3> QED
      BY <2>4, <2>6, <3>1, <3>2 DEF MovesOnePrinter
  <2> QED
    BY <2>6, <2>7, <2>9 DEF OneChange
<1> QED
  BY <1>1, <1>2

LEMMA WithAddressOfChanges ==
  ASSUME NEW cfg \in Configs, Stripped(cfg), NEW sn \in SNs
  PROVE  LET new == WithAddressOf(cfg, sn)
         IN  /\ new \in Configs /\ Stripped(new)
             /\ OneChange(cfg, new)
<1> DEFINE new == WithAddressOf(cfg, sn)
           old == cfg.printers
           row(i) == IF old[i].sn = sn THEN [old[i] EXCEPT !.ip = sn] ELSE old[i]
           rows == [i \in DOMAIN old |-> row(i)]
<1>1. old \in Seq(Row) /\ DOMAIN old = 1..Len(old) /\ Len(old) \in Nat
  BY DEF Configs
<1>2. \A i \in DOMAIN old : old[i] \in Row
  BY <1>1, ElementOfSeq
<1>3. \A i \in DOMAIN old : row(i) \in Row /\ row(i).sn = old[i].sn
  BY <1>2 DEF Row
<1>4. rows \in Seq(Row) /\ DOMAIN rows = DOMAIN old
  BY <1>1, <1>3, IsASeq
<1>5. new = [cfg EXCEPT !.printers = rows]
  BY DEF WithAddressOf
<1>6. new \in Configs /\ new.printers = rows /\ new = [cfg EXCEPT !.printers = new.printers]
  BY <1>4, <1>5 DEF Configs
<1>7. Stripped(new)
  BY <1>3, <1>4, <1>6 DEF Stripped
<1>8. MovesOnePrinter(cfg, new)
  <2>1. \A i \in DOMAIN old :
          rows[i] \in {old[i]} \union
            (IF old[i].sn = sn THEN {[old[i] EXCEPT !.ip = sn]} ELSE {})
    OBVIOUS
  <2> HIDE DEF rows, new
  <2> QED
    BY <1>4, <1>6, <2>1 DEF MovesOnePrinter
<1> QED
  BY <1>6, <1>7, <1>8 DEF OneChange

LEMMA FieldChanges ==
  ASSUME NEW cfg \in Configs, Stripped(cfg)
  PROVE  /\ \A s \in Settings, v \in Values :
              LET new == [cfg EXCEPT !.prefs[s] = v]
              IN  new \in Configs /\ Stripped(new) /\ OneChange(cfg, new)
         /\ \A n \in Nat :
              LET new == [cfg EXCEPT !.active = n]
              IN  new \in Configs /\ Stripped(new) /\ OneChange(cfg, new)
<1>1. ASSUME NEW s \in Settings, NEW v \in Values
      PROVE  LET new == [cfg EXCEPT !.prefs[s] = v]
             IN  new \in Configs /\ Stripped(new) /\ OneChange(cfg, new)
  <2> DEFINE new == [cfg EXCEPT !.prefs[s] = v]
  <2>1. new \in Configs /\ new.printers = cfg.printers /\ new.prefs[s] = v
    BY DEF Configs
  <2> QED
    BY <2>1 DEF Stripped, OneChange
<1>2. ASSUME NEW n \in Nat
      PROVE  LET new == [cfg EXCEPT !.active = n]
             IN  new \in Configs /\ Stripped(new) /\ OneChange(cfg, new)
  <2> DEFINE new == [cfg EXCEPT !.active = n]
  <2>1. new \in Configs /\ new.printers = cfg.printers /\ new.active = n
    BY DEF Configs
  <2> QED
    BY <2>1 DEF Stripped, OneChange
<1> QED
  BY <1>1, <1>2

-----------------------------------------------------------------------------
(* The inductive invariant. *)

(* A request keeps a list of rows, and one that looks for the active       *)
(* printer keeps just that.                                                *)
RequestsOK ==
  /\ DOMAIN req = Requests
  /\ \A r \in Requests : /\ req[r].at \in RequestPoints
                         /\ req[r].list \in Seq(Row) /\ req[r].idx \in Nat
                         /\ req[r].at = "debug" => req[r].list # << >>

FileOK == file \in Configs \union {Absent, Torn}

StoreInv == ConfigTypeOK /\ RequestsOK

(* One step's effect on what is loaded. *)
KeepsUpdates == HasFile /\ HasFile' => Load' = Load \/ OneChange(Load, Load')

LEMMA EmptyIsConfig == Empty \in Configs /\ Plain \in [Settings -> Values]
<1>1. << >> \in Seq(Row)
  OBVIOUS
<1> QED
  BY <1>1 DEF Empty, Plain, Configs, Values

LEMMA ModifyKeeps ==
  ASSUME FileOK, NEW changed, Modify(changed),
         file \in Configs =>
           /\ changed \in Configs /\ Stripped(changed)
           /\ changed = Load \/ OneChange(Load, changed)
  PROVE  FileOK' /\ KeepsUpdates
<1>1. CASE file = Torn
  BY <1>1 DEF Modify, FileOK, KeepsUpdates, HasFile
<1>2. CASE file = Absent
  BY <1>2, EmptyIsConfig DEF Modify, FileOK, KeepsUpdates, HasFile
<1>3. CASE file \notin {Absent, Torn}
  <2>1. file' = changed /\ file \in Configs
    BY <1>3 DEF Modify, FileOK
  <2>2. Load' = changed
    BY <2>1, LoadFindsWritten
  <2> QED
    BY <2>1, <2>2 DEF FileOK, KeepsUpdates
<1> QED
  BY <1>1, <1>2, <1>3

(* The address of a row, by its index. *)
LEMMA AddressKeeps ==
  ASSUME FileOK, NEW idx \in Nat, NEW ip \in SNs \union {NoSN},
         Modify(WithAddress(Load, idx, ip))
  PROVE  FileOK' /\ KeepsUpdates
BY ModifyKeeps, LoadIsStripped, WithAddressChanges

LEMMA SerialIsType ==
  ASSUME FileOK, NEW idx \in Nat
  PROVE  SerialAt(idx) \in SNs \union {NoSN}
<1>1. CASE HasFile /\ idx < Len(Load.printers)
  <2>1. Load.printers \in Seq(Row) /\ idx + 1 \in 1..Len(Load.printers)
    BY <1>1, LoadIsStripped DEF FileOK, HasFile, Configs
  <2>2. Load.printers[idx + 1] \in Row
    BY <2>1, ElementOfSeq
  <2>3. Load.printers[idx + 1].sn \in SNs
    BY <2>2 DEF Row
  <2> QED
    BY <2>3 DEF SerialAt
<1>2. CASE ~(HasFile /\ idx < Len(Load.printers))
  BY <1>2 DEF SerialAt
<1> QED
  BY <1>1, <1>2

LEMMA RowsHaveSerials ==
  ASSUME NEW list \in Seq(Row)
  PROVE  \A i \in DOMAIN list : list[i].sn \in SNs /\ list[i].ip \in SNs \union {NoSN}
<1>1. \A i \in DOMAIN list : list[i] \in Row
  BY ElementOfSeq
<1> QED
  BY <1>1 DEF Row

LEMMA ActiveIndexIsNat ==
  ASSUME NEW cfg \in Configs
  PROVE  ActiveIndex(cfg) \in Nat
BY DEF ActiveIndex, Configs

(* The lists of the cloud, with an address for each serial number.         *)
LEMMA CloudRows ==
  ASSUME NEW list \in CloudLists, NEW address \in [DOMAIN list -> SNs \union {NoSN}]
  PROVE  /\ \A i \in DOMAIN list : list[i] \in SNs
         /\ [i \in DOMAIN list |-> [sn |-> list[i], ip |-> address[i]]] \in Seq(Row)
<1>1. list \in Seq(SNs) /\ Len(list) \in Nat /\ DOMAIN list = 1..Len(list)
  BY ConfigAssumption
<1>2. \A i \in 1..Len(list) : list[i] \in SNs
  BY <1>1, ElementOfSeq
<1>3. \A i \in 1..Len(list) : [sn |-> list[i], ip |-> address[i]] \in Row
  BY <1>1, <1>2 DEF Row
<1>4. [i \in 1..Len(list) |-> [sn |-> list[i], ip |-> address[i]]] \in Seq(Row)
  BY <1>1, <1>3
<1> QED
  BY <1>1, <1>2, <1>4

LEMMA IdleWith ==
  ASSUME NEW at, NEW list, NEW idx
  PROVE  /\ [Idle(at) EXCEPT !.list = list] = [at |-> at, list |-> list, idx |-> 0]
         /\ [Idle(at) EXCEPT !.idx = idx] = [at |-> at, list |-> << >>, idx |-> idx]
BY DEF Idle

(* What each step does to the file. *)
LEMMA FileStep ==
  ASSUME StoreInv, [ConfigNext]_configVars
  PROVE  FileOK' /\ (Imports \/ KeepsUpdates)
<1>1. /\ FileOK /\ RequestsOK
      /\ repair.idx \in Nat /\ repair.sn \in SNs \union {NoSN}
      /\ attached \in SNs \union {NoSN} /\ printerIdx \in Nat
  BY DEF StoreInv, ConfigTypeOK, FileOK
<1>2. ASSUME UNCHANGED file
      PROVE  FileOK' /\ KeepsUpdates
  BY <1>1, <1>2 DEF FileOK, KeepsUpdates, Load
<1>3. CASE Boot \/ ServiceStarts \/ ServiceConnects \/ ServiceLosesPrinter
           \/ UNCHANGED configVars
  BY <1>2, <1>3 DEF Boot, ServiceStarts, ServiceConnects, ServiceLosesPrinter, configVars
<1>4. CASE Crash
  <2>1. CASE file' = Torn
    BY <2>1 DEF FileOK, KeepsUpdates, HasFile
  <2> QED
    BY <1>2, <1>4, <2>1 DEF Crash
<1>5. CASE RepairEnds
  BY <1>1, <1>2, <1>5, AddressKeeps DEF RepairEnds
<1>6. CASE persistPrinterIP
  BY <1>1, <1>6, AddressKeeps DEF persistPrinterIP
<1>7. CASE ConfigUpload
  <2>1. PICK list \in CloudLists, active \in 0..1,
             prefs \in {Plain, [Plain EXCEPT !["ha"] = "chosen"]} :
          file' = [account |-> TRUE,
                   printers |-> [i \in DOMAIN list |-> [sn |-> list[i], ip |-> NoSN]],
                   active |-> active, prefs |-> prefs]
    BY <1>7 DEF ConfigUpload
  <2>2. prefs \in [Settings -> Values]
    BY EmptyIsConfig DEF Values, Plain
  <2>3. [i \in DOMAIN list |-> [sn |-> list[i], ip |-> NoSN]] \in Seq(Row)
    <3>1. [i \in DOMAIN list |-> NoSN] \in [DOMAIN list -> SNs \union {NoSN}]
      OBVIOUS
    <3>2. [i \in DOMAIN list |-> [sn |-> list[i], ip |-> [j \in DOMAIN list |-> NoSN][i]]]
            \in Seq(Row)
      BY <3>1, CloudRows
    <3> QED
      BY <3>2
  <2>4. file' \in Configs
    BY <2>1, <2>2, <2>3 DEF Configs
  <2> QED
    BY <1>7, <2>4 DEF FileOK, Imports
<1>8. ASSUME NEW sn \in SNs, DiscoveryEnds(sn)
      PROVE  FileOK' /\ KeepsUpdates
  <2>1. CASE Modify(WithAddressOf(Load, sn))
    BY <1>1, <2>1, ModifyKeeps, LoadIsStripped, WithAddressOfChanges
  <2> QED
    BY <1>2, <1>8, <2>1 DEF DiscoveryEnds
<1>9. ASSUME NEW s \in Settings, SaveSetting(s)
      PROVE  FileOK' /\ KeepsUpdates
  <2>1. PICK v \in Values : Modify([Load EXCEPT !.prefs[s] = v])
    BY <1>9 DEF SaveSetting
  <2> QED
    BY <1>1, <2>1, ModifyKeeps, LoadIsStripped, FieldChanges
<1>10. ASSUME NEW r \in Requests,
              LoginReads(r) \/ SwitchChecks(r) \/ SearchBegins(r) \/ DebugBegins(r)
                \/ Reloads(r) \/ RestartAll(r)
       PROVE  FileOK' /\ KeepsUpdates
  BY <1>2, <1>10 DEF LoginReads, SwitchChecks, SearchBegins, DebugBegins, Reloads, RestartAll
<1>11. ASSUME NEW r \in Requests, LogoutDeletes(r)
       PROVE  FileOK' /\ KeepsUpdates
  BY <1>11 DEF LogoutDeletes, FileOK, KeepsUpdates, HasFile
<1>12. ASSUME NEW r \in Requests, LoginSaves(r)
       PROVE  FileOK'
  <2>1. file' = [Empty EXCEPT !.account = TRUE, !.printers = req[r].list]
    BY <1>12 DEF LoginSaves
  <2>2. req[r].list \in Seq(Row)
    BY <1>1 DEF RequestsOK
  <2>3. file' \in Configs
    BY <2>1, <2>2, EmptyIsConfig DEF Configs
  <2> QED
    BY <2>3 DEF FileOK
<1>13. ASSUME NEW r \in Requests, SwitchSaves(r)
       PROVE  FileOK' /\ KeepsUpdates
  <2>1. Modify([Load EXCEPT !.active = req[r].idx]) /\ req[r].idx \in Nat
    BY <1>1, <1>13 DEF SwitchSaves, RequestsOK
  <2> QED
    BY <1>1, <2>1, ModifyKeeps, LoadIsStripped, FieldChanges
<1>14. ASSUME NEW r \in Requests, SearchPersists(r)
       PROVE  FileOK' /\ KeepsUpdates
  <2>1. ASSUME NEW i \in DOMAIN req[r].list,
               Modify(WithAddress(Load, i - 1, req[r].list[i].sn))
        PROVE  FileOK' /\ KeepsUpdates
    <3>1. req[r].list \in Seq(Row)
      BY <1>1 DEF RequestsOK
    <3>2. req[r].list[i].sn \in SNs /\ i - 1 \in Nat
      BY <3>1, RowsHaveSerials
    <3> QED
      BY <1>1, <2>1, <3>2, AddressKeeps
  <2> QED
    BY <1>2, <1>14, <2>1 DEF SearchPersists
<1>15. ASSUME NEW r \in Requests, DebugPersists(r)
       PROVE  FileOK' /\ KeepsUpdates
  <2>1. CASE UNCHANGED file
    BY <1>2, <2>1
  <2>2. CASE Modify(WithAddress(Load, ActiveIndex(Load), req[r].list[1].sn))
    <3>1. req[r].list \in Seq(Row) /\ 1 \in DOMAIN req[r].list
      BY <1>1, <1>15 DEF RequestsOK, DebugPersists
    <3>2. req[r].list[1].sn \in SNs
      BY <3>1, RowsHaveSerials
    <3>3. file \in Configs => WithAddress(Load, ActiveIndex(Load), req[r].list[1].sn) \in Configs
                              /\ ActiveIndex(Load) \in Nat
      BY <3>2, LoadIsStripped, ActiveIndexIsNat, WithAddressChanges
    <3> QED
      BY <1>1, <2>2, <3>2, <3>3, ModifyKeeps, LoadIsStripped, WithAddressChanges
  <2> QED
    BY <1>15, <2>1, <2>2 DEF DebugPersists
<1> QED
  BY <1>3, <1>4, <1>5, <1>6, <1>7, <1>8, <1>9, <1>10, <1>11, <1>12, <1>13, <1>14, <1>15
     DEF ConfigNext, Proceeds, Imports

(* What each step does to the requests. *)
LEMMA RequestsStep ==
  ASSUME StoreInv, [ConfigNext]_configVars
  PROVE  RequestsOK'
<1>1. RequestsOK /\ FileOK /\ ipCache \in [SNs -> SNs \union {NoSN}]
  BY DEF StoreInv, ConfigTypeOK, FileOK
<1>2. ASSUME UNCHANGED req
      PROVE  RequestsOK'
  BY <1>1, <1>2 DEF RequestsOK
<1>3. ASSUME NEW r \in Requests, NEW at \in RequestPoints, NEW list \in Seq(Row), NEW idx \in Nat,
             at = "debug" => list # << >>,
             req' = [req EXCEPT ![r] = [at |-> at, list |-> list, idx |-> idx]]
      PROVE  RequestsOK'
  BY <1>1, <1>3 DEF RequestsOK
<1>4. << >> \in Seq(Row) /\ 0 \in Nat
  OBVIOUS
<1>5. ASSUME NEW r \in Requests, NEW at \in RequestPoints \ {"debug"},
             req' = [req EXCEPT ![r] = Idle(at)]
      PROVE  RequestsOK'
  BY <1>3, <1>4, <1>5 DEF Idle
<1>6. ASSUME NEW r \in Requests, LoginReads(r)
      PROVE  RequestsOK'
  <2> DEFINE known(sn) == {i \in (IF HasFile THEN DOMAIN Load.printers ELSE {}) :
                             Load.printers[i].sn = sn /\ Load.printers[i].ip # NoSN}
  <2>1. PICK list \in CloudLists, told \in SUBSET SNs :
          req' = [req EXCEPT ![r] =
             [Idle("save") EXCEPT !.list =
                [i \in DOMAIN list |->
                   [sn |-> list[i],
                    ip |-> IF list[i] \in told THEN list[i]
                           ELSE IF known(list[i]) = {} THEN ipCache[list[i]]
                           ELSE Load.printers[CHOOSE k \in known(list[i]) : TRUE].ip]]]]
    BY <1>6 DEF LoginReads
  <2> DEFINE address(sn) == IF sn \in told THEN sn
                            ELSE IF known(sn) = {} THEN ipCache[sn]
                            ELSE Load.printers[CHOOSE k \in known(sn) : TRUE].ip
             rows == [i \in DOMAIN list |-> [sn |-> list[i], ip |-> address(list[i])]]
  <2>2. \A sn \in SNs : address(sn) \in SNs \union {NoSN}
    <3>1. \A sn : \A k \in known(sn) : HasFile /\ k \in DOMAIN Load.printers
      OBVIOUS
    <3>2. HasFile => \A k \in DOMAIN Load.printers : Load.printers[k].ip \in SNs \union {NoSN}
      BY <1>1, LoadIsStripped, RowsHaveSerials DEF FileOK, HasFile, Configs
    <3>3. \A sn : known(sn) # {} => (CHOOSE k \in known(sn) : TRUE) \in known(sn)
      OBVIOUS
    <3>4. \A sn \in SNs : ipCache[sn] \in SNs \union {NoSN}
      BY <1>1
    <3> HIDE DEF known
    <3> QED
      BY <3>1, <3>2, <3>3, <3>4
  <2> HIDE DEF address
  <2>3. rows \in Seq(Row)
    <3> DEFINE ips == [i \in DOMAIN list |-> address(list[i])]
    <3>1. \A i \in DOMAIN list : list[i] \in SNs
      <4>1. [i \in DOMAIN list |-> NoSN] \in [DOMAIN list -> SNs \union {NoSN}]
        OBVIOUS
      <4> QED
        BY <4>1, CloudRows
    <3>2. ips \in [DOMAIN list -> SNs \union {NoSN}]
      BY <2>2, <3>1
    <3>3. [i \in DOMAIN list |-> [sn |-> list[i], ip |-> ips[i]]] \in Seq(Row)
      BY <3>2, CloudRows
    <3> QED
      BY <3>3
  <2>4. req' = [req EXCEPT ![r] = [at |-> "save", list |-> rows, idx |-> 0]]
    <3>1. req' = [req EXCEPT ![r] = [Idle("save") EXCEPT !.list = rows]]
      BY <2>1 DEF address
    <3> HIDE DEF rows
    <3> QED
      BY <3>1, IdleWith
  <2> HIDE DEF rows
  <2> QED
    BY <1>3, <2>3, <2>4 DEF RequestPoints
<1>7. ASSUME NEW r \in Requests,
             LoginSaves(r) \/ LogoutDeletes(r) \/ Reloads(r) \/ RestartAll(r) \/ SwitchSaves(r)
               \/ DebugPersists(r)
      PROVE  RequestsOK'
  <2>1. PICK at \in {"reload", "done", "restart"} : req' = [req EXCEPT ![r] = Idle(at)]
    BY <1>7 DEF LoginSaves, LogoutDeletes, Reloads, RestartAll, SwitchSaves, DebugPersists
  <2> QED
    BY <1>5, <2>1 DEF RequestPoints
<1>8. ASSUME NEW r \in Requests, SearchPersists(r)
      PROVE  RequestsOK'
  BY <1>2, <1>5, <1>8 DEF SearchPersists, RequestPoints
<1>9. ASSUME NEW r \in Requests, SwitchChecks(r)
      PROVE  RequestsOK'
  <2>1. PICK idx \in 0..(Len(Load.printers) - 1) :
          req' = [req EXCEPT ![r] = [at |-> "switch", list |-> << >>, idx |-> idx]]
    BY <1>9, IdleWith DEF SwitchChecks
  <2>2. Load.printers \in Seq(Row)
    BY <1>1, <1>9, LoadIsStripped DEF SwitchChecks, FileOK, HasFile, Configs
  <2>3. idx \in Nat
    BY <2>2
  <2> QED
    BY <1>3, <1>4, <2>1, <2>3 DEF RequestPoints
<1>10. ASSUME NEW printers \in Seq(Row)
       PROVE  Unplaced(printers) \in Seq(Row)
  <2>1. \A i \in DOMAIN printers : printers[i] \in Row
    BY ElementOfSeq
  <2>2. \A i \in DOMAIN printers : [printers[i] EXCEPT !.ip = NoSN] \in Row
    BY <2>1 DEF Row
  <2>3. DOMAIN printers = 1..Len(printers) /\ Len(printers) \in Nat
    OBVIOUS
  <2> QED
    BY <2>2, <2>3 DEF Unplaced
<1>11. ASSUME NEW r \in Requests, SearchBegins(r)
       PROVE  RequestsOK'
  <2>1. Load.printers \in Seq(Row)
    BY <1>1, <1>11, LoadIsStripped DEF SearchBegins, FileOK, HasFile, Configs
  <2>2. req' = [req EXCEPT ![r] = [at |-> "lan", list |-> Unplaced(Load.printers), idx |-> 0]]
    BY <1>11, IdleWith DEF SearchBegins
  <2> QED
    BY <1>3, <1>10, <2>1, <2>2 DEF RequestPoints
<1>12. ASSUME NEW r \in Requests, DebugBegins(r)
       PROVE  RequestsOK'
  <2> DEFINE active == <<Load.printers[ActiveIndex(Load) + 1]>>
  <2>1. Load \in Configs /\ Load.printers \in Seq(Row) /\ Load.printers # << >>
    BY <1>1, <1>12, LoadIsStripped DEF DebugBegins, FileOK, HasFile, Configs
  <2>2. ActiveIndex(Load) + 1 \in 1..Len(Load.printers)
    BY <2>1, ActiveIndexIsNat DEF ActiveIndex
  <2>3. active \in Seq(Row) /\ Len(active) = 1
    BY <2>1, <2>2, ElementOfSeq
  <2>4. Unplaced(active) \in Seq(Row) /\ Unplaced(active) # << >>
    <3>1. Unplaced(active) \in Seq(Row)
      BY <1>10, <2>3
    <3>2. DOMAIN Unplaced(active) = DOMAIN active /\ 1 \in DOMAIN active
      BY <2>3 DEF Unplaced
    <3>3. 1 \notin DOMAIN << >>
      OBVIOUS
    <3> HIDE DEF active
    <3> QED
      BY <3>1, <3>2, <3>3
  <2>5. req' = [req EXCEPT ![r] = [at |-> "debug", list |-> Unplaced(active), idx |-> 0]]
    BY <1>12, IdleWith DEF DebugBegins
  <2> HIDE DEF active
  <2> QED
    BY <1>3, <2>4, <2>5 DEF RequestPoints
<1>13. CASE Crash
  BY <1>1, <1>4, <1>13 DEF Crash, RequestsOK, Idle, RequestPoints
<1>14. CASE \/ Boot \/ RepairEnds \/ ServiceStarts \/ ServiceConnects
            \/ ServiceLosesPrinter \/ persistPrinterIP \/ ConfigUpload \/ \E sn \in SNs : DiscoveryEnds(sn)
            \/ \E s \in Settings : SaveSetting(s)
            \/ UNCHANGED configVars
  BY <1>2, <1>14 DEF Boot, RepairEnds, ServiceStarts, ServiceConnects, ServiceLosesPrinter,
                     persistPrinterIP, ConfigUpload, DiscoveryEnds, SaveSetting, configVars
<1> QED
  BY <1>6, <1>7, <1>8, <1>9, <1>11, <1>12, <1>13, <1>14 DEF ConfigNext, Proceeds

(* The other variables. *)
LEMMA CacheStep ==
  ASSUME StoreInv, [ConfigNext]_configVars
  PROVE  ipCache' \in [SNs -> SNs \union {NoSN}]
<1>1. /\ RequestsOK /\ FileOK /\ ipCache \in [SNs -> SNs \union {NoSN}]
      /\ repair.sn \in SNs \union {NoSN} /\ attached \in SNs \union {NoSN} /\ printerIdx \in Nat
  BY DEF StoreInv, ConfigTypeOK, FileOK
<1>2. CASE UNCHANGED ipCache
  BY <1>1, <1>2
<1>3. ASSUME NEW sn \in SNs \union {NoSN}, NEW ip \in SNs \union {NoSN}, ipCache' = Cached(sn, ip)
      PROVE  ipCache' \in [SNs -> SNs \union {NoSN}]
  BY <1>1, <1>3 DEF Cached
<1>4. CASE RepairEnds
  BY <1>1, <1>2, <1>3, <1>4 DEF RepairEnds
<1>5. CASE persistPrinterIP
  BY <1>1, <1>3, <1>5, SerialIsType DEF persistPrinterIP
<1>6. ASSUME NEW sn \in SNs, DiscoveryEnds(sn)
      PROVE  ipCache' \in [SNs -> SNs \union {NoSN}]
  BY <1>2, <1>3, <1>6 DEF DiscoveryEnds
<1>7. ASSUME NEW r \in Requests, LoginReads(r)
      PROVE  ipCache' \in [SNs -> SNs \union {NoSN}]
  <2> DEFINE known(sn) == {i \in (IF HasFile THEN DOMAIN Load.printers ELSE {}) :
                             Load.printers[i].sn = sn /\ Load.printers[i].ip # NoSN}
  <2>1. PICK list \in CloudLists, told \in SUBSET SNs :
          ipCache' = [sn \in SNs |->
             IF sn \in Range(list)
             THEN IF sn \in told THEN sn
                  ELSE IF known(sn) = {} THEN ipCache[sn]
                  ELSE Load.printers[CHOOSE k \in known(sn) : TRUE].ip
             ELSE ipCache[sn]]
    BY <1>7 DEF LoginReads
  <2>2. \A sn : \A k \in known(sn) : HasFile /\ k \in DOMAIN Load.printers
    OBVIOUS
  <2>3. HasFile => \A k \in DOMAIN Load.printers : Load.printers[k].ip \in SNs \union {NoSN}
    BY <1>1, LoadIsStripped, RowsHaveSerials DEF FileOK, HasFile, Configs
  <2>4. \A sn : known(sn) # {} => (CHOOSE k \in known(sn) : TRUE) \in known(sn)
    OBVIOUS
  <2> HIDE DEF known
  <2> QED
    BY <1>1, <2>1, <2>2, <2>3, <2>4
<1>8. ASSUME NEW r \in Requests, SearchPersists(r)
      PROVE  ipCache' \in [SNs -> SNs \union {NoSN}]
  <2>1. req[r].list \in Seq(Row)
    BY <1>1 DEF RequestsOK
  <2> QED
    BY <1>2, <1>3, <1>8, <2>1, RowsHaveSerials DEF SearchPersists
<1>9. ASSUME NEW r \in Requests, DebugPersists(r)
      PROVE  ipCache' \in [SNs -> SNs \union {NoSN}]
  <2>1. req[r].list \in Seq(Row) /\ 1 \in DOMAIN req[r].list
    BY <1>1, <1>9 DEF RequestsOK, DebugPersists
  <2>2. req[r].list[1].sn \in SNs
    BY <2>1, RowsHaveSerials
  <2> QED
    BY <1>2, <1>3, <1>9, <2>2 DEF DebugPersists
<1>10. CASE \/ Boot \/ Crash \/ ServiceStarts \/ ServiceConnects \/ ServiceLosesPrinter
            \/ ConfigUpload \/ \E s \in Settings : SaveSetting(s)
            \/ UNCHANGED configVars
  BY <1>2, <1>10 DEF Boot, Crash, ServiceStarts, ServiceConnects, ServiceLosesPrinter,
                     ConfigUpload, SaveSetting, configVars
<1>11. ASSUME NEW r \in Requests,
              LogoutDeletes(r) \/ SwitchChecks(r) \/ SearchBegins(r) \/ DebugBegins(r)
                \/ LoginSaves(r) \/ Reloads(r) \/ RestartAll(r) \/ SwitchSaves(r)
       PROVE  ipCache' \in [SNs -> SNs \union {NoSN}]
  BY <1>2, <1>11 DEF LogoutDeletes, SwitchChecks, SearchBegins, DebugBegins, LoginSaves,
                     Reloads, RestartAll, SwitchSaves
<1> QED
  BY <1>4, <1>5, <1>6, <1>7, <1>8, <1>9, <1>10, <1>11 DEF ConfigNext, Proceeds

ServicesOK ==
  /\ up \in BOOLEAN /\ boots \in 0..MaxBoots /\ printerIdx \in Nat
  /\ loaded \in SNs \union {NoSN} /\ attached \in SNs \union {NoSN}
  /\ fresh \in BOOLEAN /\ missed \in BOOLEAN
  /\ ha \in {"none", "idle", "started"}
  /\ login \in BOOLEAN
  /\ discovering \subseteq SNs
  /\ repair \in [idx : Nat, sn : SNs \union {NoSN}]

LEMMA ServicesStep ==
  ASSUME StoreInv, [ConfigNext]_configVars
  PROVE  ServicesOK'
<1>1. /\ RequestsOK /\ FileOK /\ ServicesOK
  BY DEF StoreInv, ConfigTypeOK, FileOK, ServicesOK
<1>2. IsConfigured \in BOOLEAN
  BY <1>1, LoadIsStripped DEF IsConfigured, FileOK, HasFile, Configs
<1>3. NoRepair \in [idx : Nat, sn : SNs \union {NoSN}]
  BY DEF NoRepair
<1> USE DEF ServicesOK, serviceVars, sessionVars, Detached
<1>4. CASE Boot
  <2>1. boots' \in 0..MaxBoots
    BY <1>1, <1>4, ConfigAssumption DEF Boot
  <2>2. HasFile => Load \in Configs /\ Load.active \in Nat /\ Load.printers \in Seq(Row)
    BY <1>1, LoadIsStripped DEF FileOK, HasFile, Configs
  <2>3. printerIdx' \in Nat
    BY <1>4, <2>2 DEF Boot
  <2>4. repair' \in [idx : Nat, sn : SNs \union {NoSN}]
    <3> DEFINE idx == IF HasFile THEN Load.active ELSE 0
    <3>1. CASE repair' = NoRepair
      BY <1>3, <3>1
    <3>2. CASE repair' # NoRepair
      <4>1. /\ IsConfigured /\ idx < Len(Load.printers)
            /\ repair' = [idx |-> idx, sn |-> Load.printers[idx + 1].sn]
        BY <1>4, <3>2 DEF Boot
      <4>2. HasFile
        BY <4>1 DEF IsConfigured
      <4>3. idx \in Nat /\ idx + 1 \in DOMAIN Load.printers
        BY <2>2, <4>1, <4>2
      <4>4. Load.printers[idx + 1].sn \in SNs
        BY <2>2, <4>2, <4>3, RowsHaveSerials
      <4> QED
        BY <4>1, <4>3, <4>4
    <3> QED
      BY <3>1, <3>2
  <2>5. /\ ha' \in {"none", "idle", "started"} /\ discovering' = discovering
        /\ loaded' = NoSN /\ attached' = NoSN
    BY <1>4 DEF Boot
  <2>6. login' \in BOOLEAN
    BY <1>2, <1>4 DEF Boot
  <2>7. up' \in BOOLEAN /\ fresh' \in BOOLEAN /\ missed' \in BOOLEAN
    BY <1>4 DEF Boot
  <2> QED
    BY <1>1, <2>1, <2>3, <2>4, <2>5, <2>6, <2>7
<1>5. CASE Crash \/ RepairEnds
  BY <1>1, <1>3, <1>5 DEF Crash, RepairEnds
<1>6. CASE ServiceStarts \/ ServiceConnects
  BY <1>1, <1>6, SerialIsType DEF ServiceStarts, ServiceConnects
<1>7. CASE ServiceLosesPrinter \/ persistPrinterIP
  BY <1>1, <1>7 DEF ServiceLosesPrinter, persistPrinterIP
<1>8. CASE ConfigUpload
  <2>1. PICK list \in CloudLists : discovering' = discovering \union Range(list)
    BY <1>8 DEF ConfigUpload
  <2>2. Range(list) \subseteq SNs
    <3>1. [i \in DOMAIN list |-> NoSN] \in [DOMAIN list -> SNs \union {NoSN}]
      OBVIOUS
    <3>2. \A i \in DOMAIN list : list[i] \in SNs
      BY <3>1, CloudRows
    <3> QED
      BY <3>2 DEF Range
  <2>3. discovering' \subseteq SNs
    BY <1>1, <2>1, <2>2
  <2> QED
    BY <1>1, <1>8, <2>3 DEF ConfigUpload
<1>9. ASSUME NEW sn \in SNs, DiscoveryEnds(sn)
      PROVE  ServicesOK'
  BY <1>1, <1>9 DEF DiscoveryEnds
<1>10. ASSUME NEW s \in Settings, SaveSetting(s)
       PROVE  ServicesOK'
  BY <1>1, <1>10 DEF SaveSetting, Configured
<1>11. ASSUME NEW r \in Requests, LoginSaves(r)
       PROVE  ServicesOK'
  <2>1. discovering' \subseteq SNs
    <3>1. req[r].list \in Seq(Row)
      BY <1>1 DEF RequestsOK
    <3>2. SerialsOf(req[r].list) \subseteq SNs
      BY <3>1, RowsHaveSerials DEF SerialsOf
    <3> QED
      BY <1>1, <1>11, <3>2 DEF LoginSaves
  <2> QED
    BY <1>1, <1>11, <2>1 DEF LoginSaves
<1>12. ASSUME NEW r \in Requests, Reloads(r)
       PROVE  ServicesOK'
  BY <1>1, <1>2, <1>12 DEF Reloads
<1>13. ASSUME NEW r \in Requests, RestartAll(r)
       PROVE  ServicesOK'
  BY <1>1, <1>13 DEF RestartAll, Restarted
<1>14. ASSUME NEW r \in Requests,
              LoginReads(r) \/ LogoutDeletes(r) \/ SwitchChecks(r) \/ SearchBegins(r)
                \/ DebugBegins(r) \/ SwitchSaves(r) \/ SearchPersists(r) \/ DebugPersists(r)
       PROVE  ServicesOK'
  BY <1>1, <1>14 DEF LoginReads, LogoutDeletes, SwitchChecks, SearchBegins, DebugBegins,
                     SwitchSaves, SearchPersists, DebugPersists
<1>15. CASE UNCHANGED configVars
  BY <1>1, <1>15 DEF configVars, serviceVars
<1> QED
  BY <1>4, <1>5, <1>6, <1>7, <1>8, <1>9, <1>10, <1>11, <1>12, <1>13, <1>14, <1>15
     DEF ConfigNext, Proceeds

LEMMA StoreInvStep == StoreInv /\ [ConfigNext]_configVars => StoreInv'
<1> SUFFICES ASSUME StoreInv, [ConfigNext]_configVars
             PROVE  StoreInv'
  OBVIOUS
<1> QED
  BY FileStep, RequestsStep, CacheStep, ServicesStep
     DEF StoreInv, ConfigTypeOK, FileOK, RequestsOK, ServicesOK

LEMMA StoreInvInit == ConfigInit => StoreInv
<1> SUFFICES ASSUME ConfigInit
             PROVE  StoreInv
  OBVIOUS
<1>1. FileOK
  <2>1. CASE file = Absent
    BY <2>1 DEF FileOK
  <2>2. CASE file # Absent
    <3>1. PICK list \in CloudLists :
            file = [account |-> TRUE,
                    printers |-> [i \in DOMAIN list |-> [sn |-> list[i], ip |-> NoSN]],
                    active |-> 0, prefs |-> [Plain EXCEPT !["ha"] = "chosen"]]
      BY <2>2 DEF ConfigInit
    <3>2. [i \in DOMAIN list |-> [sn |-> list[i], ip |-> NoSN]] \in Seq(Row)
      <4>1. [i \in DOMAIN list |-> NoSN] \in [DOMAIN list -> SNs \union {NoSN}]
        OBVIOUS
      <4>2. [i \in DOMAIN list |-> [sn |-> list[i], ip |-> [j \in DOMAIN list |-> NoSN][i]]]
              \in Seq(Row)
        BY <4>1, CloudRows
      <4> QED
        BY <4>2
    <3>3. [Plain EXCEPT !["ha"] = "chosen"] \in [Settings -> Values]
      BY EmptyIsConfig DEF Values
    <3>4. file \in Configs
      BY <3>1, <3>2, <3>3 DEF Configs
    <3> QED
      BY <3>4 DEF FileOK
  <2> QED
    BY <2>1, <2>2
<1>2. RequestsOK
  <2>1. << >> \in Seq(Row)
    OBVIOUS
  <2> QED
    BY <2>1 DEF ConfigInit, RequestsOK, Idle, RequestPoints
<1>3. ServicesOK /\ ipCache \in [SNs -> SNs \union {NoSN}]
  <2>1. ipCache \in [SNs -> SNs \union {NoSN}]
    BY DEF ConfigInit
  <2>2. boots \in 0..MaxBoots /\ printerIdx \in Nat
    BY ConfigAssumption DEF ConfigInit
  <2>3. up \in BOOLEAN
    BY Zenon DEF ConfigInit
  <2>4. fresh \in BOOLEAN /\ missed \in BOOLEAN
    BY Zenon DEF ConfigInit
  <2>5. login \in BOOLEAN
    BY Zenon DEF ConfigInit
  <2>6. /\ loaded \in SNs \union {NoSN} /\ attached \in SNs \union {NoSN} /\ discovering \subseteq SNs
        /\ ha \in {"none", "idle", "started"}
    BY DEF ConfigInit
  <2>7. NoRepair \in [idx : Nat, sn : SNs \union {NoSN}]
    BY DEF NoRepair
  <2>8. repair \in [idx : Nat, sn : SNs \union {NoSN}]
    BY <2>7 DEF ConfigInit
  <2> QED
    BY <2>1, <2>2, <2>3, <2>4, <2>5, <2>6, <2>8 DEF ServicesOK
<1> QED
  BY <1>1, <1>2, <1>3 DEF StoreInv, ConfigTypeOK, FileOK, RequestsOK, ServicesOK

-----------------------------------------------------------------------------
(* The inductive invariant of the configuration store.                     *)
THEOREM StoreInvariant == ConfigSpec => []StoreInv
<1>1. QED
  BY StoreInvInit, StoreInvStep, PTL DEF ConfigSpec

(* Type correctness, for any printers, settings and requests.              *)
THEOREM ConfigTypeCorrect == ConfigSpec => []ConfigTypeOK
<1>1. StoreInv => ConfigTypeOK
  BY DEF StoreInv
<1>2. QED
  BY <1>1, StoreInvariant, PTL

(* No update of the configuration is lost: every step but an import or a   *)
(* logout changes at most one thing of what is loaded, however handlers,   *)
(* background searches and crashes interleave.                             *)
THEOREM NoUpdateIsLost == ConfigSpec => UpdatesAreKept
<1>1. StoreInv /\ [ConfigNext]_configVars
        => [HasFile /\ HasFile' /\ ~Imports => Load' = Load \/ OneChange(Load, Load')]_configVars
  BY FileStep DEF KeepsUpdates
<1>2. QED
  BY <1>1, StoreInvariant, PTL DEF ConfigSpec, UpdatesAreKept

===============================================================================
