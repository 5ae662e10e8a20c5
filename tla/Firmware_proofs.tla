---------------------------- MODULE Firmware_proofs ----------------------------
(***************************************************************************)
(* Theorems about Firmware, for any crash threshold, size of the event     *)
(* log, and number of uploads, power losses and hangs.                     *)
(*                                                                         *)
(* FwInv is inductive.  ImageInv follows what each slot holds through an   *)
(* upload and the rollback of the bootloader, LogInv the ring in flash     *)
(* through the two writes of a boot.                                       *)
(*                                                                         *)
(* And about DialFanout, for any number of dials, edits, lost frames and   *)
(* restarts: FanInv follows the number that stands for the CAPS.           *)
(***************************************************************************)
EXTENDS Firmware, DialFanout, FiniteSetTheorems, TLAPS

SlotStates == {"none", "new", "pending", "valid", "aborted"}
Places == {"none", "begin", "receive", "end", "setBoot", "installed", "restart"}

Flags == [slot: Slots, http: BOOLEAN, safe: BOOLEAN, ready: BOOLEAN,
          validated: BOOLEAN, ota: BOOLEAN]
Uploads == [at: Places, got: Nat, of: Contents \cup {"good"}, gone: BOOLEAN]

Events == {"none", "boot", "crash", "safeMode", "ota"}
Entries == [boot: Nat, type: Events]
Rings == [head: 0 .. Cap - 1, count: 0 .. Cap, e: [0 .. Cap - 1 -> Entries]]
Logs == [boots: Nat, crashes: Nat, ring: Rings]

Types ==
  /\ FwTypeOK
  /\ marks = [state |-> marks.state, last |-> marks.last]
  /\ app \in Flags
  /\ crash \in [count: Nat, reset: {"power", "sw", "crash"}]
  /\ upload \in Uploads
  /\ nvs \in Logs /\ ram \in Logs

Chosen == {"installed", "restart"}
Writing == {"receive", "end", "setBoot"}

\* What boots next is ours, and so is what a new image is rolled back to.
Bootable ==
  /\ BootsOurs
  /\ marks.state[marks.last] \in {"new", "pending"} => flash[Other(marks.last)] \in Ours

\* What runs is what was booted.
RunsWhatBooted ==
  main # "reset" =>
    /\ flash[app.slot] \in Ours
    /\ \/ upload.at \in Chosen
       \/ app.slot = marks.last /\ marks.state[app.slot] \in {"none", "pending", "valid"}
       \/ app.slot = Other(marks.last) /\ marks.state[marks.last] = "aborted"

\* An upload writes to the slot that will not boot, and what passed the checks
\* is an image of ours.
UploadsAside ==
  /\ upload.at # "none" => main = "loop"
  /\ upload.at \in Writing \cup Chosen => marks.state[app.slot] # "pending"
  /\ upload.at = "end" => /\ flash[Other(app.slot)] = upload.of
                          /\ PassesGuard(upload.of)
  /\ upload.at = "setBoot" => flash[Other(app.slot)] \in Ours

ImageInv == Bootable /\ RunsWhatBooted /\ UploadsAside

Crashes(b) == {i \in 0 .. b.count - 1 : Newest(b, i).type = "crash"}

\* A ring that is in order, after so many boots and crashes.
Orderly(b, boots, crashes) ==
  /\ \A i, j \in 0 .. b.count - 1 : i <= j => Newest(b, i).boot >= Newest(b, j).boot
  /\ \A i \in 0 .. b.count - 1 : Newest(b, i).boot <= boots
  /\ Cardinality(Crashes(b)) <= crashes

\* A crash is counted in the first write of a boot and logged in the second.
Unlogged == IF main = "counted" /\ crash.reset = "crash" THEN 1 ELSE 0

LogInv ==
  /\ Orderly(nvs.ring, nvs.boots, nvs.crashes - Unlogged)
  /\ main \in {"counted", "loop"} => ram = nvs

FwInv == Types /\ ImageInv /\ LogInv
---------------------------------------------------------------------------
(***************************************************************************)
(* The ring                                                                *)
(***************************************************************************)
\* Indices into the ring wrap once.
LEMMA Wraps ==
  /\ \A x \in 0 .. Cap - 1 : x % Cap = x
  /\ \A x \in Cap .. Cap + Cap - 1 : x % Cap = x - Cap
  /\ Cap \in Nat /\ Cap > 0
<1>1. Cap \in Nat \ {0}
  BY FirmwareAssumption
<1>2. ASSUME NEW x \in 0 .. Cap - 1 PROVE x % Cap = x
  BY <1>1
<1>3. ASSUME NEW x \in Cap .. Cap + Cap - 1 PROVE x % Cap = x - Cap
  BY <1>1
<1> QED BY <1>1, <1>2, <1>3

\* Where eventblob_newest() finds an entry.
Index(b, i) ==
  LET at == b.head + b.count - 1 - i IN IF at < Cap THEN at ELSE at - Cap

LEMMA NewestIs ==
  ASSUME NEW b \in Rings, NEW i \in 0 .. b.count - 1
  PROVE  Newest(b, i) \in Entries /\ Newest(b, i) = b.e[Index(b, i)] /\ Index(b, i) \in 0 .. Cap - 1
<1> DEFINE at == b.head + b.count - 1 - i
<1>1. /\ b.head \in 0 .. Cap - 1 /\ b.count \in 0 .. Cap /\ b.e \in [0 .. Cap - 1 -> Entries]
      /\ b.count \in Nat /\ i \in Nat /\ i < b.count
  BY Wraps DEF Rings
<1>2. at \in 0 .. Cap + Cap - 1
  BY <1>1, Wraps
<1>3. Index(b, i) \in 0 .. Cap - 1 /\ at % Cap = Index(b, i)
  <2>1. CASE at < Cap
    BY <1>2, <2>1, Wraps DEF Index
  <2>2. CASE ~(at < Cap)
    <3>1. at \in Cap .. Cap + Cap - 1
      BY <1>2, <2>2, Wraps
    <3> QED BY <3>1, <2>2, Wraps DEF Index
  <2> QED BY <2>1, <2>2
<1>4. Newest(b, i) = b.e[at % Cap]
  BY DEF Newest
<1> QED BY <1>1, <1>3, <1>4

\* An entry is appended as the newest; with a full ring the oldest one goes.
LEMMA AppendedNewest ==
  ASSUME NEW b \in Rings, NEW e \in Entries
  PROVE  LET n == Appended(b, e)
         IN  /\ n \in Rings
             /\ n.count = IF b.count < Cap THEN b.count + 1 ELSE Cap
             /\ Newest(n, 0) = e
             /\ \A i \in 1 .. n.count - 1 : i - 1 \in 0 .. b.count - 1 /\ Newest(n, i) = Newest(b, i - 1)
<1> DEFINE n == Appended(b, e)
<1>1. /\ b.head \in 0 .. Cap - 1 /\ b.count \in 0 .. Cap /\ b.e \in [0 .. Cap - 1 -> Entries]
      /\ b.head \in Nat /\ b.count \in Nat /\ Cap \in Nat /\ Cap > 0
      /\ b = [head |-> b.head, count |-> b.count, e |-> b.e]
  BY Wraps DEF Rings
<1>2. CASE b.count < Cap
  <2> DEFINE w == b.head + b.count
             at == IF w < Cap THEN w ELSE w - Cap
  <2>1. at \in 0 .. Cap - 1 /\ w % Cap = at
    <3>1. w \in 0 .. Cap + Cap - 1
      BY <1>1, <1>2
    <3>2. CASE w < Cap
      BY <3>1, <3>2, Wraps
    <3>3. CASE ~(w < Cap)
      <4>1. w \in Cap .. Cap + Cap - 1
        BY <3>1, <3>3, Wraps
      <4> QED BY <4>1, <3>3, Wraps
    <3> QED BY <3>2, <3>3
  <2>2. n = [head |-> b.head, count |-> b.count + 1, e |-> [b.e EXCEPT ![at] = e]]
    BY <1>1, <1>2, <2>1 DEF Appended
  <2> HIDE DEF n
  <2>3. n \in Rings /\ n.head = b.head /\ n.count = b.count + 1
    <3>1. n.head = b.head /\ n.count = b.count + 1 /\ n.e = [b.e EXCEPT ![at] = e]
      BY <2>2
    <3>2. n.count \in 0 .. Cap
      BY <1>1, <1>2, <3>1
    <3>3. n.e \in [0 .. Cap - 1 -> Entries]
      BY <1>1, <2>1, <3>1
    <3> QED BY <1>1, <2>2, <3>1, <3>2, <3>3 DEF Rings
  <2>4. Newest(n, 0) = e
    <3>1. 0 \in 0 .. n.count - 1 /\ Newest(n, 0) = n.e[Index(n, 0)]
      <4>1. 0 \in 0 .. n.count - 1
        BY <1>1, <2>3
      <4> QED BY <2>3, <4>1, NewestIs
    <3>2. Index(n, 0) = at
      BY <1>1, <1>2, <2>3 DEF Index
    <3> QED BY <1>1, <2>1, <2>2, <3>1, <3>2
  <2>5. ASSUME NEW i \in 1 .. n.count - 1
        PROVE  i - 1 \in 0 .. b.count - 1 /\ Newest(n, i) = Newest(b, i - 1)
    <3>1. i \in 0 .. n.count - 1 /\ i - 1 \in 0 .. b.count - 1
      BY <1>1, <2>3
    <3>2. /\ Newest(b, i - 1) = b.e[Index(b, i - 1)] /\ Index(b, i - 1) \in 0 .. Cap - 1
          /\ Newest(n, i) = n.e[Index(n, i)]
      BY <2>3, <3>1, NewestIs
    <3>3. i \in Int /\ 1 <= i /\ i <= b.count
      BY <1>1, <2>3
    <3>4. Index(n, i) = Index(b, i - 1) /\ Index(b, i - 1) # at
      BY <1>1, <1>2, <2>3, <3>3 DEF Index
    <3> QED BY <1>1, <2>2, <3>1, <3>2, <3>4
  <2> QED BY <1>2, <2>3, <2>4, <2>5 DEF n
<1>3. CASE ~(b.count < Cap)
  <2> DEFINE h == IF b.head + 1 < Cap THEN b.head + 1 ELSE 0
  <2>1. b.count = Cap /\ h \in 0 .. Cap - 1 /\ (b.head + 1) % Cap = h
    <3>1. b.count = Cap /\ h \in 0 .. Cap - 1
      BY <1>1, <1>3
    <3>2. CASE b.head + 1 < Cap
      <4>1. b.head + 1 \in 0 .. Cap - 1
        BY <1>1, <3>2
      <4> QED BY <3>1, <3>2, <4>1, Wraps
    <3>3. CASE ~(b.head + 1 < Cap)
      <4>1. b.head + 1 = Cap /\ Cap \in Cap .. Cap + Cap - 1 /\ Cap - Cap = 0
        BY <1>1, <3>3
      <4> QED BY <3>1, <3>3, <4>1, Wraps
    <3> QED BY <3>2, <3>3
  <2>2. n = [head |-> h, count |-> Cap, e |-> [b.e EXCEPT ![b.head] = e]]
    BY <1>1, <1>3, <2>1 DEF Appended
  <2> HIDE DEF n
  <2>3. n \in Rings /\ n.head = h /\ n.count = Cap
    BY <1>1, <2>1, <2>2, Wraps DEF Rings
  <2>4. Newest(n, 0) = e
    <3>1. 0 \in 0 .. n.count - 1 /\ Newest(n, 0) = n.e[Index(n, 0)]
      BY <2>3, Wraps, NewestIs
    <3>2. Index(n, 0) = b.head
      BY <1>1, <2>1, <2>3 DEF Index
    <3> QED BY <1>1, <2>2, <3>1, <3>2
  <2>5. ASSUME NEW i \in 1 .. n.count - 1
        PROVE  i - 1 \in 0 .. b.count - 1 /\ Newest(n, i) = Newest(b, i - 1)
    <3>1. i \in 0 .. n.count - 1 /\ i - 1 \in 0 .. b.count - 1
      BY <2>1, <2>3, Wraps
    <3>2. /\ Newest(b, i - 1) = b.e[Index(b, i - 1)] /\ Index(b, i - 1) \in 0 .. Cap - 1
          /\ Newest(n, i) = n.e[Index(n, i)]
      BY <2>3, <3>1, NewestIs
    <3>3. i \in Int /\ 1 <= i /\ i <= Cap - 1
      BY <2>3, Wraps
    <3>4. Index(n, i) = Index(b, i - 1) /\ Index(b, i - 1) # b.head
      <4>1. Index(b, i - 1) = IF b.head + Cap - i < Cap THEN b.head + Cap - i ELSE b.head - i
        BY <1>1, <2>1, <3>3 DEF Index
      <4>2. h \in Nat /\ h = IF b.head + 1 < Cap THEN b.head + 1 ELSE 0
        BY <2>1, <1>1
      <4> HIDE DEF h
      <4>3. Index(n, i) = IF h + Cap - 1 - i < Cap THEN h + Cap - 1 - i ELSE h - 1 - i
        BY <1>1, <2>3, <3>3, <4>2 DEF Index
      <4>4. Index(b, i - 1) # b.head
        BY <1>1, <3>3, <4>1
      <4>5. b.head \in Nat /\ Cap \in Nat /\ b.head < Cap
        BY <1>1
      <4>6. CASE b.head + 1 < Cap
        <5>1. h = b.head + 1
          BY <4>2, <4>6
        <5>2. /\ h + Cap - 1 - i = b.head + Cap - i
              /\ h - 1 - i = b.head - i
          BY <3>3, <4>5, <5>1
        <5> QED BY <4>1, <4>3, <4>4, <5>2
      <4>7. CASE ~(b.head + 1 < Cap)
        <5>1. h = 0 /\ b.head = Cap - 1
          BY <4>2, <4>5, <4>7
        <5>2. Index(n, i) = Cap - 1 - i
          BY <3>3, <4>3, <4>5, <5>1
        <5>3. Index(b, i - 1) = Cap - 1 - i
          BY <3>3, <4>1, <4>5, <5>1
        <5> QED BY <4>4, <5>2, <5>3
      <4> QED BY <4>6, <4>7
    <3> QED BY <1>1, <2>2, <3>1, <3>2, <3>4
  <2> QED BY <1>3, <2>1, <2>3, <2>4, <2>5 DEF n
<1> QED BY <1>2, <1>3

\* A crash more in the log is an entry more.
LEMMA CrashesOfAppended ==
  ASSUME NEW b \in Rings, NEW e \in Entries
  PROVE  /\ IsFiniteSet(Crashes(b)) /\ Cardinality(Crashes(b)) \in Nat
         /\ Cardinality(Crashes(Appended(b, e))) \in Nat
         /\ Cardinality(Crashes(Appended(b, e)))
              <= Cardinality(Crashes(b)) + IF e.type = "crash" THEN 1 ELSE 0
<1> DEFINE n == Appended(b, e)
           older == Crashes(n) \ {0}
           f == [i \in older |-> i - 1]
<1>1. /\ n \in Rings /\ Newest(n, 0) = e
      /\ \A i \in 1 .. n.count - 1 : i - 1 \in 0 .. b.count - 1 /\ Newest(n, i) = Newest(b, i - 1)
  BY AppendedNewest
<1> HIDE DEF n
<1>2. ASSUME NEW r \in Rings PROVE IsFiniteSet(Crashes(r)) /\ Cardinality(Crashes(r)) \in Nat
  <2>1. r.count - 1 \in Int
    BY Wraps DEF Rings
  <2>2. Crashes(r) \subseteq 0 .. r.count - 1 /\ IsFiniteSet(0 .. r.count - 1)
    BY <2>1, FS_Interval DEF Crashes
  <2> QED BY <2>2, FS_Subset, FS_CardinalityType
<1>3. n.count \in Nat
  BY <1>1, Wraps DEF Rings
<1>4. f \in Injection(older, Crashes(b))
  <2>1. \A i \in older : i \in 1 .. n.count - 1
    BY <1>3 DEF Crashes
  <2>2. \A i \in older : i - 1 \in Crashes(b)
    BY <1>1, <2>1 DEF Crashes
  <2>3. \A i, j \in older : i - 1 = j - 1 => i = j
    BY <2>1
  <2>4. f \in [older -> Crashes(b)]
    BY <2>2
  <2>5. \A i, j \in older : f[i] = f[j] => i = j
    BY <2>3
  <2> QED BY <2>4, <2>5 DEF Injection, IsInjective
<1>5. IsFiniteSet(older) /\ Cardinality(older) <= Cardinality(Crashes(b)) /\ Cardinality(older) \in Nat
  BY <1>2, <1>4, FS_Injection, FS_CardinalityType
<1>6. CASE 0 \in Crashes(n)
  <2>1. e.type = "crash" /\ Crashes(n) = older \cup {0} /\ 0 \notin older
    BY <1>1, <1>6 DEF Crashes
  <2>2. Cardinality(Crashes(n)) = Cardinality(older) + 1
    BY <1>5, <2>1, FS_AddElement
  <2> QED BY <1>1, <1>2, <1>5, <2>1, <2>2 DEF n
<1>7. CASE 0 \notin Crashes(n)
  <2>1. Crashes(n) = older
    BY <1>7
  <2> QED BY <1>1, <1>2, <1>5, <2>1 DEF n
<1> QED BY <1>6, <1>7

\* What is logged of the boot under way leaves the log in order.
LEMMA AppendedInOrder ==
  ASSUME NEW b \in Rings, NEW e \in Entries, NEW crashes \in Int, Orderly(b, e.boot, crashes)
  PROVE  /\ Appended(b, e) \in Rings
         /\ Orderly(Appended(b, e), e.boot, crashes + IF e.type = "crash" THEN 1 ELSE 0)
<1> DEFINE n == Appended(b, e)
<1>1. /\ n \in Rings /\ Newest(n, 0) = e
      /\ \A i \in 1 .. n.count - 1 : i - 1 \in 0 .. b.count - 1 /\ Newest(n, i) = Newest(b, i - 1)
  BY AppendedNewest
<1>2. Cardinality(Crashes(n)) <= crashes + IF e.type = "crash" THEN 1 ELSE 0
  BY CrashesOfAppended DEF Orderly
<1> HIDE DEF n
<1>3. n.count \in Nat /\ e.boot \in Nat
  BY <1>1, Wraps DEF Rings, Entries
<1>4. \A k \in 0 .. b.count - 1 : Newest(b, k).boot \in Nat /\ Newest(b, k).boot <= e.boot
  BY NewestIs DEF Orderly, Entries
<1>5. \A i \in 0 .. n.count - 1 : Newest(n, i).boot <= e.boot
  <2> TAKE i \in 0 .. n.count - 1
  <2>1. CASE i = 0
    BY <1>1, <1>3, <2>1
  <2>2. CASE i \in 1 .. n.count - 1
    BY <1>1, <1>4, <2>2
  <2> QED BY <1>3, <2>1, <2>2
<1>6. ASSUME NEW i \in 0 .. n.count - 1, NEW j \in 0 .. n.count - 1, i <= j
      PROVE  Newest(n, i).boot >= Newest(n, j).boot
  <2>1. CASE i = 0
    BY <1>1, <1>3, <1>5, <2>1
  <2>2. CASE i # 0
    <3>1. i \in 1 .. n.count - 1 /\ j \in 1 .. n.count - 1 /\ i - 1 <= j - 1
      BY <1>3, <1>6, <2>2
    <3> QED BY <1>1, <3>1 DEF Orderly
  <2> QED BY <2>1, <2>2
<1> QED BY <1>1, <1>2, <1>5, <1>6 DEF n, Orderly
---------------------------------------------------------------------------
(***************************************************************************)
(* Types                                                                   *)
(***************************************************************************)
\* What RAM holds of the log after a reset.
LEMMA EmptyLog == NoLog \in Logs
<1>1. /\ 0 \in 0 .. Cap - 1 /\ 0 \in 0 .. Cap
      /\ [i \in 0 .. Cap - 1 |-> NoEntry] \in [0 .. Cap - 1 -> Entries]
  BY Wraps DEF NoEntry, Entries, Events
<1> QED BY <1>1 DEF NoLog, EmptyRing, Logs, Rings

\* The three entries of a boot
LEMMA BootLoggedIs ==
  ASSUME Types
  PROVE  /\ BootLogged \in Rings
         /\ Logged(ram.ring, "ota") \in Rings
         /\ \A crashes \in Int : Orderly(ram.ring, ram.boots, crashes) =>
              /\ Orderly(Logged(ram.ring, "ota"), ram.boots, crashes)
              /\ Orderly(BootLogged, ram.boots, crashes + IF crash.reset = "crash" THEN 1 ELSE 0)
<1>1. ram.ring \in Rings /\ ram.boots \in Nat
  BY DEF Types, Logs
<1>2. ASSUME NEW b \in Rings, NEW type \in {"boot", "crash", "safeMode", "ota"}
      PROVE  /\ Logged(b, type) \in Rings
             /\ \A crashes \in Int : Orderly(b, ram.boots, crashes) =>
                  Orderly(Logged(b, type), ram.boots, crashes + IF type = "crash" THEN 1 ELSE 0)
  <2> DEFINE e == [boot |-> ram.boots, type |-> type]
  <2>1. e \in Entries /\ e.boot = ram.boots /\ e.type = type
    BY <1>1 DEF Entries, Events
  <2>2. Logged(b, type) = Appended(b, e)
    BY DEF Logged
  <2> HIDE DEF e
  <2>3. Appended(b, e) \in Rings
    BY <2>1, AppendedNewest
  <2>4. ASSUME NEW crashes \in Int, Orderly(b, ram.boots, crashes)
        PROVE  Orderly(Appended(b, e), ram.boots, crashes + IF type = "crash" THEN 1 ELSE 0)
    BY <2>1, <2>4, AppendedInOrder
  <2> QED BY <2>2, <2>3, <2>4
<1> DEFINE boot == Logged(ram.ring, "boot")
           crashed == IF crash.reset = "crash" THEN Logged(boot, "crash") ELSE boot
<1>3. /\ boot \in Rings
      /\ \A crashes \in Int : Orderly(ram.ring, ram.boots, crashes) => Orderly(boot, ram.boots, crashes)
  BY <1>1, <1>2
<1> HIDE DEF boot
<1>4. /\ crashed \in Rings
      /\ \A crashes \in Int : Orderly(boot, ram.boots, crashes) =>
           Orderly(crashed, ram.boots, crashes + IF crash.reset = "crash" THEN 1 ELSE 0)
  BY <1>2, <1>3
<1> HIDE DEF crashed
<1>5. BootLogged = IF app.safe THEN Logged(crashed, "safeMode") ELSE crashed
  BY DEF BootLogged, crashed, boot
<1>6. /\ BootLogged \in Rings
      /\ \A crashes \in Int : Orderly(crashed, ram.boots, crashes) => Orderly(BootLogged, ram.boots, crashes)
  BY <1>2, <1>4, <1>5
<1>7. /\ Logged(ram.ring, "ota") \in Rings
      /\ \A crashes \in Int : Orderly(ram.ring, ram.boots, crashes) =>
           Orderly(Logged(ram.ring, "ota"), ram.boots, crashes)
  BY <1>1, <1>2
<1> QED BY <1>3, <1>4, <1>6, <1>7

\* The types hold of a device as it is flashed.
LEMMA TypesInit == FwInit => Types
<1> SUFFICES ASSUME FwInit PROVE Types
  OBVIOUS
<1>1. FwTypeOK
  BY DEF FwInit, FwTypeOK, Slots, Images, Ours, NoUpload
<1>2. NoFlags \in Flags
  BY DEF NoFlags, Flags, Slots
<1>3. NoUpload \in Uploads
  BY DEF NoUpload, Uploads, Places
<1>4. marks = [state |-> marks.state, last |-> marks.last]
  BY DEF FwInit
<1>5. crash \in [count: Nat, reset: {"power", "sw", "crash"}]
  BY DEF FwInit
<1> QED BY <1>1, <1>2, <1>3, <1>4, <1>5, EmptyLog DEF Types, FwInit

\* There are two slots.
LEMMA SlotsAre ==
  ASSUME Types
  PROVE  /\ NextBoot \in Slots /\ marks.last \in Slots /\ app.slot \in Slots
         /\ \A s \in Slots : Other(s) \in Slots /\ Other(s) # s /\ Other(Other(s)) = s
         /\ \A s, t \in Slots : s # t => t = Other(s)
  BY DEF Types, FwTypeOK, Flags, NextBoot, Slots, Other

\* What an upload leaves of its record.
LEMMA UploadTypes ==
  /\ \A u \in Uploads : \A at \in Places, of \in Contents : [u EXCEPT !.at = at, !.of = of] \in Uploads
  /\ \A u \in Uploads : \A at \in Places : [u EXCEPT !.at = at] \in Uploads
                                          /\ [u EXCEPT !.got = @ + 1, !.at = at] \in Uploads
  /\ \A u \in Uploads : [u EXCEPT !.gone = TRUE] \in Uploads /\ u.at \in Places
  /\ NoUpload \in Uploads
  /\ \A a \in Flags, ota \in BOOLEAN : [a EXCEPT !.ota = ota] \in Flags
<1>1. NoUpload \in Uploads
  BY DEF NoUpload, Uploads, Places
<1>2. \A u \in Uploads : \A at \in Places, of \in Contents : [u EXCEPT !.at = at, !.of = of] \in Uploads
  BY DEF Uploads
<1>3. \A u \in Uploads : \A at \in Places : [u EXCEPT !.at = at] \in Uploads
  BY DEF Uploads
<1>4. ASSUME NEW u \in Uploads, NEW at \in Places PROVE [u EXCEPT !.got = @ + 1, !.at = at] \in Uploads
  <2>1. u.got + 1 \in Nat
    BY DEF Uploads
  <2>2. \A got \in Nat : [u EXCEPT !.got = got, !.at = at] \in Uploads
    BY DEF Uploads
  <2> QED BY <2>1, <2>2
<1>5. \A u \in Uploads : [u EXCEPT !.gone = TRUE] \in Uploads /\ u.at \in Places
  BY DEF Uploads
<1>6. \A a \in Flags, ota \in BOOLEAN : [a EXCEPT !.ota = ota] \in Flags
  BY DEF Flags
<1> QED BY <1>1, <1>2, <1>3, <1>4, <1>5, <1>6

\* And what an early return of the handler leaves.
LEMMA UnwoundTypes ==
  ASSUME app \in Flags, Unwound
  PROVE  upload' \in Uploads /\ app' \in Flags
<1>1. upload' \in Uploads
  BY UploadTypes DEF Unwound
<1>2. app' \in Flags
  BY UploadTypes DEF Unwound
<1> QED BY <1>1, <1>2

\* What a reset leaves.
LEMMA TypesReset ==
  ASSUME Types, NEW why \in {"power", "sw", "crash"}, Reset(why), UNCHANGED <<flash, marks, nvs>>
  PROVE  Types'
<1>1. FwTypeOK'
  BY DEF Types, FwTypeOK, Reset, NoUpload
<1>2. crash' \in [count: Nat, reset: {"power", "sw", "crash"}]
  BY DEF Types, Reset
<1>3. app' \in Flags
  BY DEF Reset, NoFlags, Flags, Slots
<1>4. upload' \in Uploads
  BY DEF Reset, NoUpload, Uploads, Places
<1> QED BY <1>1, <1>2, <1>3, <1>4, EmptyLog DEF Types, Reset

\* The kinds of steps
Resetting == PowerLoss \/ Hang \/ EarlyCrash \/ Restart
Uploading == (\E content \in Contents : Open(content)) \/ ClientGone \/ Receive \/ Stall \/ End

\* A reset leaves what is in flash.
LEMMA Resets ==
  ASSUME Resetting
  PROVE  /\ UNCHANGED <<flash, marks, nvs>>
         /\ \E why \in {"power", "sw", "crash"} : Reset(why)
  BY DEF Resetting, PowerLoss, Hang, EarlyCrash, Restart

\* Every step keeps them.
LEMMA TypesStep == Types /\ [FwNext]_fwVars => Types'
<1> SUFFICES ASSUME Types, [FwNext]_fwVars PROVE Types'
  OBVIOUS
<1> USE DEF Types, FwTypeOK
<1>1. CASE Start
  <2>1. marks' = [state |-> marks'.state, last |-> marks'.last]
        /\ marks'.last \in Slots /\ marks'.state \in [Slots -> SlotStates]
    BY <1>1 DEF Start, MarksAtBoot, Booted, SlotStates
  <2>2. crash' \in [count: Nat, reset: {"power", "sw", "crash"}]
    BY <1>1 DEF Start, Counted
  <2>3. app' \in Flags
    <3>1. NextBoot \in Slots /\ (Counted(crash) >= Threshold) \in BOOLEAN
      BY SlotsAre
    <3>2. \A http, safe \in BOOLEAN : \A s \in Slots :
            [NoFlags EXCEPT !.slot = s, !.http = http, !.safe = safe] \in Flags
      BY DEF NoFlags, Flags
    <3>3. PICK http \in BOOLEAN :
            app' = [NoFlags EXCEPT !.slot = NextBoot, !.http = http,
                                   !.safe = Counted(crash) >= Threshold]
      BY <1>1 DEF Start
    <3> QED BY <3>1, <3>2, <3>3
  <2> QED BY <1>1, <2>1, <2>2, <2>3 DEF Start, SlotStates
<1>2. CASE CountBoot
  <2>1. ram' \in Logs /\ nvs' \in Logs
    <3>1. PICK boots \in Nat, crashes \in Nat :
            /\ ram' = [boots |-> boots, crashes |-> crashes, ring |-> nvs.ring]
            /\ nvs' = CountersSaved(nvs, boots, crashes)
      <4>1. nvs.boots + 1 \in Nat /\ nvs.crashes + (IF crash.reset = "crash" THEN 1 ELSE 0) \in Nat
        BY DEF Logs
      <4> QED BY <1>2, <4>1 DEF CountBoot
    <3> QED BY <3>1 DEF CountersSaved, Logs
  <2> QED BY <1>2, <2>1 DEF CountBoot
<1>3. CASE RecordBoot
  <2>1. ram' \in Logs /\ nvs' \in Logs
    BY <1>3, BootLoggedIs DEF RecordBoot, Logs
  <2> QED BY <1>3, <2>1 DEF RecordBoot
<1>4. CASE NetworkReady
  BY <1>4 DEF NetworkReady, Flags
<1>5. CASE Validate
  BY <1>5 DEF Validate, Flags, SlotStates
<1>6. CASE Resetting
  BY <1>6, Resets, TypesReset
<1>7. CASE \E content \in Contents : Open(content)
  <2>1. upload' \in Uploads
    <3>1. PICK content \in Contents : upload' = [NoUpload EXCEPT !.at = "begin", !.of = content]
      BY <1>7 DEF Open
    <3>2. "begin" \in Places
      BY DEF Places
    <3> QED BY <3>1, <3>2, UploadTypes
  <2> QED BY <1>7, <2>1 DEF Open, Uploads, Places
<1>8. CASE ClientGone
  BY <1>8 DEF ClientGone, Uploads
<1>9. CASE Begin
  <2>1. flash' \in [Slots -> Images \cup {"empty", "partial"}]
    BY <1>9 DEF Begin
  <2>2. upload' \in Uploads /\ app' \in Flags
    <3>1. CASE Unwound
      BY <3>1, UnwoundTypes
    <3>2. CASE ~Unwound
      <4>1. /\ upload' = [upload EXCEPT !.at = "receive"] /\ app' = [app EXCEPT !.ota = TRUE]
            /\ "receive" \in Places
        BY <1>9, <3>2 DEF Begin, Places
      <4> QED BY <4>1, UploadTypes
    <3> QED BY <3>1, <3>2
  <2> QED BY <1>9, <2>1, <2>2 DEF Begin, Uploads, Places
<1>10. CASE Receive
  <2>1. PassesGuard(upload.of) => upload.of \in Images
    BY FirmwareAssumption DEF PassesGuard, Images, Uploads
  <2>2. flash' \in [Slots -> Images \cup {"empty", "partial"}]
    BY <1>10, <2>1 DEF Receive
  <2>3. upload' \in Uploads /\ app' \in Flags
    <3>1. CASE Unwound
      BY <3>1, UnwoundTypes
    <3>2. CASE ~Unwound
      <4>1. PICK at \in Places : upload' = [upload EXCEPT !.got = @ + 1, !.at = at]
        BY <1>10, <3>2 DEF Receive, Uploads, Places
      <4> QED BY <1>10, <3>2, <4>1, UploadTypes DEF Receive
    <3> QED BY <3>1, <3>2
  <2> QED BY <1>10, <2>2, <2>3 DEF Receive, Uploads, Places
<1>11. CASE Stall
  BY <1>11 DEF Stall, Unwound, NoUpload, Uploads, Flags, Places
<1>12. CASE End
  <2>1. upload' \in Uploads /\ app' \in Flags
    <3>1. CASE Unwound
      BY <3>1, UnwoundTypes
    <3>2. CASE ~Unwound
      <4>1. upload' = [upload EXCEPT !.at = "setBoot"] /\ app' = app /\ "setBoot" \in Places
        BY <1>12, <3>2 DEF End, Places
      <4> QED BY <4>1, UploadTypes
    <3> QED BY <3>1, <3>2
  <2> QED BY <1>12, <2>1 DEF End, Uploads, Places
<1>13. CASE SetBoot
  <2>1. upload' \in Uploads /\ app' \in Flags
    <3>1. CASE Unwound
      BY <3>1, UnwoundTypes
    <3>2. CASE ~Unwound
      <4>1. upload' = [upload EXCEPT !.at = "installed"] /\ app' = app /\ "installed" \in Places
        BY <1>13, <3>2 DEF SetBoot, Places
      <4> QED BY <4>1, UploadTypes
    <3> QED BY <3>1, <3>2
  <2>2. /\ marks' = [state |-> marks'.state, last |-> marks'.last]
        /\ marks'.last \in Slots /\ marks'.state \in [Slots -> SlotStates]
    BY <1>13, SlotsAre DEF SetBoot, SlotStates
  <2> QED BY <1>13, <2>1, <2>2 DEF SetBoot, Uploads, SlotStates, Places
<1>14. CASE Installed
  <2>1. ram' \in Logs /\ nvs' \in Logs
    BY <1>14, BootLoggedIs DEF Installed, Logs
  <2> QED BY <1>14, <2>1 DEF Installed, Uploads, Places
<1>15. CASE UNCHANGED fwVars
  BY <1>15 DEF fwVars
<1> QED
  BY <1>1, <1>2, <1>3, <1>4, <1>5, <1>6, <1>7, <1>8, <1>9, <1>10, <1>11, <1>12, <1>13, <1>14, <1>15
  DEF FwNext, Upload, Resetting
LEMMA TypesHold == FwSpec => []Types
BY TypesInit, TypesStep, PTL DEF FwSpec

---------------------------------------------------------------------------
(***************************************************************************)
(* The images                                                              *)
(***************************************************************************)
LEMMA ImageInit == FwInit => ImageInv
BY DEF FwInit, ImageInv, Bootable, BootsOurs, RunsWhatBooted, UploadsAside, NextBoot, Booted,
       Ours, Slots, Other, NoUpload, Writing, Chosen

\* A running image that is not on trial is booted again.
LEMMA RunsAgain ==
  ASSUME Types, ImageInv, main # "reset", upload.at \notin Chosen, marks.state[app.slot] # "pending"
  PROVE  /\ NextBoot = app.slot /\ flash[app.slot] \in Ours
         /\ marks.state[marks.last] \notin {"new", "pending"}
<1>1. CASE app.slot = marks.last /\ marks.state[app.slot] \in {"none", "pending", "valid"}
  BY <1>1 DEF ImageInv, RunsWhatBooted, NextBoot, Booted
<1>2. CASE app.slot = Other(marks.last) /\ marks.state[marks.last] = "aborted"
  BY <1>2 DEF ImageInv, RunsWhatBooted, NextBoot, Booted
<1> QED BY <1>1, <1>2 DEF ImageInv, RunsWhatBooted

\* A reset in mid-upload boots what it would have booted before.
LEMMA ImageReset ==
  ASSUME ImageInv, NEW why, Reset(why), UNCHANGED <<flash, marks>>
  PROVE  ImageInv'
<1>1. main' = "reset" /\ upload'.at = "none"
  BY DEF Reset, NoUpload
<1>2. Bootable'
  BY DEF ImageInv, Bootable, BootsOurs, NextBoot
<1> QED BY <1>1, <1>2 DEF ImageInv, RunsWhatBooted, UploadsAside, Writing, Chosen

\* The bootloader starts what it said it would, or gives it up for the other.
LEMMA ImageStart == ASSUME Types, ImageInv, Start PROVE ImageInv'
<1> DEFINE st == marks.state
           l == marks.last
<1>1. /\ main' = "start" /\ UNCHANGED <<flash, upload>> /\ app'.slot = NextBoot
      /\ upload.at = "none" /\ flash[NextBoot] \in Ours
  BY DEF Start, NoFlags, ImageInv, Bootable, BootsOurs, UploadsAside
<1>2. /\ marks'.last = l /\ l \in Slots /\ Other(l) # l /\ st[l] \in SlotStates
      /\ NextBoot = IF st[l] \in {"pending", "aborted"} THEN Other(l) ELSE l
  BY SlotsAre DEF Start, MarksAtBoot, Booted, NextBoot, Types, FwTypeOK, SlotStates
<1>3. marks'.state[l] = IF st[l] = "pending" THEN "aborted" ELSE IF st[l] = "new" THEN "pending" ELSE st[l]
  BY <1>2 DEF Start, MarksAtBoot, Booted, Types, FwTypeOK
<1>4. NextBoot' = IF marks'.state[l] \in {"pending", "aborted"} THEN Other(l) ELSE l
  BY <1>2 DEF NextBoot, Booted
<1>5. UploadsAside'
  BY <1>1 DEF UploadsAside, Writing, Chosen
<1>6. CASE st[l] = "new"
  <2>1. NextBoot' = Other(l) /\ marks'.state[l] = "pending" /\ NextBoot = l
    BY <1>2, <1>3, <1>4, <1>6
  <2> QED BY <1>1, <1>2, <1>5, <1>6, <2>1 DEF ImageInv, Bootable, BootsOurs, RunsWhatBooted
<1>7. CASE st[l] \in {"pending", "aborted"}
  <2>1. NextBoot' = Other(l) /\ marks'.state[l] = "aborted" /\ NextBoot = Other(l)
    BY <1>2, <1>3, <1>4, <1>7
  <2> QED BY <1>1, <1>2, <1>5, <2>1 DEF ImageInv, Bootable, BootsOurs, RunsWhatBooted
<1>8. CASE st[l] \in {"none", "valid"}
  <2>1. NextBoot' = l /\ marks'.state[l] = st[l] /\ NextBoot = l
    BY <1>2, <1>3, <1>4, <1>8
  <2> QED BY <1>1, <1>2, <1>5, <1>8, <2>1 DEF ImageInv, Bootable, BootsOurs, RunsWhatBooted
<1> QED BY <1>2, <1>6, <1>7, <1>8 DEF SlotStates

\* Steps that leave flash, marks and the running image alone.
Elsewhere ==
  /\ UNCHANGED <<flash, marks>> /\ app'.slot = app.slot
  /\ main' = "reset" <=> main = "reset"
  /\ upload'.at \in Chosen <=> upload.at \in Chosen

LEMMA ElsewhereKeeps ==
  ASSUME Bootable, RunsWhatBooted, Elsewhere
  PROVE  Bootable' /\ RunsWhatBooted'
BY DEF Elsewhere, Bootable, BootsOurs, RunsWhatBooted, NextBoot

\* The rest of app_main()
LEMMA ImageMain ==
  ASSUME Types, ImageInv, CountBoot \/ RecordBoot \/ NetworkReady PROVE ImageInv'
<1>1. /\ Elsewhere /\ upload' = upload /\ (main = "loop" => main' = "loop")
  BY DEF Elsewhere, CountBoot, RecordBoot, NetworkReady, Types, Flags
<1> QED BY <1>1, ElsewhereKeeps DEF ImageInv, UploadsAside, Elsewhere

\* The image on trial becomes the one to return to.
LEMMA ImageValidate == ASSUME Types, ImageInv, Validate PROVE ImageInv'
<1> DEFINE st == marks.state
           l == marks.last
<1>1. /\ marks'.last = l /\ app'.slot = app.slot /\ UNCHANGED <<flash, main, upload>> /\ main = "loop"
      /\ \A s \in Slots : marks'.state[s] = IF s = app.slot /\ st[s] = "pending" THEN "valid" ELSE st[s]
  BY DEF Validate, Types, FwTypeOK, Flags
<1>2. l \in Slots /\ app.slot \in Slots /\ Other(l) \in Slots /\ Other(l) # l
  BY SlotsAre
<1>3. CASE st[app.slot] # "pending"
  <2>1. marks'.state[l] = st[l] /\ marks'.state[app.slot] = st[app.slot]
    BY <1>1, <1>2, <1>3
  <2> QED BY <1>1, <2>1 DEF ImageInv, Bootable, BootsOurs, RunsWhatBooted, UploadsAside, NextBoot
<1>4. CASE st[app.slot] = "pending"
  <2>1. upload.at \notin Writing \cup Chosen
    BY <1>4 DEF ImageInv, UploadsAside
  <2>2. app.slot = l \/ (app.slot = Other(l) /\ st[l] = "aborted")
    BY <1>1, <2>1 DEF ImageInv, RunsWhatBooted
  <2>3. flash[app.slot] \in Ours
    BY <1>1 DEF ImageInv, RunsWhatBooted
  <2>4. UploadsAside'
    BY <1>1, <2>1 DEF ImageInv, UploadsAside, Writing, Chosen
  <2>5. CASE app.slot = l
    <3>1. NextBoot' = l /\ marks'.state[l] = "valid"
      BY <1>1, <1>2, <1>4, <2>5 DEF NextBoot, Booted
    <3> QED BY <1>1, <2>3, <2>4, <2>5, <3>1 DEF ImageInv, Bootable, BootsOurs, RunsWhatBooted
  <2>6. CASE app.slot = Other(l) /\ st[l] = "aborted"
    <3>1. NextBoot' = Other(l) /\ marks'.state[l] = "aborted"
      BY <1>1, <1>2, <2>6 DEF NextBoot, Booted
    <3> QED BY <1>1, <2>3, <2>4, <2>6, <3>1 DEF ImageInv, Bootable, BootsOurs, RunsWhatBooted
  <2> QED BY <2>2, <2>5, <2>6
<1> QED BY <1>3, <1>4

\* Every early return of an upload leaves flash and marks alone.
LEMMA ImageUnwound ==
  ASSUME Types, ImageInv, upload.at \notin Chosen, Unwound, UNCHANGED <<flash, marks, main>>
  PROVE  ImageInv'
<1>1. Elsewhere /\ upload'.at = "none"
  BY DEF Unwound, NoUpload, Elsewhere, Chosen, Types, Flags
<1> QED BY <1>1, ElsewhereKeeps DEF ImageInv, UploadsAside, Writing, Chosen

\* An upload writes to the slot that is not booted.
LEMMA ImageWrites ==
  ASSUME Types, ImageInv, upload.at \in {"begin"} \cup Writing, marks.state[app.slot] # "pending",
         app'.slot = app.slot, UNCHANGED <<marks, main>>,
         upload'.at \in {"receive", "end"}, NEW image, flash' = [flash EXCEPT ![Other(app.slot)] = image],
         upload'.at = "end" => image = upload'.of /\ PassesGuard(image)
  PROVE  ImageInv'
<1>1. /\ NextBoot = app.slot /\ flash[app.slot] \in Ours /\ main = "loop"
      /\ marks.state[marks.last] \notin {"new", "pending"} /\ upload.at \notin Chosen
  BY RunsAgain DEF ImageInv, UploadsAside, Writing, Chosen
<1>2. NextBoot' = app.slot /\ flash'[app.slot] = flash[app.slot] /\ flash'[Other(app.slot)] = image
  BY <1>1, SlotsAre DEF NextBoot, Types, FwTypeOK
<1>3. Bootable' /\ RunsWhatBooted'
  BY <1>1, <1>2 DEF ImageInv, Bootable, BootsOurs, RunsWhatBooted
<1>4. UploadsAside'
  BY <1>1, <1>2 DEF UploadsAside
<1> QED BY <1>3, <1>4 DEF ImageInv

\* An upload until its last byte
LEMMA ImageUpload ==
  ASSUME Types, ImageInv, (\E content \in Contents : Open(content)) \/ ClientGone \/ Begin \/ Receive
  PROVE  ImageInv'
<1>1. CASE \E content \in Contents : Open(content)
  <2>1. Elsewhere /\ upload'.at = "begin" /\ main' = "loop"
    BY <1>1 DEF Open, Elsewhere, NoUpload, Chosen
  <2> QED BY <2>1, ElsewhereKeeps DEF ImageInv, UploadsAside, Writing, Chosen
<1>2. CASE ClientGone
  <2>1. Elsewhere /\ upload'.at = "receive" /\ upload.at = "receive" /\ main' = main
    BY <1>2 DEF ClientGone, Elsewhere, Types, Uploads
  <2> QED BY <2>1, ElsewhereKeeps DEF ImageInv, UploadsAside, Elsewhere, Writing, Chosen
<1>3. CASE Begin
  <2>1. CASE Unwound /\ UNCHANGED flash
    BY <1>3, <2>1, ImageUnwound DEF Begin, Chosen
  <2>2. CASE ~(Unwound /\ UNCHANGED flash)
    BY <1>3, <2>2, ImageWrites DEF Begin, Types, Uploads, Flags
  <2> QED BY <2>1, <2>2
<1>4. CASE Receive
  <2>1. CASE Unwound /\ UNCHANGED flash
    BY <1>4, <2>1, ImageUnwound DEF Receive, Chosen
  <2>2. CASE ~(Unwound /\ UNCHANGED flash)
    <3>1. /\ PassesGuard(upload.of) /\ upload.at = "receive" /\ UNCHANGED <<marks, main, app>>
          /\ upload'.of = upload.of /\ upload'.at = IF upload.got = 1 THEN "end" ELSE "receive"
          /\ flash' = IF upload.got = 1 THEN [flash EXCEPT ![Other(app.slot)] = upload.of] ELSE flash
      BY <1>4, <2>2 DEF Receive, Types, Uploads
    <3>2. CASE upload.got = 1
      <4>1. marks.state[app.slot] # "pending" /\ "receive" \in Writing
        BY <3>1 DEF ImageInv, UploadsAside, Writing
      <4> QED BY <3>1, <3>2, <4>1, ImageWrites
    <3>3. CASE upload.got # 1
      <4>1. Elsewhere
        BY <3>1, <3>3 DEF Elsewhere, Chosen
      <4> QED BY <3>1, <3>3, <4>1, ElsewhereKeeps DEF ImageInv, UploadsAside, Writing, Chosen
    <3> QED BY <3>2, <3>3
  <2> QED BY <2>1, <2>2
<1> QED BY <1>1, <1>2, <1>3, <1>4

\* Its end, and the choice of the new image
LEMMA ImageChosen ==
  ASSUME Types, ImageInv, Stall \/ End \/ SetBoot \/ Installed PROVE ImageInv'
<1>1. CASE Stall
  BY <1>1, ImageUnwound DEF Stall, Chosen
<1>2. CASE End
  <2>1. CASE Unwound
    BY <1>2, <2>1, ImageUnwound DEF End, Chosen
  <2>2. CASE ~Unwound
    <3>1. /\ upload.at = "end" /\ upload'.at = "setBoot" /\ upload.of # "damaged"
          /\ UNCHANGED <<flash, marks, main, app>>
      BY <1>2, <2>2 DEF End, Types, Uploads
    <3>2. upload.of \in Ours
      BY <3>1, FirmwareAssumption DEF ImageInv, UploadsAside, PassesGuard, Types, Uploads, Ours
    <3>3. Elsewhere
      BY <3>1 DEF Elsewhere, Chosen
    <3> QED BY <3>1, <3>2, <3>3, ElsewhereKeeps DEF ImageInv, UploadsAside, Writing, Chosen
  <2> QED BY <2>1, <2>2
<1>3. CASE SetBoot
  <2>1. CASE Unwound /\ UNCHANGED marks
    BY <1>3, <2>1, ImageUnwound DEF SetBoot, Chosen
  <2>2. CASE ~(Unwound /\ UNCHANGED marks)
    <3> DEFINE new == Other(app.slot)
    <3>1. /\ upload.at = "setBoot" /\ upload'.at = "installed" /\ UNCHANGED <<flash, main, app>>
          /\ marks' = [state |-> [marks.state EXCEPT ![new] = "new"], last |-> new]
      BY <1>3, <2>2 DEF SetBoot, Types, Uploads
    <3>2. /\ flash[new] \in Ours /\ flash[app.slot] \in Ours /\ main = "loop"
          /\ marks.state[app.slot] # "pending"
      BY <3>1, RunsAgain DEF ImageInv, UploadsAside, Writing, Chosen
    <3>3. /\ marks'.last = new /\ marks'.state[new] = "new" /\ Other(new) = app.slot
          /\ marks'.state[app.slot] = marks.state[app.slot] /\ new \in Slots
      BY <3>1, SlotsAre DEF Types, FwTypeOK
    <3> HIDE DEF new
    <3>4. NextBoot' = new
      BY <3>3 DEF NextBoot, Booted
    <3> QED BY <3>1, <3>2, <3>3, <3>4
            DEF ImageInv, Bootable, BootsOurs, RunsWhatBooted, UploadsAside, Writing, Chosen
  <2> QED BY <2>1, <2>2
<1>4. CASE Installed
  <2>1. Elsewhere /\ upload'.at = "restart" /\ upload.at = "installed" /\ main' = main
    BY <1>4 DEF Installed, Elsewhere, Chosen, Types, Uploads
  <2> QED BY <2>1, ElsewhereKeeps DEF ImageInv, UploadsAside, Elsewhere, Writing, Chosen
<1> QED BY <1>1, <1>2, <1>3, <1>4

LEMMA ImageStep == Types /\ ImageInv /\ [FwNext]_fwVars => ImageInv'
<1> SUFFICES ASSUME Types, ImageInv, [FwNext]_fwVars PROVE ImageInv'
  OBVIOUS
<1>1. CASE Resetting
  BY <1>1, Resets, ImageReset
<1>2. CASE UNCHANGED fwVars
  BY <1>2 DEF fwVars, ImageInv, Bootable, BootsOurs, RunsWhatBooted, UploadsAside, NextBoot
<1> QED BY <1>1, <1>2, ImageStart, ImageMain, ImageValidate, ImageUpload, ImageChosen
        DEF FwNext, Upload, Resetting

---------------------------------------------------------------------------
(***************************************************************************)
(* The event log                                                           *)
(***************************************************************************)
LEMMA LogInit == FwInit => LogInv
<1> SUFFICES ASSUME FwInit PROVE LogInv
  OBVIOUS
<1>1. nvs.ring.count = 0 /\ nvs.crashes = 0 /\ main = "reset"
  BY DEF FwInit, NoLog, EmptyRing
<1>2. Crashes(nvs.ring) = {}
  BY <1>1 DEF Crashes
<1>3. Cardinality(Crashes(nvs.ring)) = 0
  BY <1>2, FS_EmptySet
<1> QED BY <1>1, <1>3 DEF LogInv, Orderly, Unlogged

\* A boot or a crash more that has been counted.
LEMMA CountedInOrder ==
  ASSUME NEW b \in Rings, NEW boots \in Nat, NEW crashes \in Int, Orderly(b, boots, crashes)
  PROVE  /\ Orderly(b, boots + 1, crashes)
         /\ \A more \in Int : crashes <= more => Orderly(b, boots, more)
<1>1. \A i \in 0 .. b.count - 1 : Newest(b, i).boot \in Nat
  BY NewestIs DEF Entries
<1>2. Cardinality(Crashes(b)) \in Nat
  <2>1. [boot |-> 0, type |-> "none"] \in Entries
    BY DEF Entries, Events
  <2> QED BY <2>1, CrashesOfAppended
<1> QED BY <1>1, <1>2 DEF Orderly

\* Both writes of a boot, and that of an installed upload, keep the log in order.
LEMMA LogStep == Types /\ ImageInv /\ LogInv /\ [FwNext]_fwVars => LogInv'
<1> SUFFICES ASSUME Types, ImageInv, LogInv, [FwNext]_fwVars PROVE LogInv'
  OBVIOUS
<1>1. /\ nvs.ring \in Rings /\ nvs.boots \in Nat /\ nvs.crashes \in Nat /\ Unlogged \in {0, 1}
      /\ nvs.crashes - Unlogged \in Int /\ nvs.crashes - Unlogged <= nvs.crashes
      /\ nvs = [boots |-> nvs.boots, crashes |-> nvs.crashes, ring |-> nvs.ring]
  BY DEF Types, Logs, Unlogged
<1>2. Orderly(nvs.ring, nvs.boots, nvs.crashes)
  BY <1>1, CountedInOrder DEF LogInv
<1>3. CASE Resetting
  <2>1. nvs' = nvs /\ main' = "reset"
    BY <1>3, Resets DEF Reset
  <2>2. Unlogged' = 0 /\ nvs.crashes - 0 = nvs.crashes
    BY <1>1, <2>1 DEF Unlogged
  <2> QED BY <1>2, <2>1, <2>2 DEF LogInv
<1>4. CASE Start
  <2>1. nvs' = nvs /\ main' = "start"
    BY <1>4 DEF Start
  <2>2. Unlogged' = 0 /\ nvs.crashes - 0 = nvs.crashes
    BY <1>1, <2>1 DEF Unlogged
  <2> QED BY <1>2, <2>1, <2>2 DEF LogInv
<1>5. CASE CountBoot
  <2> DEFINE add == IF crash.reset = "crash" THEN 1 ELSE 0
  <2>1. /\ nvs'.ring = nvs.ring /\ nvs'.boots = nvs.boots + 1 /\ nvs'.crashes = nvs.crashes + add
        /\ ram' = nvs' /\ main' = "counted" /\ crash' = crash
    BY <1>1, <1>5 DEF CountBoot, CountersSaved
  <2>2. nvs'.crashes - Unlogged' = nvs.crashes
    BY <1>1, <2>1 DEF Unlogged
  <2> QED BY <1>1, <1>2, <2>1, <2>2, CountedInOrder DEF LogInv
<1>6. CASE RecordBoot
  <2> DEFINE add == IF crash.reset = "crash" THEN 1 ELSE 0
  <2>1. /\ nvs'.ring = BootLogged /\ nvs'.boots = nvs.boots /\ nvs'.crashes = nvs.crashes
        /\ ram = nvs /\ main' = "loop" /\ Unlogged = add /\ ram' = nvs'
    BY <1>1, <1>6 DEF RecordBoot, LogInv, Unlogged
  <2>2. Orderly(BootLogged, nvs.boots, (nvs.crashes - add) + add)
    BY <1>1, <2>1, BootLoggedIs DEF LogInv
  <2>3. Unlogged' = 0 /\ (nvs.crashes - add) + add = nvs.crashes /\ nvs.crashes - 0 = nvs.crashes
    BY <1>1, <2>1 DEF Unlogged
  <2> QED BY <2>1, <2>2, <2>3 DEF LogInv
<1>7. CASE Installed
  <2>1. main = "loop"
    BY <1>7 DEF Installed, ImageInv, UploadsAside
  <2>2. /\ nvs'.ring = Logged(ram.ring, "ota") /\ nvs'.boots = nvs.boots /\ nvs'.crashes = nvs.crashes
        /\ ram = nvs /\ main' = "loop" /\ Unlogged = 0 /\ Unlogged' = 0 /\ ram' = nvs'
    BY <1>1, <1>7, <2>1 DEF Installed, LogInv, Unlogged
  <2>3. Orderly(Logged(ram.ring, "ota"), ram.boots, nvs.crashes - Unlogged)
    BY <1>1, <2>2, BootLoggedIs DEF LogInv
  <2> QED BY <2>2, <2>3 DEF LogInv
<1>8. CASE \/ NetworkReady \/ Validate \/ Uploading \/ Begin \/ SetBoot \/ UNCHANGED fwVars
  <2>1. UNCHANGED <<nvs, ram, main>> /\ crash'.reset = crash.reset
    <3>1. CASE NetworkReady \/ Validate
      BY <3>1 DEF NetworkReady, Validate, Types
    <3>2. CASE Uploading \/ Begin \/ SetBoot
      BY <3>2 DEF Uploading, Open, ClientGone, Receive, Stall, End, Begin, SetBoot
    <3>3. CASE UNCHANGED fwVars
      BY <3>3 DEF fwVars
    <3> QED BY <1>8, <3>1, <3>2, <3>3
  <2> QED BY <2>1 DEF LogInv, Unlogged
<1> QED BY <1>3, <1>4, <1>5, <1>6, <1>7, <1>8 DEF FwNext, Upload, Resetting, Uploading

---------------------------------------------------------------------------
(***************************************************************************)
(* The theorems                                                            *)
(***************************************************************************)
LEMMA FwInvHolds == FwSpec => []FwInv
<1>1. FwInit => FwInv
  BY TypesInit, ImageInit, LogInit DEF FwInv
<1>2. FwInv /\ [FwNext]_fwVars => FwInv'
  BY TypesStep, ImageStep, LogStep DEF FwInv
<1> QED BY <1>1, <1>2, PTL DEF FwSpec

\* Every variable keeps its type, for any number of uploads, losses and hangs.
THEOREM FirmwareTypeCorrect == FwSpec => []FwTypeOK
<1>1. FwInv => FwTypeOK
  BY DEF FwInv, Types
<1> QED BY <1>1, FwInvHolds, PTL

\* Whatever the moment of a power loss, a hang or a failing upload, the bootloader
\* next starts a complete image of this project, and the event log in flash has its
\* entries in order and names no boot or crash that was not counted.
THEOREM BootsAreSound == FwSpec => []BootsSoundly
<1>1. FwInv => BootsSoundly
  <2> SUFFICES ASSUME FwInv PROVE BootsOurs /\ LogInOrder
    BY DEF BootsSoundly
  <2>1. /\ nvs.ring \in Rings /\ nvs.boots \in Nat /\ nvs.crashes \in Nat /\ Unlogged \in {0, 1}
        /\ nvs.crashes - Unlogged \in Int /\ nvs.crashes - Unlogged <= nvs.crashes
    BY DEF FwInv, Types, Logs, Unlogged
  <2>2. Orderly(nvs.ring, nvs.boots, nvs.crashes)
    BY <2>1, CountedInOrder DEF FwInv, LogInv
  <2> QED BY <2>2 DEF FwInv, ImageInv, Bootable, LogInOrder, Orderly, Crashes
<1> QED BY <1>1, FwInvHolds, PTL

-----------------------------------------------------------------------------
(* What a dial takes for the current CAPS                                   *)

Numbers == [caps: Nat, seq: Nat]

FanTypes ==
  /\ caps \in Nat /\ seq \in Nat /\ fp \in Nat /\ announcer.fp \in Nat
  /\ announcer = [phase |-> announcer.phase, fp |-> announcer.fp]
  /\ \E shows : viewer \in [Viewers -> [awake: BOOLEAN, shown: shows, copy: Numbers \union {Unset}]]

\* What is announced was once true, and is true until the next comparison.
Announced ==
  /\ fp <= caps /\ announcer.fp <= caps
  /\ announcer.phase = "checked" => fp = caps

\* A restart finds the number and the fingerprint in force.
Remembered == kept = [seq |-> seq, fp |-> fp]

\* A copy under the current number is no older than what the number announces;
\* a number that is not announced yet has no copies.
Numbered ==
  \A d \in Viewers : viewer[d].copy # Unset =>
    /\ viewer[d].copy.caps <= caps /\ viewer[d].copy.seq <= seq
    /\ announcer.phase = "store" => viewer[d].copy.seq < seq
    /\ viewer[d].copy.seq = seq => fp <= viewer[d].copy.caps

FanInv == FanTypes /\ Announced /\ Remembered /\ Numbered

\* A dial asks for CAPS when the number it is shown is not the one of its copy.
\* So, once an edit has been announced, a copy under the current number must be
\* of the current CAPS: a dial that does not ask has nothing to ask for
\* (caps_announce_if_changed(), sl2_link_caps_changed(), begin()).
CopiesCurrent ==
  announcer.phase = "checked" =>
    \A d \in Viewers :
      viewer[d].copy # Unset /\ viewer[d].copy.seq = seq => viewer[d].copy.caps = caps

\* What the invariant reads of a dial is its copy.
LEMMA CopiesKeepInv ==
  ASSUME FanInv, FanTypes',
         \A d \in Viewers : viewer'[d].copy \in {viewer[d].copy, [caps |-> caps, seq |-> seq]},
         announcer.phase # "store" \/ \A d \in Viewers : viewer'[d].copy = viewer[d].copy,
         UNCHANGED <<caps, seq, fp, kept, announcer>>
  PROVE  FanInv'
<1>1. Announced' /\ Remembered'
  BY DEF FanInv, Announced, Remembered
<1>2. Numbered'
  <2> SUFFICES ASSUME NEW d \in Viewers, viewer'[d].copy # Unset
               PROVE  /\ viewer'[d].copy.caps <= caps /\ viewer'[d].copy.seq <= seq
                      /\ announcer.phase = "store" => viewer'[d].copy.seq < seq
                      /\ viewer'[d].copy.seq = seq => fp <= viewer'[d].copy.caps
    BY DEF Numbered
  <2>1. CASE viewer'[d].copy = viewer[d].copy
    BY <2>1 DEF FanInv, Numbered
  <2>2. CASE viewer'[d].copy # viewer[d].copy
    <3>1. viewer'[d].copy = [caps |-> caps, seq |-> seq] /\ announcer.phase # "store"
      BY <2>2
    <3> QED BY <3>1 DEF FanInv, FanTypes, Announced
  <2> QED BY <2>1, <2>2
<1> QED BY <1>1, <1>2 DEF FanInv

\* A frame brings a dial the CAPS with their number, or leaves its copy.
LEMMA FramesKeepInv ==
  ASSUME FanInv, Quiet, UNCHANGED <<caps, seq, fp, kept, announcer>>,
         NEW shows, viewer' \in [Viewers -> [awake: BOOLEAN, shown: shows,
                                             copy: Numbers \union {Unset}]],
         \A d \in Viewers : viewer'[d].copy \in {viewer[d].copy, [caps |-> caps, seq |-> seq]}
  PROVE  FanInv'
<1>1. FanTypes'
  BY DEF FanInv, FanTypes
<1> QED BY <1>1, CopiesKeepInv DEF Quiet

\* The copies stay as they are while numbers are raised and stored.
LEMMA FanStep ==
  ASSUME ~SeqMayFail, FanInv, [FanNext]_fanVars
  PROVE  FanInv'
<1> PICK shows : viewer \in [Viewers -> [awake: BOOLEAN, shown: shows,
                                         copy: Numbers \union {Unset}]]
  BY DEF FanInv, FanTypes
<1>1. ASSUME NEW lost \in SUBSET Viewers, CoreLoop(lost) PROVE FanInv'
  <2> DEFINE more == shows \union {Built}
             copied == [caps |-> caps, seq |-> seq]
  <2>1. PICK states, copies : viewer' = Shown(states, copies, lost)
    BY <1>1 DEF CoreLoop
  <2>2. copied \in Numbers
    BY DEF FanInv, FanTypes, Numbers
  <2>3. \A d \in Viewers :
          /\ viewer'[d].copy \in {viewer[d].copy, copied}
          /\ viewer'[d] \in [awake: BOOLEAN, shown: more, copy: Numbers \union {Unset}]
    BY <2>1, <2>2 DEF Shown
  <2>4. viewer' \in [Viewers -> [awake: BOOLEAN, shown: more, copy: Numbers \union {Unset}]]
    BY <2>1, <2>3 DEF Shown
  <2>5. Quiet /\ UNCHANGED <<caps, seq, fp, kept, announcer>>
    BY <1>1 DEF CoreLoop
  <2> HIDE DEF more
  <2> QED BY <2>3, <2>4, <2>5, FramesKeepInv
<1>2. ASSUME NEW lost \in SUBSET Viewers, NEW c \in Viewers, Command(c, lost) PROVE FanInv'
  <2> DEFINE now == [hvac |-> hvac + 1, seq |-> seq]
             more == shows \union {now}
             told == {e \in Viewers : rt[e].probed \/ e = c} \ lost
  <2>1. viewer' = [e \in Viewers |-> IF e \in told /\ viewer[e].awake
                                     THEN [viewer[e] EXCEPT !.shown = now] ELSE viewer[e]]
    BY <1>2 DEF Command
  <2> HIDE DEF now, told
  <2>2. \A d \in Viewers :
          /\ viewer'[d].copy = viewer[d].copy
          /\ viewer'[d] \in [awake: BOOLEAN, shown: more, copy: Numbers \union {Unset}]
    BY <2>1
  <2>3. viewer' \in [Viewers -> [awake: BOOLEAN, shown: more, copy: Numbers \union {Unset}]]
    BY <2>1, <2>2
  <2>4. Quiet /\ UNCHANGED <<caps, seq, fp, kept, announcer>>
    BY <1>2 DEF Command
  <2> HIDE DEF more
  <2> QED BY <2>2, <2>3, <2>4, FramesKeepInv
<1>3. CASE Compare
  <2>1. announcer.phase = "stale" /\ UNCHANGED <<caps, seq, fp, kept, viewer>>
        /\ announcer' = [phase |-> IF fp = caps THEN "checked" ELSE "raise", fp |-> caps]
    BY <1>3 DEF Compare, core
  <2> QED BY <2>1 DEF FanInv, FanTypes, Announced, Remembered, Numbered
<1>4. CASE Raise
  <2>1. /\ announcer.phase = "raise" /\ seq' = seq + 1
        /\ kept' = [kept EXCEPT !.seq = seq + 1]
        /\ announcer' = [announcer EXCEPT !.phase = "store"]
        /\ UNCHANGED <<caps, fp, viewer>>
    BY <1>4 DEF Raise
  <2>2. \A d \in Viewers : viewer[d].copy # Unset =>
          viewer[d].copy.seq \in Nat /\ viewer[d].copy.seq <= seq
    BY DEF FanInv, Numbered, Numbers
  <2>3. FanTypes' /\ Announced' /\ Remembered'
    BY <2>1 DEF FanInv, FanTypes, Announced, Remembered
  <2>4. Numbered'
    BY <2>1, <2>2 DEF FanInv, FanTypes, Numbered
  <2> QED BY <2>3, <2>4 DEF FanInv
<1>5. CASE Store
  <2>1. /\ announcer.phase = "store" /\ kept' = [kept EXCEPT !.fp = announcer.fp]
        /\ fp' = announcer.fp
        /\ announcer' = [announcer EXCEPT !.phase = IF caps = announcer.fp THEN "checked"
                                                   ELSE "stale"]
        /\ UNCHANGED <<caps, seq, viewer>>
    BY <1>5 DEF Store, core
  <2>2. \A d \in Viewers : viewer[d].copy # Unset =>
          viewer[d].copy.seq \in Nat /\ viewer[d].copy.seq < seq
    BY <2>1 DEF FanInv, Numbered, Numbers
  <2>3. FanTypes' /\ Announced' /\ Remembered'
    BY <2>1 DEF FanInv, FanTypes, Announced, Remembered
  <2>4. Numbered'
    BY <2>1, <2>2 DEF FanInv, FanTypes, Numbered
  <2> QED BY <2>3, <2>4 DEF FanInv
<1>6. CASE EditCaps
  <2>1. /\ caps' = caps + 1 /\ UNCHANGED <<seq, fp, kept, viewer>>
        /\ announcer' = [announcer EXCEPT !.phase = IF Quiet THEN "stale" ELSE @]
    BY <1>6 DEF EditCaps, core
  <2>2. PICK phase : /\ announcer' = [announcer EXCEPT !.phase = phase]
                     /\ phase = IF Quiet THEN "stale" ELSE announcer.phase
    BY <2>1
  <2>3. /\ announcer'.phase = "store" => announcer.phase = "store"
        /\ announcer'.phase # "checked" /\ announcer'.fp = announcer.fp
        /\ announcer' = [phase |-> announcer'.phase, fp |-> announcer'.fp]
    BY <2>2 DEF Quiet, FanInv, FanTypes
  <2>4. \A d \in Viewers : viewer[d].copy # Unset => viewer[d].copy.caps \in Nat
    BY DEF Numbers
  <2>5. FanTypes'
    BY <2>1, <2>3 DEF FanInv, FanTypes
  <2>6. Announced' /\ Remembered'
    BY <2>1, <2>3 DEF FanInv, FanTypes, Announced, Remembered
  <2>7. Numbered'
    BY <2>1, <2>3, <2>4 DEF FanInv, FanTypes, Numbered
  <2> QED BY <2>5, <2>6, <2>7 DEF FanInv
<1>7. CASE PowerCut
  <2>1. /\ seq' = seq /\ fp' = fp /\ UNCHANGED <<caps, kept, viewer>>
        /\ announcer' = [announcer EXCEPT !.phase = "stale"]
    BY <1>7 DEF PowerCut, AtBoot, FanInv, Remembered
  <2> QED BY <2>1 DEF FanInv, FanTypes, Announced, Remembered, Numbered
<1>8. ASSUME NEW d \in Viewers, Doze(d) PROVE FanInv'
  <2>1. /\ viewer' = [viewer EXCEPT ![d].awake = ~@]
        /\ UNCHANGED <<caps, seq, fp, kept, announcer>>
    BY <1>8 DEF Doze, core
  <2>2. \A e \in Viewers : viewer'[e].copy = viewer[e].copy
    BY <2>1
  <2>3. \A e \in Viewers :
          viewer'[e] \in [awake: BOOLEAN, shown: shows, copy: Numbers \union {Unset}]
    BY <2>1
  <2>4. viewer' \in [Viewers -> [awake: BOOLEAN, shown: shows, copy: Numbers \union {Unset}]]
    BY <2>1, <2>3
  <2>5. FanTypes'
    BY <2>1, <2>4 DEF FanInv, FanTypes
  <2> QED BY <2>1, <2>2, <2>5, CopiesKeepInv
<1>9. CASE UNCHANGED <<caps, seq, fp, kept, announcer, viewer>>
  BY <1>9 DEF FanInv, FanTypes, Announced, Remembered, Numbered
<1>10. ASSUME NEW d \in Viewers, Rest(d) \/ Lapse(d) \/ ProbeLink(d) PROVE FanInv'
  BY <1>9, <1>10 DEF Rest, Lapse, ProbeLink
<1>11. CASE Change \/ UNCHANGED fanVars
  BY <1>9, <1>11 DEF Change, fanVars, core
<1> QED BY <1>1, <1>2, <1>3, <1>4, <1>5, <1>6, <1>7, <1>8, <1>10, <1>11 DEF FanNext

\* As long as the number is saved when it is raised, a dial that holds CAPS under
\* the current number holds the current CAPS, however frames are lost, whenever
\* the settings are edited and wherever the device restarts between its writes.
THEOREM CopiesAreCurrent ==
  ASSUME ~SeqMayFail
  PROVE  FanSpec => []CopiesCurrent
<1>1. FanInit => FanInv
  <2> SUFFICES ASSUME FanInit PROVE FanInv
    OBVIOUS
  <2>1. viewer \in [Viewers -> [awake: BOOLEAN, shown: {Unset}, copy: Numbers \union {Unset}]]
    BY DEF FanInit, Numbers
  <2>2. \A d \in Viewers : viewer[d].copy \in {Unset, [caps |-> 0, seq |-> 0]}
    BY DEF FanInit
  <2>3. FanTypes
    BY <2>1 DEF FanInit, FanTypes
  <2> QED BY <2>2, <2>3 DEF FanInit, FanInv, Announced, Remembered, Numbered
<1>2. FanInv => CopiesCurrent
  <2> SUFFICES ASSUME FanInv, announcer.phase = "checked", NEW d \in Viewers,
                      viewer[d].copy # Unset, viewer[d].copy.seq = seq
               PROVE  viewer[d].copy.caps = caps
    BY DEF CopiesCurrent
  <2>1. fp = caps /\ fp <= viewer[d].copy.caps /\ viewer[d].copy.caps <= caps
    BY DEF FanInv, Announced, Numbered
  <2>2. caps \in Nat /\ viewer[d].copy.caps \in Nat
    BY DEF FanInv, FanTypes, Numbers
  <2> QED BY <2>1, <2>2
<1>3. FanInv /\ [FanNext]_fanVars => FanInv'
  BY FanStep
<1> QED BY <1>1, <1>2, <1>3, PTL DEF FanSpec
=============================================================================
