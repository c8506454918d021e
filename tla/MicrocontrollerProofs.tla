------------------------ MODULE MicrocontrollerProofs ------------------------
(***************************************************************************)
(* Proofs about Microcontroller for every geometry of its flash, every set   *)
(* of files, number of polls, jobs and faults.                              *)
(***************************************************************************)
EXTENDS Microcontroller, SequenceTheorems, TLAPS

-----------------------------------------------------------------------------
(* The inductive invariant.                                                 *)

CallNames == {"configure_spi", "earse_chip", "reset", "status", "program", "dump", "abort"}
Sessions  == {"earse_chip", "status", "program", "dump"}

\* Nothing follows a dump, and the flash is erased before it is programmed.
Ordered(cs) ==
    \A k, l \in 1..Len(cs) : k < l =>
        cs[k] # "dump" /\ (cs[k] = "program" => cs[l] \notin {"earse_chip", "program"})

\* The calls that are left are the last ones of the job.
CallsInv ==
    /\ calls \in Seq(CallNames) /\ Ordered(calls)
    /\ \A c \in CallNames : Has(calls, c) => Has(Calls(job), c)
    /\ ~Done => calls[Len(calls)] = Calls(job)[Len(Calls(job))]
    /\ Has(Calls(job), "program") /\ ~Has(calls, "program") => ~Has(calls, "earse_chip")
    /\ phase \in {"send", "wait"}
    /\ phase = "wait" => Doing("command")

\* The job is past the entry into programming mode.
InBody == ~Done /\ Head(calls) \in Sessions /\ at >= 3
\* The job has erased the flash, and started the microcontroller again.
ErasedIt == Erases(job) /\ ~Has(calls, "earse_chip")
\* The job waits for the end of the command under way.
Synced == ~Done /\ phase = "wait" /\ spi.cmd = step

\* What is under way outside of a session is left from an earlier job, and takes no
\* effect, unless that job has been cut short in programming mode.
SessionInv ==
    /\ DOMAIN spi = {"busy", "cmd", "answer"}
    /\ spi.busy \in BOOLEAN /\ (spi.busy => spi.answer = Garbage)
    /\ ~Done /\ at >= 2 => ~resetN
    /\ Done /\ Len(Calls(job)) > 1 => resetN
    /\ InBody => progMode
    /\ phase = "wait" /\ step.cmd = "PROG_ENABLE" /\ spi.answer = <<"PROG_ENABLE">> => progMode
    /\ spi.busy /\ (InBody \/ ErasedIt) => Synced
    /\ spi.busy /\ progMode /\ spi.cmd.cmd \in {"ERASE_CHIP", "WRITE_PAGE"} => torn \/ Synced

\* The command that is waited for has ended.
Ended == phase = "wait" /\ ~spi.busy

AllErased == [a \in Addresses |-> Erased]
NoBytes   == [i \in 0..PageBytes-1 |-> Erased]
\* Flash and page buffer with the first pages, and the first bytes of a page, of a file.
Partial(n, q) == [a \in Addresses |->
    IF a < 2 * (n \div 2) /\ a < q * PageBytes THEN FileByte(n, a) ELSE Erased]
Loaded(n, q, b) == [i \in 0..PageBytes-1 |->
    IF i < b THEN FileByte(n, q * PageBytes + i) ELSE Erased]

\* The job is in the loop over the file, or at the step behind it; its file is written.
Programs  == ~Done /\ Head(calls) = "program" /\ at >= 4
Programs2 == Programs /\ at < Len(Steps)
ProgrammedIt == Has(Calls(job), "program") /\ (Has(calls, "program") => Programs /\ at = Len(Steps))

\* At turn i, in page q, with b bytes of it in the buffer.
TurnInv(n, q, b) ==
    LET writes == step.cmd = "WRITE_PAGE" IN
    /\ q > Pages => torn
    /\ q <= Pages /\ ~(Ended /\ writes) => flash = Partial(n, q)
    /\ ~Ended => buffer = Loaded(n, q, b)
    /\ Ended /\ ~writes => buffer = Loaded(n, q, b + 1)
    /\ Ended /\ writes => buffer = NoBytes /\ (q < Pages => flash = Partial(n, q + 1))

\* What the flash and the page buffer hold, at each step of a job and between jobs.
ImageInv ==
    /\ DOMAIN buffer = 0..PageBytes-1 /\ DOMAIN flash = Addresses
    /\ ~torn => Whole \/ Programs
    /\ ~Done /\ Head(calls) = "earse_chip" /\ (at = 4 \/ (at = 3 /\ Ended)) => flash = AllErased
    /\ ErasedIt /\ Has(calls, "program") /\ ~Programs => flash = AllErased /\ buffer = NoBytes
    /\ Programs2 => TurnInv(job[3], PageAt(at - 3), ByteAt(at - 3))
    /\ ProgrammedIt => IF PagesOf(job[3]) <= Pages THEN flash = Image(job[3]) ELSE torn

\* The job is in a dump.
Dumps == ~Done /\ Head(calls) = "dump" /\ at >= 3
FlashBytes == {flash[a] : a \in Addresses}
\* The bytes read so far are those of the flash, as many as the turn says.
DumpInv ==
    /\ dumped \in Seq(FlashBytes) /\ DumpIsFlash
    /\ dumped # <<>> => (Done /\ resetN) \/ Dumps
    /\ Dumps /\ at = 3 => dumped = <<>>
    /\ Dumps /\ at > 3 /\ at < Len(Steps) =>
           /\ Len(dumped) = PageAt(at - 3) * PageBytes + ByteAt(at - 3)
           /\ step.do = "command" /\ Ended => spi.answer = flash[step.addr]

UcIInv == CallsInv /\ SessionInv /\ ImageInv /\ DumpInv

-----------------------------------------------------------------------------
(* Pages and turns.                                                         *)

\* Quotient and remainder, which the provers know of numbers but not of terms.
LEMMA DivMod ==
    ASSUME NEW a \in Nat, NEW n \in Nat \ {0}
    PROVE  a \div n \in Nat /\ a % n \in 0..n-1 /\ a = n * (a \div n) + (a % n)
OBVIOUS

\* Quotient and remainder are unique.
LEMMA DivIs ==
    ASSUME NEW n \in Nat \ {0}, NEW q \in Nat, NEW r \in 0..n-1
    PROVE  (n * q + r) \div n = q /\ (n * q + r) % n = r
<1>0. PICK a \in Nat : a = n * q + r
  OBVIOUS
<1>1. PICK p \in Nat, s \in 0..n-1 : a = n * p + s /\ a \div n = p /\ a % n = s
  BY DivMod
<1>2. n * (p - q) = r - s
  BY <1>0, <1>1
<1>3. ~ (p - q >= 1)
  <2>1. SUFFICES ASSUME p - q >= 1 PROVE FALSE
    OBVIOUS
  <2>2. n * (p - q) >= n
    BY <2>1
  <2>3. QED
    BY <1>2, <2>2
<1>4. ~ (q - p >= 1)
  <2>1. SUFFICES ASSUME q - p >= 1 PROVE FALSE
    OBVIOUS
  <2>2. n * (q - p) >= n
    BY <2>1
  <2>3. n * (q - p) = s - r
    BY <1>2
  <2>4. QED
    BY <2>2, <2>3
<1>5. p = q /\ s = r
  <2>1. p = q
    BY <1>3, <1>4
  <2>2. n * (p - q) = 0
    BY <2>1
  <2>3. QED
    BY <1>2, <2>1, <2>2
<1>6. a \div n = q /\ a % n = r
  BY <1>1, <1>5
<1>7. QED
  BY <1>0, <1>6, Zenon

\* More pages have at least as many bytes.
LEMMA Monotone ==
    ASSUME NEW n \in Nat, NEW p \in Nat, NEW q \in Nat, p <= q
    PROVE  p * n \in Nat /\ q * n \in Nat /\ p * n <= q * n
<1>1. PICK d \in Nat : q = p + d
  BY q - p \in Nat
<1>2. q * n = p * n + d * n /\ d * n \in Nat
  BY <1>1
<1>3. QED
  BY <1>2

\* One page more.
LEMMA NextMultiple ==
    ASSUME NEW n \in Nat, NEW q \in Nat
    PROVE  q * n \in Nat /\ (q + 1) * n = q * n + n
OBVIOUS

\* A page is a positive even number of bytes.
LEMMA PageType ==
    /\ PageBytes \in Nat /\ PageBytes > 1 /\ PageBytes \div 2 \in Nat
    /\ PageBytes = 2 * (PageBytes \div 2)
    /\ Pages \in Nat /\ Pages > 0
<1>1. PageBytes = 2 * PageSize /\ PageSize \in Nat /\ PageSize > 0
  BY UcAssumption DEF PageBytes
<1>2. QED
  BY <1>1, UcAssumption

\* The even part of a number of bytes.
LEMMA EvenPart ==
    ASSUME NEW n \in Nat
    PROVE  2 * (n \div 2) \in Nat /\ 2 * (n \div 2) <= n /\ n <= 2 * (n \div 2) + 1
OBVIOUS

\* It is that of the bytes in front and of the rest.
LEMMA EvenRest ==
    ASSUME NEW n \in Nat, NEW x \in Nat, NEW y \in Nat, n >= x, x = 2 * y
    PROVE  2 * ((n - x) \div 2) = 2 * (n \div 2) - x
<1>1. n - x \in Nat
  OBVIOUS
<1>2. (n - x) \div 2 = (n \div 2) - y
  OBVIOUS
<1>3. QED
  BY <1>2

\* A turn of a loop is at a page and a byte of it.
LEMMA TurnAt ==
    ASSUME NEW i \in Nat \ {0}
    PROVE  /\ PageAt(i) \in Nat /\ ByteAt(i) \in 0..PageBytes
           /\ i = PageAt(i) * PageBytes + PageAt(i) + ByteAt(i) + 1
<1>1. PICK d \in Nat \ {0} : d = PageBytes + 1
  BY PageType
<1>2. PICK a \in Nat : a = i - 1
  OBVIOUS
<1>3. /\ a \div d \in Nat /\ a % d \in 0..d-1 /\ a = d * (a \div d) + (a % d)
  BY DivMod
<1>4. PageAt(i) = a \div d /\ ByteAt(i) = a % d
  BY <1>1, <1>2 DEF PageAt, ByteAt
<1>5. PICK q \in Nat, b \in 0..d-1 : q = a \div d /\ b = a % d
  BY <1>3
<1>6. a = d * q + b
  BY <1>3, <1>5
<1>7. d * q = q * PageBytes + q
  BY <1>1, PageType
<1>8. q * PageBytes \in Nat
  BY PageType
<1>9. i = q * PageBytes + q + b + 1
  BY <1>2, <1>6, <1>7, <1>8
<1>10. PageAt(i) = q /\ ByteAt(i) = b
  BY <1>4, <1>5
<1>11. b \in 0..PageBytes
  BY <1>1, PageType
<1>12. QED
  BY <1>9, <1>10, <1>11

\* Page and byte of a turn are unique.
LEMMA TurnIs ==
    ASSUME NEW q \in Nat, NEW b \in 0..PageBytes, NEW i \in Nat,
           i = q * PageBytes + q + b + 1
    PROVE  PageAt(i) = q /\ ByteAt(i) = b
<1>1. PICK d \in Nat \ {0} : d = PageBytes + 1
  BY PageType
<1>2. q * PageBytes \in Nat /\ d * q = q * PageBytes + q
  BY <1>1, PageType
<1>3. PICK a \in Nat : a = i - 1
  BY <1>2, PageType
<1>4. a = d * q + b /\ b \in 0..d-1
  BY <1>1, <1>2, <1>3, PageType
<1>5. a \div d = q /\ a % d = b
  <2>1. PICK r \in 0..d-1 : r = b
    BY <1>4
  <2>2. a = d * q + r
    BY <1>4, <2>1
  <2>3. (d * q + r) \div d = q /\ (d * q + r) % d = r
    BY DivIs
  <2>4. QED
    BY <2>1, <2>2, <2>3
<1>6. QED
  BY <1>1, <1>3, <1>5 DEF PageAt, ByteAt

\* After a byte comes the next one; after a page, the first byte of the next.
LEMMA TurnNext ==
    ASSUME NEW i \in Nat \ {0}
    PROVE  /\ ByteAt(i) < PageBytes => PageAt(i + 1) = PageAt(i) /\ ByteAt(i + 1) = ByteAt(i) + 1
           /\ ByteAt(i) = PageBytes => PageAt(i + 1) = PageAt(i) + 1 /\ ByteAt(i + 1) = 0
<1>1. PICK q \in Nat, b \in 0..PageBytes : q = PageAt(i) /\ b = ByteAt(i)
  BY TurnAt
<1>2. i = q * PageBytes + q + b + 1
  BY <1>1, TurnAt
<1>3. q * PageBytes \in Nat /\ (q + 1) * PageBytes = q * PageBytes + PageBytes
  BY NextMultiple, PageType
<1>4. ASSUME b < PageBytes PROVE PageAt(i + 1) = q /\ ByteAt(i + 1) = b + 1
  <2>1. i + 1 = q * PageBytes + q + (b + 1) + 1 /\ b + 1 \in 0..PageBytes
    BY <1>2, <1>3, <1>4, PageType
  <2>2. QED
    BY <2>1, TurnIs
<1>5. ASSUME b = PageBytes PROVE PageAt(i + 1) = q + 1 /\ ByteAt(i + 1) = 0
  <2>1. i + 1 = (q + 1) * PageBytes + (q + 1) + 0 + 1 /\ 0 \in 0..PageBytes
    BY <1>2, <1>3, <1>5, PageType
  <2>2. q + 1 \in Nat /\ i + 1 \in Nat
    OBVIOUS
  <2>3. QED
    BY <2>1, <2>2, TurnIs
<1>6. QED
  BY <1>1, <1>4, <1>5

\* The loops start with the first byte of the first page.
LEMMA TurnFirst == PageAt(1) = 0 /\ ByteAt(1) = 0
<1>1. 1 = 0 * PageBytes + 0 + 0 + 1 /\ 0 \in 0..PageBytes
  BY PageType
<1>2. QED
  BY <1>1, TurnIs

\* The turns of the loop over the file: bytes that are there are loaded, then the
\* page is written; the last turn writes the last page.
LEMMA PagesOfFile ==
    ASSUME NEW n \in Nat
    PROVE  /\ PagesOf(n) \in Nat
           /\ n <= PagesOf(n) * PageBytes
           /\ \A q \in Nat : q < PagesOf(n) => q * PageBytes \in Nat /\ q * PageBytes < n
<1>1. PICK d \in Nat \ {0} : d = PageBytes
  BY PageType
<1>2. PICK a \in Nat : a = n + d - 1
  OBVIOUS
<1>3. PICK p \in Nat, s \in 0..d-1 : p = a \div d /\ a = d * p + s
  BY DivMod
<1>4. PagesOf(n) = p
  BY <1>1, <1>2, <1>3 DEF PagesOf
<1>5. d * p = p * d /\ p * d \in Nat
  OBVIOUS
<1>6. n <= p * d /\ p * d < n + d
  BY <1>2, <1>3, <1>5
<1>7. ASSUME NEW q \in Nat, q < p PROVE q * d \in Nat /\ q * d < n
  <2>1. q * d \in Nat /\ (q + 1) * d = q * d + d
    BY NextMultiple
  <2>2. (q + 1) * d <= p * d
    BY <1>7, Monotone
  <2>3. QED
    BY <1>6, <2>1, <2>2, <1>5
<1>8. QED
  BY <1>1, <1>4, <1>6, <1>7

\* Turns of the loop over the file.
TurnsOf(n) == 2 * (n \div 2) + PagesOf(n)

\* What a turn of the loop over the file does, and when it is the last one.
LEMMA ProgramTurn ==
    ASSUME NEW n \in Nat, NEW i \in 1 .. TurnsOf(n), NEW q, NEW b, NEW w,
           q = PageAt(i), b = ByteAt(i), w = 2 * WordsOf(n, q)
    PROVE  /\ q \in Nat /\ q < PagesOf(n) /\ b \in 0..w /\ w \in 0..PageBytes
           /\ b < w => i + 1 \in 1 .. TurnsOf(n)
           /\ b = w /\ i # TurnsOf(n) => w = PageBytes
           /\ b = w /\ i = TurnsOf(n) => q + 1 = PagesOf(n)
           /\ \A x \in 0..PageBytes-1 : x < w <=> q * PageBytes + x < 2 * (n \div 2)
<1>1. PICK h \in Nat, P \in Nat, D \in Nat : h = 2 * (n \div 2) /\ P = PagesOf(n) /\ D = PageBytes
  BY EvenPart, PagesOfFile, PageType
<1>2. h <= n /\ n <= h + 1 /\ i \in 1..h + P /\ i \in Nat \ {0}
  BY <1>1, EvenPart DEF TurnsOf
<1>3. q \in Nat /\ b \in 0..D /\ i = q * D + q + b + 1
  BY <1>1, <1>2, TurnAt
<1>4. PICK X \in Nat : X = q * D
  BY <1>3, Monotone
<1>5. i = X + q + b + 1
  BY <1>3, <1>4
<1>6. q < P
  <2>1. SUFFICES ASSUME P <= q PROVE FALSE
    BY <1>3
  <2>2. P * D <= X /\ P * D \in Nat
    BY <1>3, <1>4, <2>1, Monotone
  <2>3. n <= P * D
    BY <1>1, PagesOfFile
  <2>4. QED
    BY <1>2, <1>3, <1>5, <2>1, <2>2, <2>3
<1>7. X < n
  BY <1>1, <1>3, <1>4, <1>6, PagesOfFile
<1>8. PICK y \in Nat : X = 2 * y
  <2>1. D = 2 * (D \div 2) /\ D \div 2 \in Nat
    BY <1>1, PageType
  <2>2. X = q * (2 * (D \div 2))
    BY <1>4, <2>1
  <2>3. q * (2 * (D \div 2)) = 2 * (q * (D \div 2)) /\ q * (D \div 2) \in Nat
    BY <1>3, <2>1
  <2>4. QED
    BY <2>2, <2>3
\* The words of the page: all of it, or the rest of the file.
<1>9. /\ n - X >= D => w = D
      /\ n - X < D => w = h - X
  <2>1. WordsOf(n, q) = (IF n - X < D THEN n - X ELSE D) \div 2
    BY <1>1, <1>4 DEF WordsOf
  <2>2. n - X >= D => w = D
    <3>1. D = 2 * (D \div 2)
      BY <1>1, PageType
    <3>2. QED
      BY <2>1, <3>1, <1>1, <1>4
  <2>3. n - X < D => w = h - X
    <3>1. 2 * ((n - X) \div 2) = h - X
      BY <1>1, <1>7, <1>8, EvenRest
    <3>2. QED
      BY <2>1, <3>1
  <2>4. QED
    BY <2>2, <2>3
<1>10. PICK e \in Nat : D = 2 * e
  BY <1>1, PageType
<1>11. D > 1
  BY <1>1, PageType
<1>12. /\ b \in 0..w /\ w \in 0..D
       /\ b < w => i + 1 \in 1 .. h + P
       /\ b = w /\ i # h + P => w = D
       /\ b = w /\ i = h + P => q + 1 = P
       /\ \A x \in 0..D-1 : x < w <=> X + x < h
  <2>1. CASE q + 1 = P
    <3>1. n <= X + D
      <4>1. (q + 1) * D = X + D
        BY <1>3, <1>4, NextMultiple
      <4>2. n <= P * D
        BY <1>1, PagesOfFile
      <4>3. QED
        BY <2>1, <4>1, <4>2
    <3>2. w = h - X
      <4>1. CASE n - X < D
        BY <1>9, <4>1
      <4>2. CASE n - X >= D
        <5>1. n = X + D
          BY <3>1, <4>2
        <5>2. h = X + D
          BY <1>1, <1>2, <1>8, <1>10, <5>1
        <5>3. QED
          BY <1>9, <4>2, <5>2
      <4>3. QED
        BY <4>1, <4>2
    <3>3. w <= D /\ w \in 0..D
      BY <1>2, <1>7, <1>8, <3>1, <3>2, <1>1
    <3>4. b <= w /\ (b < w => i + 1 <= h + P) /\ (b = w => i = h + P)
      BY <1>2, <1>3, <1>5, <2>1, <3>2, <3>3
    <3>5. \A x \in 0..D-1 : x < w <=> X + x < h
      BY <3>2, <3>3
    <3>6. QED
      BY <1>2, <1>3, <2>1, <3>3, <3>4, <3>5
  <2>2. CASE q + 1 < P
    <3>1. (q + 1) * D = X + D
      BY <1>3, <1>4, NextMultiple
    <3>2. X + D < n
      <4>1. PICK r \in Nat : r = q + 1
        BY <1>3
      <4>2. r * PageBytes < n
        BY <1>1, <2>2, <4>1, PagesOfFile
      <4>3. r * D < n
        BY <1>1, <4>2
      <4>4. QED
        BY <3>1, <4>1, <4>3
    <3>3. w = D
      BY <1>9, <3>2
    <3>4. i + 1 <= h + P /\ i < h + P
      BY <1>2, <1>3, <1>5, <2>2, <3>2
    <3>5. \A x \in 0..D-1 : x < w <=> X + x < h
      BY <1>2, <3>2, <3>3
    <3>6. QED
      BY <1>2, <1>3, <1>11, <3>3, <3>4, <3>5
  <2>3. QED
    BY <1>3, <1>6, <2>1, <2>2
<1>13. QED
  BY <1>1, <1>3, <1>4, <1>6, <1>12 DEF TurnsOf

-----------------------------------------------------------------------------
(* Steps of a call.                                                         *)

\* The microcontroller is held in reset, and released.
Hold    == set_reset(TRUE)
Release == set_reset(FALSE)
\* The two steps around a session.
LEMMA ResetSteps ==
    /\ Hold.do = "reset" /\ Hold.on = TRUE
    /\ Release.do = "reset" /\ Release.on = FALSE
BY DEF Hold, Release, set_reset

\* The steps of a session, by their positions.
LEMMA SessionSteps ==
    ASSUME NEW S, NEW c \in Seq(S)
    PROVE  /\ Len(c) \in Nat /\ Len(Session(c)) = Len(c) + 3
           /\ Session(c)[1] = Hold /\ Session(c)[2] = enter_prog_mode
           /\ \A k \in 1..Len(c) : Session(c)[k + 2] = c[k]
           /\ Session(c)[Len(c) + 3] = Release
<1>1. PICK r, e, f : r = Hold /\ e = enter_prog_mode /\ f = Release
  OBVIOUS
<1>2. PICK T : T = S \cup {r, e, f}
  OBVIOUS
<1>3. <<r, e>> \in Seq(T) /\ Len(<<r, e>>) = 2 /\ <<r, e>>[1] = r /\ <<r, e>>[2] = e
  BY <1>2
<1>4. <<f>> \in Seq(T) /\ Len(<<f>>) = 1 /\ <<f>>[1] = f
  BY <1>2
<1>5. c \in Seq(T) /\ Len(c) \in Nat
  BY <1>2
<1>6. PICK a : a = <<r, e>>
  OBVIOUS
<1>7. PICK s : s = a \o c
  OBVIOUS
<1>8. /\ s \in Seq(T) /\ Len(s) = Len(c) + 2
      /\ \A k \in 1 .. Len(c) + 2 : s[k] = IF k <= 2 THEN a[k] ELSE c[k - 2]
  <2>1. a \in Seq(T) /\ Len(a) = 2
    BY <1>3, <1>6
  <2>2. /\ a \o c \in Seq(T) /\ Len(a \o c) = Len(a) + Len(c)
        /\ \A k \in 1 .. Len(a) + Len(c) : (a \o c)[k] = IF k <= Len(a) THEN a[k] ELSE c[k - Len(a)]
    BY <1>5, <2>1, ConcatProperties
  <2>3. QED
    BY <1>5, <1>7, <2>1, <2>2
<1>9. PICK g : g = <<f>>
  OBVIOUS
<1>10. PICK t : t = s \o g
  OBVIOUS
<1>11. /\ Len(t) = Len(c) + 3
       /\ \A k \in 1 .. Len(c) + 3 : t[k] = IF k <= Len(c) + 2 THEN s[k] ELSE g[k - (Len(c) + 2)]
  <2>1. g \in Seq(T) /\ Len(g) = 1
    BY <1>4, <1>9
  <2>2. /\ Len(s \o g) = Len(s) + Len(g)
        /\ \A k \in 1 .. Len(s) + Len(g) : (s \o g)[k] = IF k <= Len(s) THEN s[k] ELSE g[k - Len(s)]
    BY <1>8, <2>1, ConcatProperties
  <2>3. QED
    BY <1>5, <1>8, <1>10, <2>1, <2>2
<1>12. Session(c) = t
  BY <1>1, <1>6, <1>7, <1>9, <1>10 DEF Session, Hold, Release
<1>13. t[1] = r /\ t[2] = e
  BY <1>3, <1>5, <1>6, <1>8, <1>11
<1>14. ASSUME NEW k \in 1..Len(c) PROVE t[k + 2] = c[k]
  <2>1. k + 2 \in 1 .. Len(c) + 2 /\ k + 2 \in 1 .. Len(c) + 3 /\ ~ (k + 2 <= 2) /\ (k + 2) - 2 = k
    BY <1>5, <1>14
  <2>2. t[k + 2] = s[k + 2] /\ s[k + 2] = c[k]
    BY <1>5, <1>8, <1>11, <2>1
  <2>3. QED
    BY <2>2
<1>15. t[Len(c) + 3] = f
  <2>1. Len(c) + 3 \in 1 .. Len(c) + 3 /\ ~ (Len(c) + 3 <= Len(c) + 2) /\ Len(c) + 3 - (Len(c) + 2) = 1
    BY <1>5
  <2>2. t[Len(c) + 3] = g[1]
    BY <1>11, <2>1
  <2>3. QED
    BY <1>4, <1>9, <2>2
<1>16. QED
  BY <1>1, <1>5, <1>11, <1>12, <1>13, <1>14, <1>15

\* The same for a session whose commands follow the extended address.
LEMMA AddressedSteps ==
    ASSUME NEW m \in Nat, NEW p, p = [i \in 1..m |-> p[i]]
    PROVE  LET s == Session(<<load_extended_addr>> \o p) IN
           /\ Len(s) = m + 4
           /\ s[1] = Hold /\ s[2] = enter_prog_mode /\ s[3] = load_extended_addr
           /\ \A k \in 1..m : s[k + 3] = p[k]
           /\ s[m + 4] = Release
<1>1. PICK x : x = load_extended_addr
  OBVIOUS
<1>2. PICK T : T = {x} \cup {p[i] : i \in 1..m}
  OBVIOUS
<1>3. p \in Seq(T) /\ Len(p) = m
  BY <1>2
<1>4. PICK a : a = <<x>>
  OBVIOUS
<1>5. a \in Seq(T) /\ Len(a) = 1 /\ a[1] = x
  BY <1>2, <1>4
<1>6. PICK c : c = a \o p
  OBVIOUS
<1>7. /\ c \in Seq(T) /\ Len(c) = m + 1
      /\ \A k \in 1 .. m + 1 : c[k] = IF k <= 1 THEN a[k] ELSE p[k - 1]
  <2>1. /\ a \o p \in Seq(T) /\ Len(a \o p) = Len(a) + Len(p)
        /\ \A k \in 1 .. Len(a) + Len(p) : (a \o p)[k] = IF k <= Len(a) THEN a[k] ELSE p[k - Len(a)]
    BY <1>3, <1>5, ConcatProperties
  <2>2. QED
    BY <1>3, <1>5, <1>6, <2>1
<1>8. PICK s : s = Session(c)
  OBVIOUS
<1>9. /\ Len(s) = Len(c) + 3 /\ s[1] = Hold /\ s[2] = enter_prog_mode
      /\ \A k \in 1..Len(c) : s[k + 2] = c[k]
      /\ s[Len(c) + 3] = Release
  BY <1>7, <1>8, SessionSteps
<1>10. Len(s) = m + 4 /\ s[m + 4] = Release
  <2>1. Len(c) + 3 = m + 4
    BY <1>7
  <2>2. Len(s) = Len(c) + 3 /\ s[Len(c) + 3] = Release
    BY <1>9
  <2>3. QED
    BY <2>1, <2>2, Zenon
<1>11. s[3] = x
  <2>1. 1 \in 1..Len(c) /\ 1 + 2 = 3
    BY <1>7
  <2>2. s[3] = c[1]
    BY <1>9, <2>1
  <2>3. c[1] = a[1]
    <3>1. PICK j \in 1 .. m + 1 : j = 1
      OBVIOUS
    <3>2. c[j] = IF j <= 1 THEN a[j] ELSE p[j - 1]
      BY <1>7, Zenon
    <3>3. j <= 1
      BY <3>1
    <3>4. QED
      BY <3>1, <3>2, <3>3, Zenon
  <2>4. QED
    BY <1>5, <2>2, <2>3, Zenon
<1>12. ASSUME NEW k \in 1..m PROVE s[k + 3] = p[k]
  <2>1. k + 1 \in 1..Len(c) /\ k + 1 \in 1 .. m + 1 /\ (k + 1) + 2 = k + 3 /\ ~ (k + 1 <= 1) /\ (k + 1) - 1 = k
    BY <1>7, <1>12
  <2>2. s[k + 3] = c[k + 1]
    BY <1>9, <2>1
  <2>3. c[k + 1] = p[k]
    BY <1>7, <2>1
  <2>4. QED
    BY <2>2, <2>3
<1>13. Session(<<load_extended_addr>> \o p) = s
  BY <1>1, <1>4, <1>6, <1>8
<1>14. QED
  BY <1>1, <1>9, <1>10, <1>11, <1>12, <1>13


\* The steps of every call.
LEMMA SimpleSteps ==
    ASSUME NEW n
    PROVE  /\ LET s == StepsOf("configure_spi", n) IN Len(s) = 1 /\ s[1].do = "configure"
           /\ LET s == StepsOf("abort", n) IN Len(s) = 1 /\ s[1].do = "abort"
           /\ LET s == StepsOf("reset", n) IN
              Len(s) = 2 /\ s[1] = Hold /\ s[2] = Release
<1>1. StepsOf("configure_spi", n) = <<[do |-> "configure"]>>
  BY DEF StepsOf
<1>2. StepsOf("abort", n) = <<[do |-> "abort"]>>
  BY DEF StepsOf
<1>3. StepsOf("reset", n) = <<Hold, Release>>
  BY DEF StepsOf, Hold, Release
<1>4. /\ LET s == <<[do |-> "configure"]>> IN Len(s) = 1 /\ s[1].do = "configure"
      /\ LET s == <<[do |-> "abort"]>> IN Len(s) = 1 /\ s[1].do = "abort"
  OBVIOUS
<1>5. ASSUME NEW r, NEW f PROVE Len(<<r, f>>) = 2 /\ <<r, f>>[1] = r /\ <<r, f>>[2] = f
  OBVIOUS
<1>6. LET s == StepsOf("configure_spi", n) IN Len(s) = 1 /\ s[1].do = "configure"
  BY <1>1, <1>4
<1>7. LET s == StepsOf("abort", n) IN Len(s) = 1 /\ s[1].do = "abort"
  BY <1>2, <1>4
<1>8. LET s == StepsOf("reset", n) IN Len(s) = 2 /\ s[1] = Hold /\ s[2] = Release
  BY <1>3, <1>5
<1>9. QED
  BY <1>6, <1>7, <1>8

\* The steps of earse_chip().
LEMMA EraseSteps ==
    ASSUME NEW n
    PROVE  LET s == StepsOf("earse_chip", n) IN
           /\ Len(s) = 4
           /\ s[1] = Hold /\ s[2] = enter_prog_mode
           /\ s[3] = Command("ERASE_CHIP") /\ s[4] = Release
<1>1. PICK x : x = Command("ERASE_CHIP")
  OBVIOUS
<1>2. PICK c : c = <<x>>
  OBVIOUS
<1>3. c \in Seq({x}) /\ Len(c) = 1 /\ c[1] = x
  BY <1>2
<1>4. PICK s : s = Session(c)
  OBVIOUS
<1>5. /\ Len(s) = Len(c) + 3 /\ s[1] = Hold /\ s[2] = enter_prog_mode
      /\ \A k \in 1..Len(c) : s[k + 2] = c[k]
      /\ s[Len(c) + 3] = Release
  BY <1>3, <1>4, SessionSteps
<1>6. StepsOf("earse_chip", n) = s
  BY <1>1, <1>2, <1>4 DEF StepsOf
<1>7. Len(c) + 3 = 4
  BY <1>3
<1>8. s[3] = x
  <2>1. PICK k \in 1..Len(c) : k = 1
    BY <1>3
  <2>2. s[k + 2] = c[k]
    BY <1>5
  <2>3. k + 2 = 3
    BY <2>1
  <2>4. QED
    BY <1>3, <2>1, <2>2, <2>3, Zenon
<1>9. QED
  BY <1>1, <1>5, <1>6, <1>7, <1>8, Zenon

\* The steps of spi_print_device_status().
LEMMA StatusSteps ==
    ASSUME NEW n
    PROVE  LET s == StepsOf("status", n) IN
           /\ Len(s) = 6
           /\ s[1] = Hold /\ s[2] = enter_prog_mode /\ s[6] = Release
           /\ \A k \in 3..5 : s[k] = Command("READ_SIG")
<1>1. PICK x : x = Command("READ_SIG")
  OBVIOUS
<1>2. PICK c : c = [i \in 1..3 |-> x]
  OBVIOUS
<1>3. c \in Seq({x}) /\ Len(c) = 3 /\ \A k \in 1..3 : c[k] = x
  BY <1>2
<1>4. PICK s : s = Session(c)
  OBVIOUS
<1>5. /\ Len(s) = Len(c) + 3 /\ s[1] = Hold /\ s[2] = enter_prog_mode
      /\ \A k \in 1..Len(c) : s[k + 2] = c[k]
      /\ s[Len(c) + 3] = Release
  BY <1>3, <1>4, SessionSteps
<1>6. StepsOf("status", n) = s
  BY <1>1, <1>2, <1>4 DEF StepsOf, read_device_signature
<1>7. Len(c) + 3 = 6
  BY <1>3
<1>8. ASSUME NEW k \in 3..5 PROVE s[k] = x
  <2>1. PICK i \in 1..3 : i + 2 = k
    BY k - 2 \in 1..3
  <2>2. s[i + 2] = c[i]
    BY <1>3, <1>5
  <2>3. QED
    BY <1>3, <2>1, <2>2, Zenon
<1>9. QED
  BY <1>1, <1>5, <1>6, <1>7, <1>8, Zenon

\* The steps of the programming of a file.
LEMMA ProgramSteps ==
    ASSUME NEW n \in Nat
    PROVE  LET s == StepsOf("program", n) IN
           /\ TurnsOf(n) \in Nat /\ Len(s) = TurnsOf(n) + 4
           /\ s[1] = Hold /\ s[2] = enter_prog_mode /\ s[3] = load_extended_addr
           /\ \A i \in 1..TurnsOf(n) :
                  s[i + 3] = IF ByteAt(i) < 2 * WordsOf(n, PageAt(i))
                             THEN load_mem_page(n, PageAt(i), ByteAt(i)) ELSE prog_mem_page(PageAt(i))
           /\ s[TurnsOf(n) + 4] = Release
<1>1. PICK m \in Nat : m = TurnsOf(n)
  BY EvenPart, PagesOfFile DEF TurnsOf
<1>2. PICK p : p = ProgramPages(n)
  OBVIOUS
<1>3. /\ p = [i \in 1..m |-> p[i]]
      /\ \A i \in 1..m : p[i] = IF ByteAt(i) < 2 * WordsOf(n, PageAt(i))
                                THEN load_mem_page(n, PageAt(i), ByteAt(i)) ELSE prog_mem_page(PageAt(i))
  BY <1>1, <1>2 DEF ProgramPages, TurnsOf
<1>4. PICK s : s = Session(<<load_extended_addr>> \o p)
  OBVIOUS
<1>5. /\ Len(s) = m + 4
      /\ s[1] = Hold /\ s[2] = enter_prog_mode /\ s[3] = load_extended_addr
      /\ \A k \in 1..m : s[k + 3] = p[k]
      /\ s[m + 4] = Release
  BY <1>3, <1>4, AddressedSteps
<1>6. StepsOf("program", n) = s
  BY <1>2, <1>4 DEF StepsOf
<1>7. QED
  BY <1>1, <1>3, <1>5, <1>6, Zenon

DumpTurns == Pages * (PageBytes + 1)
\* The steps of a dump.
LEMMA DumpSteps ==
    ASSUME NEW n
    PROVE  LET s == StepsOf("dump", n) IN
           /\ DumpTurns \in Nat \ {0} /\ Len(s) = DumpTurns + 4
           /\ s[1] = Hold /\ s[2] = enter_prog_mode /\ s[3] = load_extended_addr
           /\ \A i \in 1..DumpTurns :
                  s[i + 3] = IF ByteAt(i) < PageBytes THEN read_mem_page(PageAt(i) * PageBytes + ByteAt(i))
                             ELSE [do |-> "write"]
           /\ s[DumpTurns + 4] = Release
<1>1. PICK m \in Nat \ {0} : m = DumpTurns
  <2>1. PICK d \in Nat \ {0}, g \in Nat \ {0} : d = PageBytes + 1 /\ g = Pages
    BY PageType
  <2>2. g * d \in Nat /\ g * d > 0
    OBVIOUS
  <2>3. QED
    BY <2>1, <2>2 DEF DumpTurns
<1>2. PICK p : p = DumpPages
  OBVIOUS
<1>3. /\ p = [i \in 1..m |-> p[i]]
      /\ \A i \in 1..m : p[i] = IF ByteAt(i) < PageBytes
                                THEN read_mem_page(PageAt(i) * PageBytes + ByteAt(i)) ELSE [do |-> "write"]
  BY <1>1, <1>2 DEF DumpPages, DumpTurns
<1>4. PICK s : s = Session(<<load_extended_addr>> \o p)
  OBVIOUS
<1>5. /\ Len(s) = m + 4
      /\ s[1] = Hold /\ s[2] = enter_prog_mode /\ s[3] = load_extended_addr
      /\ \A k \in 1..m : s[k + 3] = p[k]
      /\ s[m + 4] = Release
  BY <1>3, <1>4, AddressedSteps
<1>6. StepsOf("dump", n) = s
  BY <1>2, <1>4 DEF StepsOf
<1>7. QED
  BY <1>1, <1>3, <1>5, <1>6, Zenon

\* What is between the entry into programming mode and the end of the session.
BodyStep(call, s) ==
    \/ call = "earse_chip" /\ s = Command("ERASE_CHIP")
    \/ call = "status" /\ s = Command("READ_SIG")
    \/ call = "program" /\ s.do = "command" /\ s.cmd \in {"EXT_ADDR", "PROG_LOW", "PROG_HIGH", "WRITE_PAGE"}
    \/ call = "dump" /\ s.do = "command" /\ s.cmd \in {"EXT_ADDR", "READ_LOW", "READ_HIGH"}
    \/ call = "dump" /\ s.do = "write"

\* In which step of a call with n steps the job is, at step k, which is s.
StepIs(call, k, n, s) ==
    \/ call = "configure_spi" /\ k = 1 /\ n = 1 /\ s.do = "configure"
    \/ call = "abort" /\ k = 1 /\ n = 1 /\ s.do = "abort"
    \/ call \in Sessions \cup {"reset"} /\ k = 1 /\ k < n /\ s = Hold
    \/ call = "reset" /\ k = 2 /\ n = 2 /\ s = Release
    \/ call \in Sessions /\ k = 2 /\ k < n /\ s = enter_prog_mode
    \/ call \in Sessions /\ k >= 3 /\ k < n /\ BodyStep(call, s)
    \/ call \in Sessions /\ k >= 4 /\ k = n /\ s = Release

\* The fields of a command.
LEMMA Commands ==
    ASSUME NEW c, NEW a
    PROVE  /\ Command(c).do = "command" /\ Command(c).cmd = c /\ Command(c).addr = 0
           /\ At(c, a).do = "command" /\ At(c, a).cmd = c /\ At(c, a).addr = a
BY DEF Command, At

\* load_mem_page() sends a byte of the file to its place in the buffer.
LEMMA LoadMemPage ==
    ASSUME NEW n, NEW q, NEW b
    PROVE  LET s == load_mem_page(n, q, b) IN
           /\ s.do = "command" /\ s.cmd \in {"PROG_LOW", "PROG_HIGH"} /\ s.addr = b
           /\ s.byte = FileByte(n, q * PageBytes + b)
<1>1. PICK f : f = FileByte(n, q * PageBytes + b)
  OBVIOUS
<1>2. PICK c \in {"PROG_LOW", "PROG_HIGH"} : c = IF b % 2 = 0 THEN "PROG_LOW" ELSE "PROG_HIGH"
  OBVIOUS
<1>3. load_mem_page(n, q, b) = [At(c, b) EXCEPT !.byte = f]
  BY <1>1, <1>2 DEF load_mem_page
<1>4. LET s == [At(c, b) EXCEPT !.byte = f] IN
      s.do = "command" /\ s.cmd = c /\ s.addr = b /\ s.byte = f
  BY DEF At, Command
<1>5. QED
  BY <1>1, <1>2, <1>3, <1>4

\* prog_mem_page() writes the page that begins at its address.
LEMMA ProgMemPage ==
    ASSUME NEW q
    PROVE  LET s == prog_mem_page(q) IN
           s.do = "command" /\ s.cmd = "WRITE_PAGE" /\ s.addr = q * PageBytes
BY Commands DEF prog_mem_page

\* read_mem_page() reads the byte at its address.
LEMMA ReadMemPage ==
    ASSUME NEW a
    PROVE  LET s == read_mem_page(a) IN
           s.do = "command" /\ s.cmd \in {"READ_LOW", "READ_HIGH"} /\ s.addr = a
<1>1. PICK c \in {"READ_LOW", "READ_HIGH"} : c = IF a % 2 = 0 THEN "READ_LOW" ELSE "READ_HIGH"
  OBVIOUS
<1>2. read_mem_page(a) = At(c, a)
  BY <1>1 DEF read_mem_page
<1>3. QED
  BY <1>2, Commands

\* Every step of every call is of a kind that fits its position.
LEMMA StepKinds ==
    ASSUME NEW call \in CallNames, NEW n, call = "program" => n \in Nat
    PROVE  LET s == StepsOf(call, n) IN
           /\ Len(s) \in Nat \ {0}
           /\ \A k \in 1..Len(s) : StepIs(call, k, Len(s), s[k])
<1>1. PICK s : s = StepsOf(call, n)
  OBVIOUS
<1>2. SUFFICES Len(s) \in Nat \ {0} /\ \A k \in 1..Len(s) : StepIs(call, k, Len(s), s[k])
  BY <1>1, Zenon
<1>3. CASE call = "configure_spi"
  <2>1. Len(s) = 1 /\ s[1].do = "configure"
    BY <1>1, <1>3, SimpleSteps
  <2>2. ASSUME NEW k \in 1..Len(s) PROVE StepIs(call, k, Len(s), s[k])
    BY <1>3, <2>1 DEF StepIs
  <2>3. QED
    BY <2>1, <2>2
<1>4. CASE call = "abort"
  <2>1. Len(s) = 1 /\ s[1].do = "abort"
    BY <1>1, <1>4, SimpleSteps
  <2>2. ASSUME NEW k \in 1..Len(s) PROVE StepIs(call, k, Len(s), s[k])
    BY <1>4, <2>1 DEF StepIs
  <2>3. QED
    BY <2>1, <2>2
<1>5. CASE call = "reset"
  <2>1. Len(s) = 2 /\ s[1] = Hold /\ s[2] = Release
    BY <1>1, <1>5, SimpleSteps
  <2>2. ASSUME NEW k \in 1..Len(s) PROVE StepIs(call, k, Len(s), s[k])
    <3>1. k = 1 \/ k = 2
      BY <2>1, <2>2
    <3>2. QED
      BY <1>5, <2>1, <3>1 DEF StepIs
  <2>3. QED
    BY <2>1, <2>2
<1>6. ASSUME call \in Sessions, NEW l \in Nat, l >= 4, Len(s) = l,
             s[1] = Hold, s[2] = enter_prog_mode, s[l] = Release,
             \A k \in 3 .. l - 1 : BodyStep(call, s[k])
      PROVE  Len(s) \in Nat \ {0} /\ \A k \in 1..Len(s) : StepIs(call, k, Len(s), s[k])
  <2>1. ASSUME NEW k \in 1..l PROVE StepIs(call, k, l, s[k])
    <3>1. CASE k = 1
      <4>1. k < l /\ s[k] = Hold
        BY <1>6, <3>1
      <4>2. QED
        BY <1>6, <3>1, <4>1 DEF StepIs
    <3>2. CASE k = 2
      <4>1. k < l /\ s[k] = enter_prog_mode
        BY <1>6, <3>2
      <4>2. QED
        BY <1>6, <3>2, <4>1 DEF StepIs
    <3>3. CASE k = l
      <4>1. k >= 4 /\ s[k] = Release
        BY <1>6, <3>3
      <4>2. QED
        BY <1>6, <3>3, <4>1 DEF StepIs
    <3>4. CASE k \in 3 .. l - 1
      <4>1. k >= 3 /\ k < l /\ BodyStep(call, s[k])
        BY <1>6, <3>4
      <4>2. QED
        BY <1>6, <4>1 DEF StepIs
    <3>5. QED
      BY <1>6, <2>1, <3>1, <3>2, <3>3, <3>4
  <2>2. QED
    BY <1>6, <2>1
<1>7. CASE call = "earse_chip"
  <2>1. /\ Len(s) = 4 /\ s[1] = Hold /\ s[2] = enter_prog_mode
        /\ s[3] = Command("ERASE_CHIP") /\ s[4] = Release
    BY <1>1, <1>7, EraseSteps
  <2>2. BodyStep(call, s[3])
    BY <1>7, <2>1 DEF BodyStep
  <2>3. call \in Sessions
    BY <1>7 DEF Sessions
  <2>4. 4 \in Nat /\ 4 >= 4 /\ \A k \in 3 .. 4 - 1 : BodyStep(call, s[k])
    BY <2>2
  <2>5. QED
    BY <1>6, <2>1, <2>3, <2>4, Zenon
<1>8. CASE call = "status"
  <2>1. /\ Len(s) = 6 /\ s[1] = Hold /\ s[2] = enter_prog_mode /\ s[6] = Release
        /\ \A k \in 3..5 : s[k] = Command("READ_SIG")
    BY <1>1, <1>8, StatusSteps
  <2>2. \A k \in 3..5 : BodyStep(call, s[k])
    BY <1>8, <2>1 DEF BodyStep
  <2>3. call \in Sessions
    BY <1>8 DEF Sessions
  <2>4. 6 \in Nat /\ 6 >= 4 /\ \A k \in 3 .. 6 - 1 : BodyStep(call, s[k])
    BY <2>2
  <2>5. QED
    BY <1>6, <2>1, <2>3, <2>4, Zenon
<1>9. CASE call = "program"
  <2>1. PICK m \in Nat :
           /\ m = TurnsOf(n) /\ Len(s) = m + 4
           /\ s[1] = Hold /\ s[2] = enter_prog_mode /\ s[3] = load_extended_addr
           /\ \A i \in 1..m :
                  s[i + 3] = IF ByteAt(i) < 2 * WordsOf(n, PageAt(i))
                             THEN load_mem_page(n, PageAt(i), ByteAt(i)) ELSE prog_mem_page(PageAt(i))
           /\ s[m + 4] = Release
    BY <1>1, <1>9, ProgramSteps
  <2>2. ASSUME NEW k \in 3 .. m + 3
        PROVE  s[k].do = "command" /\ s[k].cmd \in {"EXT_ADDR", "PROG_LOW", "PROG_HIGH", "WRITE_PAGE"}
    <3>1. CASE k = 3
      BY <2>1, <3>1, Commands DEF load_extended_addr
    <3>2. CASE k \in 4 .. m + 3
      <4>1. PICK i \in 1..m : i + 3 = k
        BY <3>2, k - 3 \in 1..m
      <4>2. s[k] = load_mem_page(n, PageAt(i), ByteAt(i)) \/ s[k] = prog_mem_page(PageAt(i))
        BY <2>1, <4>1
      <4>3. QED
        BY <4>2, LoadMemPage, ProgMemPage
    <3>3. QED
      BY <2>2, <3>1, <3>2
  <2>3. \A k \in 3 .. m + 3 : BodyStep(call, s[k])
    BY <1>9, <2>2 DEF BodyStep
  <2>4. call \in Sessions
    BY <1>9 DEF Sessions
  <2>5. PICK l \in Nat : l = m + 4
    OBVIOUS
  <2>6. l >= 4 /\ \A k \in 3 .. l - 1 : BodyStep(call, s[k])
    BY <2>3, <2>5
  <2>7. Len(s) = l /\ s[l] = Release
    BY <2>1, <2>5, Zenon
  <2>8. QED
    BY <1>6, <2>1, <2>4, <2>6, <2>7, Zenon
<1>10. CASE call = "dump"
  <2>1. PICK m \in Nat :
           /\ m = DumpTurns /\ Len(s) = m + 4
           /\ s[1] = Hold /\ s[2] = enter_prog_mode /\ s[3] = load_extended_addr
           /\ \A i \in 1..m :
                  s[i + 3] = IF ByteAt(i) < PageBytes THEN read_mem_page(PageAt(i) * PageBytes + ByteAt(i))
                             ELSE [do |-> "write"]
           /\ s[m + 4] = Release
    BY <1>1, <1>10, DumpSteps
  <2>2. ASSUME NEW k \in 3 .. m + 3
        PROVE  \/ s[k].do = "command" /\ s[k].cmd \in {"EXT_ADDR", "READ_LOW", "READ_HIGH"}
               \/ s[k].do = "write"
    <3>1. CASE k = 3
      BY <2>1, <3>1, Commands DEF load_extended_addr
    <3>2. CASE k \in 4 .. m + 3
      <4>1. PICK i \in 1..m : i + 3 = k
        BY <3>2, k - 3 \in 1..m
      <4>2. s[k] = read_mem_page(PageAt(i) * PageBytes + ByteAt(i)) \/ s[k] = [do |-> "write"]
        BY <2>1, <4>1
      <4>3. QED
        BY <4>2, ReadMemPage
    <3>3. QED
      BY <2>2, <3>1, <3>2
  <2>3. \A k \in 3 .. m + 3 : BodyStep(call, s[k])
    BY <1>10, <2>2 DEF BodyStep
  <2>4. call \in Sessions
    BY <1>10 DEF Sessions
  <2>5. PICK l \in Nat : l = m + 4
    OBVIOUS
  <2>6. l >= 4 /\ \A k \in 3 .. l - 1 : BodyStep(call, s[k])
    BY <2>3, <2>5
  <2>7. Len(s) = l /\ s[l] = Release
    BY <2>1, <2>5, Zenon
  <2>8. QED
    BY <1>6, <2>1, <2>4, <2>6, <2>7, Zenon
<1>11. QED
  BY <1>3, <1>4, <1>5, <1>7, <1>8, <1>9, <1>10 DEF CallNames

\* The turns of a dump stay in the flash, and after a byte comes another turn.
LEMMA DumpTurn ==
    ASSUME NEW i \in 1..DumpTurns
    PROVE  PageAt(i) \in Nat /\ PageAt(i) < Pages /\ (ByteAt(i) < PageBytes => i + 1 \in 1..DumpTurns)
<1>1. PICK D \in Nat, P \in Nat : D = PageBytes /\ P = Pages /\ D > 1
  BY PageType
<1>2. PICK m \in Nat : m = P * D /\ DumpTurns = m + P
  BY <1>1, Monotone DEF DumpTurns
<1>3. i \in Nat \ {0} /\ i <= m + P
  BY <1>2
<1>4. PICK q \in Nat, b \in 0..D : q = PageAt(i) /\ b = ByteAt(i) /\ i = q * D + q + b + 1
  BY <1>1, <1>3, TurnAt
<1>5. PICK X \in Nat : X = q * D
  BY <1>4, Monotone
<1>6. i = X + q + b + 1
  BY <1>4, <1>5
<1>7. q < P
  <2>1. SUFFICES ASSUME P <= q PROVE FALSE
    BY <1>4
  <2>2. m <= X
    BY <1>2, <1>5, <2>1, Monotone
  <2>3. QED
    BY <1>3, <1>6, <2>1, <2>2
<1>8. X + D <= m
  <2>1. (q + 1) * D = X + D /\ q + 1 <= P /\ q + 1 \in Nat
    BY <1>5, <1>7, NextMultiple
  <2>2. (q + 1) * D <= m
    BY <1>2, <2>1, Monotone
  <2>3. QED
    BY <2>1, <2>2
<1>9. b < D => i + 1 <= m + P
  BY <1>7, <1>8, <1>6
<1>10. QED
  BY <1>1, <1>2, <1>3, <1>4, <1>7, <1>9

-----------------------------------------------------------------------------
(* Calls of a job.                                                          *)

\* Calls in an order that makes sense, the last one after the configuration.
Fine(cs) ==
    /\ cs \in Seq(CallNames) /\ Len(cs) \in Nat \ {0}
    /\ Ordered(cs)
    /\ Len(cs) > 1 => cs[Len(cs)] # "configure_spi"

\* A call behind a fine sequence of calls.
LEMMA Extend ==
    ASSUME NEW cs, Fine(cs), NEW call \in CallNames \ {"configure_spi"}, ~Has(cs, "dump"),
           call \in {"earse_chip", "program"} => ~Has(cs, "program")
    PROVE  LET t == cs \o <<call>> IN
           /\ Fine(t)
           /\ \A c : Has(t, c) <=> (Has(cs, c) \/ c = call)
<1>1. PICK a : a = <<call>>
  OBVIOUS
<1>2. a \in Seq(CallNames) /\ Len(a) = 1 /\ a[1] = call
  BY <1>1
<1>3. cs \in Seq(CallNames)
  BY DEF Fine
<1>4. PICK n \in Nat \ {0} : n = Len(cs)
  BY DEF Fine
<1>5. PICK t : t = cs \o a
  OBVIOUS
<1>6. /\ t \in Seq(CallNames) /\ Len(t) = Len(cs) + Len(a)
      /\ \A i \in 1 .. Len(cs) + Len(a) : t[i] = IF i <= Len(cs) THEN cs[i] ELSE a[i - Len(cs)]
  BY <1>2, <1>3, <1>5, ConcatProperties
<1>7. PICK m \in Nat \ {0} : m = n + 1
  OBVIOUS
<1>8. /\ Len(t) = m
      /\ \A i \in 1..n : t[i] = cs[i]
  BY <1>2, <1>4, <1>6, <1>7
<1>9. t[m] = call
  <2>1. m \in 1 .. Len(cs) + Len(a) /\ ~ (m <= Len(cs)) /\ m - Len(cs) = 1
    BY <1>2, <1>4, <1>7
  <2>2. t[m] = IF m <= Len(cs) THEN cs[m] ELSE a[m - Len(cs)]
    BY <1>6, <2>1, Zenon
  <2>3. t[m] = a[m - Len(cs)]
    BY <2>1, <2>2, Zenon
  <2>4. QED
    BY <1>2, <2>1, <2>3, Zenon
<1>10. DOMAIN t = 1..m /\ DOMAIN cs = 1..n
  BY <1>3, <1>4, <1>6, <1>8
<1>11. \A i \in 1..m : i \in 1..n \/ i = m
  BY <1>7
<1>12. ASSUME NEW c PROVE Has(t, c) <=> (Has(cs, c) \/ c = call)
  <2>1. ASSUME NEW i \in 1..n PROVE i \in 1..m /\ t[i] = cs[i]
    BY <1>7, <1>8, <2>1
  <2>2. m \in 1..m
    OBVIOUS
  <2>3. QED
    BY <1>9, <1>10, <1>11, <2>1, <2>2, Zenon DEF Has
<1>13. Ordered(t)
  <2>1. SUFFICES ASSUME NEW k \in 1..m, NEW l \in 1..m, k < l
                 PROVE  t[k] # "dump" /\ (t[k] = "program" => t[l] \notin {"earse_chip", "program"})
    BY <1>8, Zenon DEF Ordered
  <2>2. k \in 1..n /\ t[k] = cs[k]
    BY <1>7, <1>8, <2>1
  <2>3. cs[k] # "dump"
    BY <1>10, <2>2 DEF Has
  <2>4. CASE l \in 1..n
    <3>1. t[l] = cs[l]
      BY <1>8, <2>4
    <3>2. QED
      BY <1>4, <2>1, <2>2, <2>4, <3>1 DEF Fine, Ordered
  <2>5. CASE l = m
    <3>1. t[l] = call
      BY <1>9, <2>5
    <3>2. cs[k] = "program" => call \notin {"earse_chip", "program"}
      BY <1>10, <2>2 DEF Has
    <3>3. QED
      BY <2>2, <2>3, <3>1, <3>2
  <2>6. QED
    BY <1>11, <2>4, <2>5
<1>14. Fine(t)
  BY <1>6, <1>8, <1>9, <1>13 DEF Fine
<1>15. QED
  BY <1>1, <1>5, <1>12, <1>14

\* A call that depends on an option.
LEMMA ExtendIf ==
    ASSUME NEW cs, Fine(cs), NEW call \in CallNames \ {"configure_spi"}, NEW b \in BOOLEAN,
           b => ~Has(cs, "dump") /\ (call \in {"earse_chip", "program"} => ~Has(cs, "program"))
    PROVE  LET t == cs \o (IF b THEN <<call>> ELSE <<>>) IN
           /\ Fine(t)
           /\ \A c : Has(t, c) <=> (Has(cs, c) \/ (b /\ c = call))
<1>1. CASE b
  <2>1. PICK t : t = cs \o <<call>>
    OBVIOUS
  <2>2. Fine(t) /\ \A c : Has(t, c) <=> (Has(cs, c) \/ c = call)
    BY <1>1, <2>1, Extend
  <2>3. cs \o (IF b THEN <<call>> ELSE <<>>) = t
    BY <1>1, <2>1
  <2>4. QED
    BY <1>1, <2>2, <2>3, Zenon
<1>2. CASE ~b
  <2>1. cs \o <<>> = cs
    BY ConcatEmptySeq DEF Fine
  <2>2. cs \o (IF b THEN <<call>> ELSE <<>>) = cs
    BY <1>2, <2>1
  <2>3. QED
    BY <1>2, <2>2, Zenon
<1>3. QED
  BY <1>1, <1>2

\* Every job starts with configure_spi().
LEMMA FineFirst ==
    LET s == <<"configure_spi">> IN Fine(s) /\ \A c : Has(s, c) <=> c = "configure_spi"
<1>1. PICK s : s = <<"configure_spi">>
  OBVIOUS
<1>2. s \in Seq(CallNames) /\ Len(s) = 1 /\ DOMAIN s = 1..1 /\ s[1] = "configure_spi"
  BY <1>1 DEF CallNames
<1>3. Ordered(s)
  BY <1>2 DEF Ordered
<1>4. Fine(s)
  BY <1>2, <1>3 DEF Fine
<1>5. \A c : Has(s, c) <=> c = "configure_spi"
  BY <1>2 DEF Has
<1>6. QED
  BY <1>1, <1>4, <1>5

\* What the other lemmas need to know of a job's calls.
JobFine(j) ==
    /\ Fine(Calls(j)) /\ j[3] \in Sizes \cup {NoFile}
    /\ Has(Calls(j), "program") => Erases(j) /\ j[3] \in Sizes

\* The calls of ucctrl, whatever its options are.
LEMMA UcctrlCalls ==
    ASSUME NEW o, NEW n \in Sizes \cup {NoFile}
    PROVE  LET cs == ucctrl(o, n) IN
           Fine(cs) /\ (Has(cs, "program") => Has(cs, "earse_chip") /\ n \in Sizes)
<1>1. PICK be \in BOOLEAN, br \in BOOLEAN, bs \in BOOLEAN, bp \in BOOLEAN, bd \in BOOLEAN :
         /\ be = ({"e", "p"} \cap o # {}) /\ br = ({"r"} \cap o # {}) /\ bs = ({"s"} \cap o # {})
         /\ bp = ({"p"} \cap o # {}) /\ bd = ({"d"} \cap o # {})
  OBVIOUS
<1>2. bp => be
  BY <1>1
<1>3. PICK p, d : /\ p = IF n = NoFile THEN "abort" ELSE "program"
                  /\ d = IF n = NoFile THEN "abort" ELSE "dump"
  OBVIOUS
<1>4. /\ {p, d} \subseteq CallNames \ {"configure_spi", "earse_chip"}
      /\ {"earse_chip", "reset", "status"} \subseteq CallNames \ {"configure_spi"}
      /\ d # "program" /\ p # "dump" /\ (p = "program" => n \in Sizes)
  BY <1>3 DEF CallNames
<1>5. PICK s0 : s0 = <<"configure_spi">>
  OBVIOUS
<1>6. Fine(s0) /\ \A c : Has(s0, c) <=> c = "configure_spi"
  BY <1>5, FineFirst
<1>7. PICK s1 : s1 = s0 \o (IF be THEN <<"earse_chip">> ELSE <<>>)
  OBVIOUS
<1>8. Fine(s1) /\ \A c : Has(s1, c) <=> (Has(s0, c) \/ (be /\ c = "earse_chip"))
  <2>1. ~Has(s0, "dump") /\ ~Has(s0, "program")
    BY <1>6
  <2>2. QED
    BY <1>4, <1>6, <1>7, <2>1, ExtendIf
<1>9. PICK s2 : s2 = s1 \o (IF br THEN <<"reset">> ELSE <<>>)
  OBVIOUS
<1>10. Fine(s2) /\ \A c : Has(s2, c) <=> (Has(s1, c) \/ (br /\ c = "reset"))
  <2>1. ~Has(s1, "dump") /\ ~Has(s1, "program")
    BY <1>6, <1>8
  <2>2. QED
    BY <1>4, <1>8, <1>9, <2>1, ExtendIf
<1>11. PICK s3 : s3 = s2 \o (IF bs THEN <<"status">> ELSE <<>>)
  OBVIOUS
<1>12. Fine(s3) /\ \A c : Has(s3, c) <=> (Has(s2, c) \/ (bs /\ c = "status"))
  <2>1. ~Has(s2, "dump") /\ ~Has(s2, "program")
    BY <1>6, <1>8, <1>10
  <2>2. QED
    BY <1>4, <1>10, <1>11, <2>1, ExtendIf
<1>13. PICK s4 : s4 = s3 \o (IF bp THEN <<p>> ELSE <<>>)
  OBVIOUS
<1>14. Fine(s4) /\ \A c : Has(s4, c) <=> (Has(s3, c) \/ (bp /\ c = p))
  <2>1. ~Has(s3, "dump") /\ ~Has(s3, "program")
    BY <1>6, <1>8, <1>10, <1>12
  <2>2. QED
    BY <1>4, <1>12, <1>13, <2>1, ExtendIf
<1>15. PICK s5 : s5 = s4 \o (IF bd THEN <<d>> ELSE <<>>)
  OBVIOUS
<1>16. Fine(s5) /\ \A c : Has(s5, c) <=> (Has(s4, c) \/ (bd /\ c = d))
  <2>1. ~Has(s4, "dump")
    BY <1>4, <1>6, <1>8, <1>10, <1>12, <1>14
  <2>2. d \in CallNames \ {"configure_spi"} /\ d \notin {"earse_chip", "program"}
    BY <1>4
  <2>3. QED
    BY <1>14, <1>15, <2>1, <2>2, ExtendIf
<1>17. ucctrl(o, n) = s5
  BY <1>1, <1>3, <1>5, <1>7, <1>9, <1>11, <1>13, <1>15, Zenon DEF ucctrl
<1>18. Has(s5, "program") => Has(s5, "earse_chip") /\ n \in Sizes
  <2>1. Has(s5, "program") => bp /\ p = "program"
    BY <1>4, <1>6, <1>8, <1>10, <1>12, <1>14, <1>16
  <2>2. be => Has(s5, "earse_chip")
    BY <1>8, <1>10, <1>12, <1>14, <1>16
  <2>3. QED
    BY <1>2, <1>4, <2>1, <2>2
<1>19. QED
  BY <1>16, <1>17, <1>18

\* The calls of the board test.
LEMMA CheckCalls ==
    ASSUME NEW n \in Sizes \cup {NoFile}
    PROVE  LET cs == checkMicrocontroller(n) IN
           Fine(cs) /\ (Has(cs, "program") => Has(cs, "earse_chip") /\ n \in Sizes)
<1>1. PICK a : a = <<"configure_spi", "status">>
  OBVIOUS
<1>2. a \in Seq(CallNames) /\ Len(a) = 2 /\ a[1] = "configure_spi" /\ a[2] = "status" /\ DOMAIN a = 1..2
  BY <1>1 DEF CallNames
<1>3. Fine(a) /\ ~Has(a, "dump") /\ ~Has(a, "program")
  <2>1. Ordered(a)
    BY <1>2 DEF Ordered
  <2>2. QED
    BY <1>2, <2>1 DEF Fine, Has
<1>4. CASE n = NoFile
  <2>1. a \o <<>> = a
    BY <1>2, ConcatEmptySeq
  <2>2. checkMicrocontroller(n) = a
    BY <1>1, <1>4, <2>1 DEF checkMicrocontroller
  <2>3. QED
    BY <1>3, <2>2
<1>5. CASE n # NoFile /\ n % 2 = 1
  <2>1. PICK t : t = a \o <<"abort">>
    OBVIOUS
  <2>2. "abort" \in CallNames \ {"configure_spi"}
    BY DEF CallNames
  <2>3. Fine(t) /\ \A c : Has(t, c) <=> (Has(a, c) \/ c = "abort")
    BY <1>3, <2>1, <2>2, Extend
  <2>4. checkMicrocontroller(n) = t
    BY <1>1, <1>5, <2>1 DEF checkMicrocontroller, programFromFile
  <2>5. QED
    BY <1>3, <2>3, <2>4
<1>6. CASE n # NoFile /\ n % 2 # 1
  <2>1. PICK t : t = <<"configure_spi", "status", "configure_spi", "earse_chip", "program">>
    OBVIOUS
  <2>2. /\ t \in Seq(CallNames) /\ Len(t) = 5 /\ DOMAIN t = 1..5
        /\ t[1] = "configure_spi" /\ t[2] = "status" /\ t[3] = "configure_spi"
        /\ t[4] = "earse_chip" /\ t[5] = "program"
    BY <2>1 DEF CallNames
  <2>3. Ordered(t)
    <3>1. SUFFICES ASSUME NEW k \in 1..5, NEW l \in 1..5, k < l
                   PROVE  t[k] # "dump" /\ (t[k] = "program" => t[l] \notin {"earse_chip", "program"})
      BY <2>2, Zenon DEF Ordered
    <3>2. k \in 1..4
      BY <3>1
    <3>3. t[k] # "dump" /\ t[k] # "program"
      BY <2>2, <3>2
    <3>4. QED
      BY <3>3
  <2>4. Fine(t)
    BY <2>2, <2>3 DEF Fine
  <2>5. Has(t, "earse_chip")
    BY <2>2 DEF Has
  <2>6. checkMicrocontroller(n) = t
    <3>1. PICK g : g = <<"configure_spi", "earse_chip", "program">>
      OBVIOUS
    <3>2. checkMicrocontroller(n) = a \o g
      BY <1>1, <1>6, <3>1, Zenon DEF checkMicrocontroller, programFromFile
    <3>3. a \o g = t
      <4>1. g \in Seq(CallNames) /\ Len(g) = 3
        BY <3>1 DEF CallNames
      <4>2. a \o g \in Seq(CallNames) /\ Len(a \o g) = Len(a) + Len(g)
        BY <1>2, <4>1, ConcatProperties
      <4>3. Len(a \o g) = 5
        BY <1>2, <4>1, <4>2
      <4>4. \A i \in 1..5 : (a \o g)[i] = t[i]
        BY <1>1, <2>1, <3>1
      <4>5. QED
        BY <2>2, <4>2, <4>3, <4>4, SeqEqual
    <3>4. QED
      BY <3>2, <3>3
  <2>7. QED
    BY <1>6, <2>4, <2>5, <2>6
<1>7. QED
  BY <1>4, <1>5, <1>6

\* The calls of any job are in order, and a program has a file.
LEMMA JobCalls ==
    ASSUME NEW j \in JobNames
    PROVE  JobFine(j)
<1>1. CASE \E o \in Options : \E n \in Sizes \cup {NoFile} : j = <<"ucctrl", o, n>>
  <2>1. PICK o \in Options : \E n \in Sizes \cup {NoFile} : j = <<"ucctrl", o, n>>
    BY <1>1, Zenon
  <2>2. PICK n \in Sizes \cup {NoFile} : j = <<"ucctrl", o, n>>
    BY <2>1, Zenon
  <2>3. j[1] = "ucctrl" /\ j[2] = o /\ j[3] = n
    BY <2>2
  <2>4. Calls(j) = ucctrl(o, n)
    BY <2>3 DEF Calls
  <2>5. QED
    BY <2>3, <2>4, UcctrlCalls DEF JobFine, Erases
<1>2. CASE \E n \in Sizes \cup {NoFile} : j = <<"checkMicrocontroller", {}, n>>
  <2>1. PICK n \in Sizes \cup {NoFile} : j = <<"checkMicrocontroller", {}, n>>
    BY <1>2
  <2>2. j[1] = "checkMicrocontroller" /\ j[3] = n
    BY <2>1
  <2>3. Calls(j) = checkMicrocontroller(n)
    BY <2>2 DEF Calls
  <2>4. QED
    BY <2>2, <2>3, CheckCalls DEF JobFine, Erases
<1>3. QED
  BY <1>1, <1>2 DEF JobNames, Files

\* Between jobs nothing is left to do.
LEMMA NothingCalls == Calls(Nothing) = <<>> /\ ~Erases(Nothing) /\ ~Has(Calls(Nothing), "program")
<1>1. Nothing[1] = "none"
  BY DEF Nothing
<1>2. Calls(Nothing) = <<>>
  BY <1>1 DEF Calls
<1>3. \A c : ~Has(<<>>, c)
  BY DEF Has
<1>4. QED
  BY <1>2, <1>3 DEF Erases

\* The calls after the first one.
LEMMA RestOfCalls ==
    ASSUME NEW cs \in Seq(CallNames), cs # <<>>
    PROVE  /\ Len(cs) \in Nat \ {0} /\ Head(cs) \in CallNames /\ Head(cs) = cs[1]
           /\ Tail(cs) \in Seq(CallNames)
           /\ Ordered(cs) => /\ Ordered(Tail(cs))
                             /\ Head(cs) = "dump" => Tail(cs) = <<>>
                             /\ Head(cs) = "program" =>
                                    ~Has(Tail(cs), "earse_chip") /\ ~Has(Tail(cs), "program")
           /\ \A c : Has(cs, c) <=> (Head(cs) = c \/ Has(Tail(cs), c))
           /\ Tail(cs) # <<>> => Tail(cs)[Len(Tail(cs))] = cs[Len(cs)]
           /\ Tail(cs) = <<>> => Head(cs) = cs[Len(cs)]
<1>1. PICK n \in Nat : n + 1 = Len(cs)
  <2>1. Len(cs) \in Nat /\ Len(cs) > 0
    BY EmptySeq
  <2>2. QED
    BY <2>1, Len(cs) - 1 \in Nat
<1>2. PICK t : t = Tail(cs)
  OBVIOUS
<1>3. Head(cs) = cs[1] /\ Head(cs) \in CallNames
  BY <1>1
<1>4. t \in Seq(CallNames) /\ Len(t) = n /\ \A i \in 1..n : t[i] = cs[i + 1]
  BY <1>1, <1>2
<1>5. DOMAIN cs = 1 .. n + 1 /\ DOMAIN t = 1..n
  BY <1>1, <1>4
<1>6. ASSUME NEW c PROVE Has(cs, c) <=> (cs[1] = c \/ Has(t, c))
  <2>1. ASSUME Has(cs, c) PROVE cs[1] = c \/ Has(t, c)
    <3>1. PICK k \in 1 .. n + 1 : cs[k] = c
      BY <1>5, <2>1 DEF Has
    <3>2. CASE k = 1
      BY <3>1, <3>2
    <3>3. CASE k # 1
      <4>1. PICK i \in 1..n : i + 1 = k
        BY <3>3, k - 1 \in 1..n
      <4>2. t[i] = c
        BY <1>4, <3>1, <4>1
      <4>3. QED
        BY <1>5, <4>2 DEF Has
    <3>4. QED
      BY <3>2, <3>3
  <2>2. cs[1] = c => Has(cs, c)
    BY <1>5 DEF Has
  <2>3. ASSUME Has(t, c) PROVE Has(cs, c)
    <3>1. PICK i \in 1..n : t[i] = c
      BY <1>5, <2>3 DEF Has
    <3>2. PICK k \in 1 .. n + 1 : k = i + 1
      OBVIOUS
    <3>3. cs[k] = c
      BY <1>4, <3>1, <3>2
    <3>4. QED
      BY <1>5, <3>3 DEF Has
  <2>4. QED
    BY <2>1, <2>2, <2>3
<1>7. ASSUME Ordered(cs), NEW k \in 1 .. n + 1, NEW l \in 1 .. n + 1, k < l
      PROVE  cs[k] # "dump" /\ (cs[k] = "program" => cs[l] \notin {"earse_chip", "program"})
  BY <1>1, <1>7, Zenon DEF Ordered
<1>8. ASSUME Ordered(cs) PROVE Ordered(t)
  <2>1. SUFFICES ASSUME NEW k \in 1..n, NEW l \in 1..n, k < l
                 PROVE  t[k] # "dump" /\ (t[k] = "program" => t[l] \notin {"earse_chip", "program"})
    BY <1>4, Zenon DEF Ordered
  <2>2. k + 1 \in 1 .. n + 1 /\ l + 1 \in 1 .. n + 1 /\ k + 1 < l + 1
    BY <2>1
  <2>3. t[k] = cs[k + 1] /\ t[l] = cs[l + 1]
    BY <1>4
  <2>4. QED
    BY <1>7, <1>8, <2>2, <2>3
<1>9. ASSUME Ordered(cs), cs[1] = "dump" PROVE t = <<>>
  <2>1. n = 0
    BY <1>7, <1>9
  <2>2. QED
    BY <1>4, <2>1, EmptySeq
<1>10. ASSUME Ordered(cs), cs[1] = "program" PROVE ~Has(t, "earse_chip") /\ ~Has(t, "program")
  <2>1. ASSUME NEW i \in 1..n PROVE t[i] \notin {"earse_chip", "program"}
    <3>1. PICK k \in 1 .. n + 1 : k = i + 1
      OBVIOUS
    <3>2. 1 < k /\ 1 \in 1 .. n + 1
      BY <3>1
    <3>3. cs[k] \notin {"earse_chip", "program"}
      BY <1>7, <1>10, <3>2
    <3>4. QED
      BY <1>4, <3>1, <3>3
  <2>2. QED
    BY <1>5, <2>1, Zenon DEF Has
<1>11. ASSUME t # <<>> PROVE t[Len(t)] = cs[Len(cs)]
  <2>1. n > 0
    BY <1>4, <1>11, EmptySeq
  <2>2. PICK i \in 1..n : i = n
    BY <2>1
  <2>3. t[i] = cs[i + 1]
    BY <1>4
  <2>4. QED
    BY <1>1, <1>4, <2>2, <2>3
<1>12. ASSUME t = <<>> PROVE cs[1] = cs[Len(cs)]
  <2>1. n = 0
    BY <1>4, <1>12, EmptySeq
  <2>2. Len(cs) = 1
    BY <1>1, <2>1
  <2>3. QED
    BY <2>2, Zenon
<1>13. QED
  BY <1>1, <1>2, <1>3, <1>4, <1>6, <1>8, <1>9, <1>10, <1>11, <1>12

-----------------------------------------------------------------------------
(* Contents of the flash and of the page buffer.                            *)

\* Answers, bytes of a file and erased memory differ.
LEMMA Distinct ==
    /\ Garbage # <<"PROG_ENABLE">>
    /\ \A n, i : FileByte(n, i) # Erased
<1>1. Garbage # <<"PROG_ENABLE">>
  <2>1. Garbage[1] = "garbage" /\ <<"PROG_ENABLE">>[1] = "PROG_ENABLE"
    BY DEF Garbage
  <2>2. QED
    BY <2>1
<1>2. ASSUME NEW n, NEW i PROVE FileByte(n, i) # Erased
  <2>1. FileByte(n, i)[1] = "byte" /\ Erased[1] = "erased"
    BY DEF FileByte, Erased
  <2>2. QED
    BY <2>1
<1>3. QED
  BY <1>1, <1>2

\* Before the first page the flash is erased and the buffer empty.
LEMMA NoPages ==
    ASSUME NEW n \in Nat
    PROVE  Partial(n, 0) = AllErased /\ Loaded(n, 0, 0) = NoBytes /\ \A q : Loaded(n, q, 0) = NoBytes
<1>1. ASSUME NEW a \in Addresses PROVE ~ (a < 0)
  BY <1>1, PageType DEF Addresses
<1>2. ASSUME NEW a \in Addresses PROVE ~ (a < 0 * PageBytes)
  BY <1>1, PageType
<1>3. Partial(n, 0) = AllErased
  BY <1>2 DEF Partial, AllErased
<1>4. ASSUME NEW q PROVE Loaded(n, q, 0) = NoBytes
  <2>1. \A i \in 0..PageBytes-1 : ~ (i < 0)
    BY PageType
  <2>2. QED
    BY <2>1 DEF Loaded, NoBytes
<1>5. QED
  BY <1>3, <1>4

\* With all its pages written, the flash has the image of the file.
LEMMA AllPages ==
    ASSUME NEW n \in Nat
    PROVE  Partial(n, PagesOf(n)) = Image(n)
<1>1. ASSUME NEW a \in Addresses, a < 2 * (n \div 2) PROVE a < PagesOf(n) * PageBytes
  <2>1. 2 * (n \div 2) <= n /\ 2 * (n \div 2) \in Nat
    BY EvenPart
  <2>2. n <= PagesOf(n) * PageBytes /\ PagesOf(n) * PageBytes \in Nat
    BY PagesOfFile, PageType, Monotone
  <2>3. a \in Int
    BY PageType DEF Addresses
  <2>4. QED
    BY <1>1, <2>1, <2>2, <2>3
<1>2. \A a \in Addresses : (a < 2 * (n \div 2) /\ a < PagesOf(n) * PageBytes) <=> a < 2 * (n \div 2)
  BY <1>1
<1>3. QED
  BY <1>2, Zenon DEF Partial, Image

\* One more byte in the page buffer.
LEMMA LoadByte ==
    ASSUME NEW n, NEW q, NEW b \in 0..PageBytes-1
    PROVE  [Loaded(n, q, b) EXCEPT ![b] = FileByte(n, q * PageBytes + b)] = Loaded(n, q, b + 1)
<1>1. PICK f : f = Loaded(n, q, b)
  OBVIOUS
<1>2. PICK y : y = FileByte(n, q * PageBytes + b)
  OBVIOUS
<1>3. PICK D \in Nat : D = PageBytes
  BY PageType
<1>4. f = [i \in 0..D-1 |-> IF i < b THEN FileByte(n, q * PageBytes + i) ELSE Erased]
  BY <1>1, <1>3 DEF Loaded
<1>5. [f EXCEPT ![b] = y] = [i \in 0..D-1 |-> IF i = b THEN y ELSE f[i]]
  BY <1>4
<1>6. ASSUME NEW i \in 0..D-1
      PROVE  (IF i = b THEN y ELSE f[i]) =
             (IF i < b + 1 THEN FileByte(n, q * PageBytes + i) ELSE Erased)
  <2>1. CASE i = b
    <3>1. i < b + 1
      BY <1>3, <2>1
    <3>2. QED
      BY <1>2, <2>1, <3>1, Zenon
  <2>2. CASE i # b
    <3>1. i < b + 1 <=> i < b
      BY <1>3, <2>2
    <3>2. f[i] = IF i < b THEN FileByte(n, q * PageBytes + i) ELSE Erased
      BY <1>4
    <3>3. QED
      BY <2>2, <3>1, <3>2, Zenon
  <2>3. QED
    BY <2>1, <2>2
<1>7. [f EXCEPT ![b] = y] = [i \in 0..D-1 |-> IF i < b + 1 THEN FileByte(n, q * PageBytes + i) ELSE Erased]
  BY <1>5, <1>6, Zenon
<1>8. QED
  BY <1>1, <1>2, <1>3, <1>7, Zenon DEF Loaded

\* Page q is written.
LEMMA WritePage ==
    ASSUME NEW n \in Nat, NEW q \in Nat, q < Pages, NEW w \in 0..PageBytes,
           flash = Partial(n, q), buffer = Loaded(n, q, w),
           \A x \in 0..PageBytes-1 : x < w <=> q * PageBytes + x < 2 * (n \div 2)
    PROVE  Program1(q * PageBytes) = Partial(n, q + 1) /\ q * PageBytes \in Addresses
<1>1. PICK D \in Nat, P \in Nat, h \in Nat : D = PageBytes /\ P = Pages /\ h = 2 * (n \div 2) /\ D > 1
  BY PageType, EvenPart
<1>2. PICK X \in Nat, Y \in Nat : X = q * D /\ Y = (q + 1) * D
  BY <1>1, Monotone
<1>3. PICK M \in Nat : M = P * D
  BY <1>1, Monotone
<1>4. Y = X + D /\ Y <= M
  <2>1. Y = X + D
    BY <1>2, NextMultiple
  <2>2. q + 1 <= P /\ q + 1 \in Nat
    BY <1>1
  <2>3. (q + 1) * D <= P * D
    BY <2>2, Monotone
  <2>4. QED
    BY <1>2, <1>3, <2>1, <2>3
<1>5. X % M = X
  <2>1. M \in Nat \ {0} /\ X \in 0..M-1
    BY <1>1, <1>4
  <2>2. PICK m \in Nat \ {0} : \E x \in 0..m-1 : m = M /\ x = X
    BY <2>1
  <2>3. PICK x \in 0..m-1 : m = M /\ x = X
    BY <2>2
  <2>4. (m * 0 + x) % m = x
    BY DivIs
  <2>5. m * 0 + x = x
    OBVIOUS
  <2>6. QED
    BY <2>3, <2>4, <2>5
<1>6. Addresses = 0..M-1
  BY <1>1, <1>3 DEF Addresses
<1>7. DOMAIN buffer = 0..D-1 /\ \A i \in 0..D-1 : buffer[i] = IF i < w THEN FileByte(n, X + i) ELSE Erased
  BY <1>1, <1>2 DEF Loaded
<1>8. \A a \in 0..M-1 : flash[a] = IF a < h /\ a < X THEN FileByte(n, a) ELSE Erased
  BY <1>1, <1>2, <1>6 DEF Partial
<1>9. ASSUME NEW a \in 0..M-1
      PROVE  (IF a - X \notin DOMAIN buffer THEN flash[a]
              ELSE IF buffer[a - X] = Erased THEN flash[a]
              ELSE IF flash[a] = Erased THEN buffer[a - X] ELSE Garbage)
             = (IF a < h /\ a < Y THEN FileByte(n, a) ELSE Erased)
  <2>1. CASE a < X
    <3>1. a - X \notin DOMAIN buffer /\ a < Y
      BY <1>4, <1>7, <2>1
    <3>2. flash[a] = IF a < h THEN FileByte(n, a) ELSE Erased
      BY <1>8, <2>1
    <3>3. QED
      BY <3>1, <3>2
  <2>2. CASE a >= Y
    <3>1. a - X \notin DOMAIN buffer /\ ~ (a < Y) /\ ~ (a < X)
      BY <1>4, <1>7, <2>2
    <3>2. flash[a] = Erased
      BY <1>8, <3>1
    <3>3. QED
      BY <3>1, <3>2
  <2>3. CASE X <= a /\ a < Y
    <3>1. PICK i \in 0..D-1 : i = a - X
      BY <1>4, <2>3
    <3>2. X + i = a /\ ~ (a < X)
      BY <2>3, <3>1
    <3>3. flash[a] = Erased
      BY <1>8, <3>2
    <3>4. i < w <=> a < h
      <4>1. i < w <=> q * PageBytes + i < 2 * (n \div 2)
        BY <1>1
      <4>2. q * PageBytes + i = a
        BY <1>1, <1>2, <3>2
      <4>3. QED
        BY <1>1, <4>1, <4>2
    <3>5. buffer[i] = IF a < h THEN FileByte(n, a) ELSE Erased
      BY <1>7, <3>2, <3>4
    <3>6. i \in DOMAIN buffer
      BY <1>7
    <3>7. FileByte(n, a) # Erased
      BY Distinct
    <3>8. QED
      BY <2>3, <3>1, <3>3, <3>5, <3>6, <3>7, Zenon
  <2>4. QED
    BY <2>1, <2>2, <2>3
<1>10. Program1(q * PageBytes) =
          [a \in 0..M-1 |-> IF a - X \notin DOMAIN buffer THEN flash[a]
                            ELSE IF buffer[a - X] = Erased THEN flash[a]
                            ELSE IF flash[a] = Erased THEN buffer[a - X] ELSE Garbage]
  BY <1>1, <1>2, <1>3, <1>5, <1>6 DEF Program1
<1>11. Partial(n, q + 1) = [a \in 0..M-1 |-> IF a < h /\ a < Y THEN FileByte(n, a) ELSE Erased]
  BY <1>1, <1>2, <1>6 DEF Partial
<1>12. Program1(q * PageBytes) = Partial(n, q + 1)
  BY <1>9, <1>10, <1>11, Zenon
<1>13. q * PageBytes \in Addresses
  BY <1>1, <1>2, <1>4, <1>6
<1>14. QED
  BY <1>12, <1>13

-----------------------------------------------------------------------------
(* The step that a job is at.                                               *)

\* The step that the job is at.
LEMMA StepNow ==
    ASSUME TypeOK, CallsInv, ~Done
    PROVE  /\ Head(calls) \in CallNames /\ Has(calls, Head(calls))
           /\ job \in JobNames /\ JobFine(job) /\ Has(Calls(job), Head(calls))
           /\ Len(Steps) \in Nat \ {0} /\ at \in 1..Len(Steps)
           /\ StepIs(Head(calls), at, Len(Steps), step)
<1>1. calls # <<>> /\ calls \in Seq(CallNames)
  BY DEF Done, CallsInv
<1>2. Head(calls) \in CallNames /\ Has(calls, Head(calls))
  BY <1>1, RestOfCalls
<1>3. Has(Calls(job), Head(calls))
  BY <1>2 DEF CallsInv
<1>4. job \in JobNames
  <2>1. SUFFICES ASSUME job = Nothing PROVE FALSE
    BY DEF TypeOK
  <2>2. Calls(job) = <<>>
    BY <2>1, NothingCalls
  <2>3. QED
    BY <1>3, <2>2 DEF Has
<1>5. JobFine(job)
  BY <1>4, JobCalls
<1>6. at \in 1..Len(Steps)
  BY DEF TypeOK
<1>7. Head(calls) = "program" => job[3] \in Nat
  BY <1>3, <1>5, UcAssumption DEF JobFine
<1>8. /\ Len(Steps) \in Nat \ {0}
      /\ \A k \in 1..Len(Steps) : StepIs(Head(calls), k, Len(Steps), Steps[k])
  BY <1>2, <1>7, StepKinds DEF Steps
<1>9. StepIs(Head(calls), at, Len(Steps), step)
  BY <1>6, <1>8 DEF step
<1>10. QED
  BY <1>2, <1>3, <1>4, <1>5, <1>6, <1>8, <1>9

\* What is done in it.
LEMMA StepDoes ==
    ASSUME TypeOK, CallsInv, ~Done
    PROVE  /\ step.do = "configure" => Head(calls) = "configure_spi" /\ at = Len(Steps)
           /\ step.do = "abort" => Head(calls) = "abort"
           /\ step.do = "reset" =>
                  \/ step = Hold /\ at = 1 /\ at < Len(Steps)
                  \/ step = Release /\ at = Len(Steps) /\ at >= 2 /\ Head(calls) = "reset"
                  \/ step = Release /\ at = Len(Steps) /\ at >= 4 /\ Head(calls) \in Sessions
           /\ step.do = "command" =>
                  /\ Head(calls) \in Sessions /\ at >= 2 /\ at < Len(Steps)
                  /\ \/ at = 2 /\ step.cmd = "PROG_ENABLE"
                     \/ at >= 3 /\ BodyStep(Head(calls), step)
           /\ step.do = "write" => Head(calls) = "dump" /\ at >= 3 /\ at < Len(Steps)
           /\ step.do \in {"configure", "abort", "reset", "command", "write"}
           /\ InBody => \/ at = Len(Steps) /\ step = Release
                        \/ at < Len(Steps) /\ BodyStep(Head(calls), step) /\ step.do # "reset"
<1>1. PICK call, k, l, s :
         /\ call = Head(calls) /\ k = at /\ l = Len(Steps) /\ s = step
         /\ k \in Nat /\ l \in Nat /\ k >= 1 /\ StepIs(call, k, l, s)
  BY StepNow
<1>2. Sessions = {"earse_chip", "status", "program", "dump"} /\ enter_prog_mode.do = "command"
      /\ enter_prog_mode.cmd = "PROG_ENABLE"
  BY Commands DEF Sessions, enter_prog_mode
<1>3. BodyStep(call, s) => s.do = "command" \/ (s.do = "write" /\ call = "dump")
  BY Commands DEF BodyStep
<1>4. InBody => call \in Sessions /\ k >= 3
  BY <1>1 DEF InBody
<1>5. CASE call = "configure_spi" /\ k = 1 /\ l = 1 /\ s.do = "configure"
  BY <1>1, <1>2, <1>4, <1>5
<1>6. CASE call = "abort" /\ k = 1 /\ l = 1 /\ s.do = "abort"
  BY <1>1, <1>2, <1>4, <1>6
<1>7. CASE call \in Sessions \cup {"reset"} /\ k = 1 /\ k < l /\ s = Hold
  BY <1>1, <1>2, <1>4, <1>7, ResetSteps
<1>8. CASE call = "reset" /\ k = 2 /\ l = 2 /\ s = Release
  BY <1>1, <1>2, <1>4, <1>8, ResetSteps
<1>9. CASE call \in Sessions /\ k = 2 /\ k < l /\ s = enter_prog_mode
  BY <1>1, <1>2, <1>4, <1>9
<1>10. CASE call \in Sessions /\ k >= 3 /\ k < l /\ BodyStep(call, s)
  BY <1>1, <1>2, <1>3, <1>4, <1>10
<1>11. CASE call \in Sessions /\ k >= 4 /\ k = l /\ s = Release
  BY <1>1, <1>2, <1>4, <1>11, ResetSteps
<1>12. QED
  BY <1>1, <1>5, <1>6, <1>7, <1>8, <1>9, <1>10, <1>11 DEF StepIs

\* The commands tell which call they belong to.
LEMMA CommandCall ==
    ASSUME TypeOK, CallsInv, Doing("command")
    PROVE  /\ step.cmd = "PROG_ENABLE" <=> at = 2
           /\ step.cmd = "ERASE_CHIP" => Head(calls) = "earse_chip"
           /\ step.cmd \in {"PROG_LOW", "PROG_HIGH", "WRITE_PAGE"} => Head(calls) = "program"
           /\ step.cmd \in {"READ_LOW", "READ_HIGH"} => Head(calls) = "dump"
           /\ Head(calls) = "earse_chip" /\ at >= 3 => step.cmd = "ERASE_CHIP"
           /\ Head(calls) = "program" /\ at >= 3 =>
                  step.cmd \in {"EXT_ADDR", "PROG_LOW", "PROG_HIGH", "WRITE_PAGE"}
           /\ Head(calls) = "dump" /\ at >= 3 => step.cmd \in {"EXT_ADDR", "READ_LOW", "READ_HIGH"}
<1>1. ~Done /\ step.do = "command"
  BY DEF Doing
<1>2. /\ Head(calls) \in Sessions /\ at \in Nat /\ at >= 2
      /\ (at = 2 /\ step.cmd = "PROG_ENABLE") \/ (at >= 3 /\ BodyStep(Head(calls), step))
  BY <1>1, StepNow, StepDoes
<1>3. BodyStep(Head(calls), step) =>
        \/ Head(calls) = "earse_chip" /\ step.cmd = "ERASE_CHIP"
        \/ Head(calls) = "status" /\ step.cmd = "READ_SIG"
        \/ Head(calls) = "program" /\ step.cmd \in {"EXT_ADDR", "PROG_LOW", "PROG_HIGH", "WRITE_PAGE"}
        \/ Head(calls) = "dump" /\ step.cmd \in {"EXT_ADDR", "READ_LOW", "READ_HIGH"}
  BY <1>1, Commands DEF BodyStep
<1>4. QED
  BY <1>2, <1>3 DEF Sessions

\* The steps of programming and of a dump, turn by turn.
LEMMA ProgramNow ==
    ASSUME TypeOK, CallsInv, ~Done, Head(calls) = "program"
    PROVE  /\ job[3] \in Sizes /\ job[3] \in Nat
           /\ TurnsOf(job[3]) \in Nat /\ Len(Steps) = TurnsOf(job[3]) + 4
           /\ at = 3 => step.cmd = "EXT_ADDR"
           /\ \A i \in 1..TurnsOf(job[3]) : at = i + 3 =>
                  step = IF ByteAt(i) < 2 * WordsOf(job[3], PageAt(i))
                         THEN load_mem_page(job[3], PageAt(i), ByteAt(i)) ELSE prog_mem_page(PageAt(i))
<1>1. PICK n \in Nat : n = job[3] /\ n \in Sizes
  BY StepNow, UcAssumption DEF JobFine
<1>2. PICK s : s = StepsOf("program", n) /\ s = Steps
  BY <1>1 DEF Steps
<1>3. /\ TurnsOf(n) \in Nat /\ Len(s) = TurnsOf(n) + 4
      /\ s[3] = load_extended_addr
      /\ \A i \in 1..TurnsOf(n) :
             s[i + 3] = IF ByteAt(i) < 2 * WordsOf(n, PageAt(i))
                        THEN load_mem_page(n, PageAt(i), ByteAt(i)) ELSE prog_mem_page(PageAt(i))
  BY <1>2, ProgramSteps
<1>4. load_extended_addr.cmd = "EXT_ADDR"
  BY Commands DEF load_extended_addr
<1>5. step = s[at]
  BY <1>2 DEF step
<1>6. ASSUME NEW i \in 1..TurnsOf(n), at = i + 3
      PROVE  step = IF ByteAt(i) < 2 * WordsOf(n, PageAt(i))
                    THEN load_mem_page(n, PageAt(i), ByteAt(i)) ELSE prog_mem_page(PageAt(i))
  BY <1>3, <1>5, <1>6, Zenon
<1>7. QED
  BY <1>1, <1>2, <1>3, <1>4, <1>5, <1>6

\* The step that a dump is at.
LEMMA DumpNow ==
    ASSUME TypeOK, CallsInv, ~Done, Head(calls) = "dump"
    PROVE  /\ DumpTurns \in Nat \ {0} /\ Len(Steps) = DumpTurns + 4
           /\ at = 3 => step.do = "command" /\ step.cmd = "EXT_ADDR"
           /\ \A i \in 1..DumpTurns : at = i + 3 =>
                  step = IF ByteAt(i) < PageBytes THEN read_mem_page(PageAt(i) * PageBytes + ByteAt(i))
                         ELSE [do |-> "write"]
<1>1. PICK s : s = StepsOf("dump", job[3]) /\ s = Steps
  BY DEF Steps
<1>2. /\ DumpTurns \in Nat \ {0} /\ Len(s) = DumpTurns + 4
      /\ s[3] = load_extended_addr
      /\ \A i \in 1..DumpTurns :
             s[i + 3] = IF ByteAt(i) < PageBytes THEN read_mem_page(PageAt(i) * PageBytes + ByteAt(i))
                        ELSE [do |-> "write"]
  BY <1>1, DumpSteps
<1>3. load_extended_addr.do = "command" /\ load_extended_addr.cmd = "EXT_ADDR"
  BY Commands DEF load_extended_addr
<1>4. step = s[at]
  BY <1>1 DEF step
<1>5. ASSUME NEW i \in 1..DumpTurns, at = i + 3
      PROVE  step = IF ByteAt(i) < PageBytes THEN read_mem_page(PageAt(i) * PageBytes + ByteAt(i))
                    ELSE [do |-> "write"]
  BY <1>2, <1>4, <1>5, Zenon
<1>6. QED
  BY <1>1, <1>2, <1>3, <1>4, <1>5

\* Programming and dump are in programming mode.
LEMMA InBodyToo ==
    ASSUME TypeOK, CallsInv
    PROVE  /\ Programs => InBody /\ Head(calls) = "program"
           /\ Programs2 => Programs
           /\ Dumps => InBody /\ Head(calls) = "dump"
<1>1. ~Done => at \in Nat
  BY StepNow
<1>2. Programs => InBody /\ Head(calls) = "program"
  BY <1>1 DEF Programs, InBody, Sessions
<1>3. Dumps => InBody /\ Head(calls) = "dump"
  BY DEF Dumps, InBody, Sessions
<1>4. QED
  BY <1>2, <1>3 DEF Programs2

-----------------------------------------------------------------------------
(* What a step leaves as it is.                                             *)

AtOK == IF Done THEN at = 1 ELSE at \in 1..Len(Steps)

\* What depends only on the place in the job.
LEMMA SameStep ==
    ASSUME UNCHANGED <<job, calls, at>>
    PROVE  /\ (Done' <=> Done) /\ Steps' = Steps /\ step' = step
           /\ (AtOK' <=> AtOK)
           /\ \A d : Doing(d)' <=> Doing(d)
           /\ (InBody' <=> InBody) /\ (ErasedIt' <=> ErasedIt)
           /\ (Programs' <=> Programs) /\ (Programs2' <=> Programs2)
           /\ (ProgrammedIt' <=> ProgrammedIt) /\ (Dumps' <=> Dumps)
<1>1. (Done' <=> Done) /\ Steps' = Steps
  BY DEF Done, Steps
<1>2. step' = step /\ (AtOK' <=> AtOK)
  BY <1>1 DEF step, AtOK
<1>3. \A d : Doing(d)' <=> Doing(d)
  BY <1>1, <1>2 DEF Doing
<1>4. (InBody' <=> InBody) /\ (ErasedIt' <=> ErasedIt) /\ (Programs' <=> Programs) /\ (Dumps' <=> Dumps)
  BY <1>1 DEF InBody, ErasedIt, Programs, Dumps
<1>5. (Programs2' <=> Programs2) /\ (ProgrammedIt' <=> ProgrammedIt)
  BY <1>1, <1>4 DEF Programs2, ProgrammedIt
<1>6. QED
  BY <1>1, <1>2, <1>3, <1>4, <1>5

\* What depends only on the flash.
LEMMA SameFlash ==
    ASSUME UNCHANGED flash
    PROVE  (Whole' <=> Whole) /\ FlashBytes' = FlashBytes
BY DEF Whole, FlashBytes

\* The next step of the same call.
LEMMA NextStep ==
    ASSUME TypeOK, CallsInv, ~Done, at # Len(Steps), UNCHANGED <<job, calls>>, at' = at + 1, phase' = "send"
    PROVE  /\ ~Done' /\ Steps' = Steps /\ AtOK' /\ CallsInv'
           /\ Head(calls') = Head(calls) /\ at < Len(Steps) /\ at' \in 1..Len(Steps) /\ at \in Nat
<1>1. at \in 1..Len(Steps) /\ Len(Steps) \in Nat
  BY StepNow
<1>2. Done' = Done /\ Steps' = Steps
  BY DEF Done, Steps
<1>3. at' \in 1..Len(Steps) /\ at < Len(Steps)
  BY <1>1
<1>4. AtOK'
  BY <1>2, <1>3 DEF AtOK
<1>5. CallsInv'
  BY <1>2 DEF CallsInv
<1>6. QED
  BY <1>1, <1>2, <1>3, <1>4, <1>5

\* The first step of the next call.
LEMMA NextCall ==
    ASSUME TypeOK, CallsInv, ~Done, UNCHANGED job, calls' = Tail(calls), at' = 1, phase' = "send"
    PROVE  /\ CallsInv' /\ AtOK'
           /\ \A c : Has(calls, c) <=> (Head(calls) = c \/ Has(calls', c))
           /\ Head(calls) = "dump" => Done'
           /\ Head(calls) = "program" => ~Has(calls', "earse_chip") /\ ~Has(calls', "program")
           /\ Done' => Head(calls) = Calls(job)[Len(Calls(job))]
           /\ ~InBody' /\ ~Programs' /\ ~Programs2' /\ ~Dumps'
<1>1. calls \in Seq(CallNames) /\ calls # <<>> /\ Ordered(calls)
  BY DEF CallsInv, Done
<1>2. /\ calls' \in Seq(CallNames) /\ Ordered(calls')
      /\ Head(calls) = "dump" => calls' = <<>>
      /\ Head(calls) = "program" => ~Has(calls', "earse_chip") /\ ~Has(calls', "program")
      /\ \A c : Has(calls, c) <=> (Head(calls) = c \/ Has(calls', c))
      /\ calls' # <<>> => calls'[Len(calls')] = calls[Len(calls)]
      /\ calls' = <<>> => Head(calls) = calls[Len(calls)]
  BY <1>1, RestOfCalls
<1>3. Done' <=> calls' = <<>>
  BY DEF Done
<1>4. CallsInv'
  <2>1. \A c \in CallNames : Has(calls', c) => Has(Calls(job'), c)
    BY <1>2 DEF CallsInv
  <2>2. ~Done' => calls'[Len(calls')] = Calls(job')[Len(Calls(job'))]
    BY <1>2, <1>3 DEF CallsInv
  <2>3. Has(Calls(job'), "program") /\ ~Has(calls', "program") => ~Has(calls', "earse_chip")
    BY <1>2 DEF CallsInv
  <2>4. phase' \in {"send", "wait"} /\ phase' # "wait"
    OBVIOUS
  <2>5. QED
    BY <1>2, <2>1, <2>2, <2>3, <2>4 DEF CallsInv
<1>5. AtOK'
  <2>1. CASE Done'
    BY <2>1 DEF AtOK
  <2>2. CASE ~Done'
    <3>1. PICK call : call = Head(calls') /\ call \in CallNames /\ Has(calls', call)
      BY <1>2, <1>3, <2>2, RestOfCalls
    <3>2. Has(Calls(job), call)
      BY <1>2, <3>1 DEF CallsInv
    <3>3. call = "program" => job[3] \in Nat
      BY <3>2, StepNow, UcAssumption DEF JobFine
    <3>4. Len(StepsOf(call, job[3])) \in Nat \ {0}
      BY <3>1, <3>3, StepKinds
    <3>5. Steps' = StepsOf(call, job[3])
      BY <3>1 DEF Steps
    <3>6. QED
      BY <2>2, <3>4, <3>5 DEF AtOK
  <2>3. QED
    BY <2>1, <2>2
<1>6. Done' => Head(calls) = Calls(job)[Len(Calls(job))]
  BY <1>2, <1>3 DEF CallsInv
<1>7. ~InBody' /\ ~Programs' /\ ~Programs2' /\ ~Dumps'
  BY DEF InBody, Programs, Programs2, Dumps
<1>8. QED
  BY <1>2, <1>3, <1>4, <1>5, <1>6, <1>7

\* On to the next step or call.
LEMMA PastIs ==
    ASSUME Past
    PROVE  /\ UNCHANGED <<job, timeout>> /\ phase' = "send"
           /\ at = Len(Steps) => calls' = Tail(calls) /\ at' = 1
           /\ at # Len(Steps) => at' = at + 1 /\ UNCHANGED calls
BY DEF Past

\* A job that ends leaves nothing behind but what it did.
LEMMA EndKeeps ==
    ASSUME TypeOK, UcIInv, ~Done, End, UNCHANGED <<resetN, spi, uc>>
    PROVE  TypeOK' /\ UcIInv'
<1>1. /\ job' = Nothing /\ calls' = <<>> /\ at' = 1 /\ phase' = "send" /\ dumped' = <<>>
      /\ torn' = (torn \/ Erases(job)) /\ timeout' = timeout
      /\ UNCHANGED <<resetN, spi, progMode, buffer, flash>>
  BY DEF End, uc
<1>2. CallsInv /\ SessionInv /\ ImageInv /\ DumpInv
  BY DEF UcIInv
<1>3. Done' /\ Calls(job') = <<>> /\ ~Erases(job') /\ ~Has(Calls(job'), "program")
  BY <1>1, NothingCalls DEF Done
<1>4. ~InBody' /\ ~ErasedIt' /\ ~Programs' /\ ~Programs2' /\ ~ProgrammedIt' /\ ~Dumps' /\ ~Synced'
  BY <1>3 DEF InBody, ErasedIt, Programs, Programs2, ProgrammedIt, Dumps, Synced
<1>5. /\ Has(Calls(job), Head(calls)) /\ JobFine(job)
      /\ Head(calls) \in {"earse_chip", "program"} => Erases(job)
  <2>1. Has(Calls(job), Head(calls)) /\ JobFine(job)
    BY <1>2, StepNow
  <2>2. QED
    BY <2>1 DEF JobFine, Erases
<1>6. TypeOK'
  BY <1>1, <1>3, PageType DEF TypeOK
<1>7. CallsInv'
  <2>1. <<>> \in Seq(CallNames) /\ Ordered(<<>>) /\ \A c : ~Has(<<>>, c)
    BY DEF Ordered, Has
  <2>2. QED
    BY <1>1, <1>3, <2>1 DEF CallsInv
<1>8. SessionInv'
  <2>1. spi'.busy /\ progMode' /\ spi'.cmd.cmd \in {"ERASE_CHIP", "WRITE_PAGE"} => torn'
    <3>1. SUFFICES ASSUME spi.busy, progMode, spi.cmd.cmd \in {"ERASE_CHIP", "WRITE_PAGE"}, ~torn
                   PROVE  torn'
      BY <1>1 DEF TypeOK
    <3>2. Synced
      BY <1>2, <3>1 DEF SessionInv
    <3>3. step.cmd \in {"ERASE_CHIP", "WRITE_PAGE"} /\ Doing("command")
      BY <1>2, <3>1, <3>2 DEF Synced, CallsInv
    <3>4. Head(calls) \in {"earse_chip", "program"}
      BY <1>2, <3>3, CommandCall
    <3>5. QED
      BY <1>1, <1>5, <3>4
  <2>2. Len(Calls(job')) = 0
    BY <1>3
  <2>3. DOMAIN spi' = DOMAIN spi /\ spi'.busy \in BOOLEAN /\ (spi'.busy => spi'.answer = Garbage)
    BY <1>1, <1>2 DEF SessionInv
  <2>4. QED
    BY <1>1, <1>2, <1>3, <1>4, <2>1, <2>2, <2>3 DEF SessionInv
<1>9. ImageInv'
  <2>1. ~torn' => Whole'
    <3>1. SUFFICES ASSUME ~torn, ~Erases(job) PROVE Whole
      BY <1>1, SameFlash
    <3>2. ~Programs
      BY <1>5, <3>1 DEF Programs
    <3>3. QED
      BY <1>2, <3>1, <3>2 DEF ImageInv
  <2>2. DOMAIN buffer' = 0..PageBytes-1 /\ DOMAIN flash' = Addresses
    BY <1>1, <1>2 DEF ImageInv
  <2>3. QED
    BY <1>3, <1>4, <2>1, <2>2 DEF ImageInv
<1>10. DumpInv'
  <2>1. <<>> \in Seq(FlashBytes') /\ \A i \in DOMAIN <<>> : <<>>[i] = flash'[i - 1]
    OBVIOUS
  <2>2. DumpIsFlash'
    BY <1>1, <2>1 DEF DumpIsFlash
  <2>3. QED
    BY <1>1, <1>3, <1>4, <2>1, <2>2 DEF DumpInv
<1>11. QED
  BY <1>6, <1>7, <1>8, <1>9, <1>10 DEF UcIInv

-----------------------------------------------------------------------------
(* The initial state and the steps of a job.                                *)

\* The initial states satisfy the invariant.
LEMMA InitIs == Init => TypeOK /\ UcIInv
<1>1. SUFFICES ASSUME Init PROVE TypeOK /\ UcIInv
  OBVIOUS
<1>2. /\ job = Nothing /\ calls = <<>> /\ at = 1 /\ phase = "send" /\ dumped = <<>> /\ timeout = 0
      /\ resetN = TRUE /\ progMode = FALSE /\ torn = FALSE
      /\ spi.busy = FALSE /\ DOMAIN spi = {"busy", "cmd", "answer"}
      /\ DOMAIN buffer = 0..PageBytes-1
      /\ DOMAIN flash = Addresses /\ \A a \in Addresses : flash[a] = <<"old">>
  <2>1. job = Nothing /\ calls = <<>> /\ at = 1 /\ phase = "send" /\ dumped = <<>> /\ timeout = 0
    BY <1>1 DEF Init
  <2>2. resetN = TRUE /\ progMode = FALSE /\ torn = FALSE
    BY <1>1 DEF Init
  <2>3. spi.busy = FALSE /\ DOMAIN spi = {"busy", "cmd", "answer"}
    BY <1>1 DEF Init
  <2>4. DOMAIN buffer = 0..PageBytes-1
    BY <1>1 DEF Init
  <2>5. DOMAIN flash = Addresses /\ \A a \in Addresses : flash[a] = <<"old">>
    BY <1>1 DEF Init
  <2>6. QED
    BY <2>1, <2>2, <2>3, <2>4, <2>5
<1>3. Done /\ Calls(job) = <<>> /\ ~Erases(job) /\ ~Has(Calls(job), "program")
  BY <1>2, NothingCalls DEF Done
<1>4. ~InBody /\ ~ErasedIt /\ ~Programs /\ ~Programs2 /\ ~ProgrammedIt /\ ~Dumps
  BY <1>3 DEF InBody, ErasedIt, Programs, Programs2, ProgrammedIt, Dumps
<1>5. TypeOK
  <2>1. Len(dumped) <= Pages * PageBytes
    <3>1. Len(dumped) = 0 /\ Pages * PageBytes \in Nat
      BY <1>2, PageType
    <3>2. QED
      BY <3>1
  <2>2. timeout \in 0..MaxPolls
    BY <1>2, UcAssumption
  <2>3. QED
    BY <1>2, <1>3, <2>1, <2>2 DEF TypeOK
<1>6. CallsInv
  <2>1. <<>> \in Seq(CallNames) /\ Ordered(<<>>) /\ \A c : ~Has(<<>>, c)
    BY DEF Ordered, Has
  <2>2. QED
    BY <1>2, <1>3, <2>1 DEF CallsInv
<1>7. SessionInv
  <2>1. Len(Calls(job)) = 0
    BY <1>3
  <2>2. QED
    BY <1>2, <1>3, <1>4, <2>1 DEF SessionInv
<1>8. ImageInv
  <2>1. Whole
    BY <1>2 DEF Whole
  <2>2. QED
    BY <1>2, <1>3, <1>4, <2>1 DEF ImageInv
<1>9. DumpInv
  <2>1. <<>> \in Seq(FlashBytes) /\ \A i \in DOMAIN <<>> : <<>>[i] = flash[i - 1]
    OBVIOUS
  <2>2. DumpIsFlash
    BY <1>2, <2>1 DEF DumpIsFlash
  <2>3. QED
    BY <1>2, <1>3, <1>4, <2>1, <2>2 DEF DumpInv
<1>10. QED
  BY <1>5, <1>6, <1>7, <1>8, <1>9 DEF UcIInv

\* A job begins: what an earlier one has left under way takes no effect.
LEMMA BeginKeeps ==
    ASSUME TypeOK, UcIInv, NEW j \in JobNames, Begin(j)
    PROVE  TypeOK' /\ UcIInv'
<1>1. /\ job' = j /\ calls' = Calls(j) /\ at' = 1 /\ phase' = "send" /\ timeout' = 0 /\ dumped' = <<>>
      /\ UNCHANGED <<resetN, spi, progMode, buffer, flash, torn>> /\ Done
  BY DEF Begin, uc
<1>2. CallsInv /\ SessionInv /\ ImageInv /\ DumpInv
  BY DEF UcIInv
<1>3. Fine(Calls(j)) /\ (Has(Calls(j), "program") => Has(Calls(j), "earse_chip")) /\ j[3] \in Sizes \cup {NoFile}
  BY JobCalls DEF JobFine, Erases
<1>4. Calls(j) \in Seq(CallNames) /\ Calls(j) # <<>>
  BY <1>3, EmptySeq DEF Fine
<1>5. ~Done' /\ ~InBody' /\ ~Programs' /\ ~Programs2' /\ ~Dumps'
  BY <1>1, <1>4 DEF Done, InBody, Programs, Programs2, Dumps
<1>6. ~ErasedIt' /\ ~ProgrammedIt'
  BY <1>1, <1>5 DEF ErasedIt, Erases, ProgrammedIt
<1>7. AtOK'
  <2>1. PICK call : call = Head(Calls(j)) /\ call \in CallNames /\ Has(Calls(j), call)
    BY <1>4, RestOfCalls
  <2>2. call = "program" => j[3] \in Nat
    BY <2>1, JobCalls, UcAssumption DEF JobFine
  <2>3. Len(StepsOf(call, j[3])) \in Nat \ {0}
    BY <2>1, <2>2, StepKinds
  <2>4. Steps' = StepsOf(call, j[3])
    BY <1>1, <2>1 DEF Steps
  <2>5. QED
    BY <1>1, <1>5, <2>3, <2>4 DEF AtOK
<1>8. TypeOK'
  BY <1>1, <1>7, PageType, UcAssumption DEF TypeOK, AtOK
<1>9. CallsInv'
  BY <1>1, <1>3, <1>4 DEF CallsInv, Fine
<1>10. SessionInv'
  <2>1. spi'.busy /\ progMode' /\ spi'.cmd.cmd \in {"ERASE_CHIP", "WRITE_PAGE"} => torn'
    <3>1. ~Synced
      BY <1>1 DEF Synced
    <3>2. QED
      BY <1>1, <1>2, <3>1 DEF SessionInv
  <2>2. DOMAIN spi' = DOMAIN spi /\ spi'.busy \in BOOLEAN /\ (spi'.busy => spi'.answer = Garbage)
    BY <1>1, <1>2 DEF SessionInv
  <2>3. QED
    BY <1>1, <1>2, <1>5, <1>6, <2>1, <2>2 DEF SessionInv
<1>11. ImageInv'
  <2>1. ~torn' => Whole'
    BY <1>1, <1>2, SameFlash DEF ImageInv, Programs
  <2>2. QED
    BY <1>1, <1>2, <1>5, <1>6, <2>1 DEF ImageInv
<1>12. DumpInv'
  <2>1. <<>> \in Seq(FlashBytes') /\ \A i \in DOMAIN <<>> : <<>>[i] = flash'[i - 1]
    OBVIOUS
  <2>2. DumpIsFlash'
    BY <1>1, <2>1 DEF DumpIsFlash
  <2>3. QED
    BY <1>1, <1>5, <2>1, <2>2 DEF DumpInv
<1>13. QED
  BY <1>8, <1>9, <1>10, <1>11, <1>12 DEF UcIInv

\* configure_spi() holds the microcontroller in reset.
LEMMA ConfigureSpiKeeps ==
    ASSUME TypeOK, UcIInv, ConfigureSpi
    PROVE  TypeOK' /\ UcIInv'
<1>1. CallsInv /\ SessionInv /\ ImageInv /\ DumpInv
  BY DEF UcIInv
<1>2. ~Done /\ step.do = "configure" /\ ~Doing("command")
  BY DEF ConfigureSpi, Doing
<1>3. Head(calls) = "configure_spi" /\ at = Len(Steps)
  BY <1>1, <1>2, StepDoes
<1>4. /\ resetN' = FALSE /\ progMode' = progMode /\ buffer' = buffer
      /\ UNCHANGED <<spi, flash, dumped, torn, job, timeout>>
      /\ calls' = Tail(calls) /\ at' = 1 /\ phase' = "send"
  <2>1. resetN' = FALSE /\ (progMode' <=> progMode) /\ buffer' = buffer
    BY DEF ConfigureSpi, Reset
  <2>2. progMode' = progMode
    <3>1. progMode' = (progMode /\ TRUE) /\ progMode \in BOOLEAN
      BY DEF ConfigureSpi, Reset, TypeOK
    <3>2. QED
      BY <3>1
  <2>3. Past /\ UNCHANGED <<spi, flash, dumped, torn>>
    BY DEF ConfigureSpi
  <2>4. QED
    BY <1>3, <2>1, <2>2, <2>3, PastIs
<1>5. /\ CallsInv' /\ AtOK'
      /\ \A c : Has(calls, c) <=> (Head(calls) = c \/ Has(calls', c))
      /\ Done' => Head(calls) = Calls(job)[Len(Calls(job))]
      /\ ~InBody' /\ ~Programs' /\ ~Programs2' /\ ~Dumps'
  BY <1>1, <1>2, <1>4, NextCall
<1>6. ~Programs /\ ~InBody /\ ~Dumps /\ ~Synced
  BY <1>1, <1>2, <1>3 DEF Programs, InBody, Dumps, Synced, Sessions, CallsInv
<1>7. (ErasedIt' => ErasedIt) /\ (ProgrammedIt' => ProgrammedIt)
      /\ (Has(calls', "program") => Has(calls, "program"))
  BY <1>3, <1>4, <1>5, <1>6 DEF ErasedIt, ProgrammedIt
<1>8. TypeOK'
  BY <1>4, <1>5 DEF TypeOK, AtOK
<1>9. SessionInv'
  <2>1. ~ (Done' /\ Len(Calls(job)) > 1)
    BY <1>1, <1>2, <1>3, <1>5, StepNow DEF JobFine, Fine
  <2>2. QED
    BY <1>1, <1>4, <1>5, <1>6, <1>7, <2>1 DEF SessionInv
<1>10. ImageInv'
  BY <1>1, <1>4, <1>5, <1>6, <1>7, SameFlash DEF ImageInv
<1>11. DumpInv'
  <2>1. dumped = <<>>
    BY <1>1, <1>2, <1>6 DEF DumpInv
  <2>2. DumpIsFlash'
    BY <1>1, <1>4 DEF DumpIsFlash, DumpInv
  <2>3. QED
    BY <1>1, <1>4, <1>5, <2>1, <2>2, SameFlash DEF DumpInv
<1>12. QED
  BY <1>5, <1>8, <1>9, <1>10, <1>11 DEF UcIInv

\* set_reset() enters a session, or starts the microcontroller on a whole image.
LEMMA SetResetKeeps ==
    ASSUME TypeOK, UcIInv, SetReset
    PROVE  TypeOK' /\ UcIInv' /\ (resetN' /\ ~resetN => Whole \/ torn)
<1>1. CallsInv /\ SessionInv /\ ImageInv /\ DumpInv
  BY DEF UcIInv
<1>2. ~Done /\ step.do = "reset" /\ ~Doing("command")
  BY DEF SetReset, Doing
<1>3. phase = "send" /\ ~Synced /\ ~Ended
  BY <1>1, <1>2 DEF CallsInv, Synced, Ended
<1>4. Past /\ Reset(step.on) /\ UNCHANGED <<spi, flash, dumped, torn, job, timeout>> /\ phase' = "send"
  BY PastIs DEF SetReset
<1>5. CASE step = Hold
  <2>1. at = 1 /\ at # Len(Steps)
    BY <1>1, <1>2, <1>5, StepDoes, ResetSteps
  <2>2. at' = 2 /\ UNCHANGED calls
    BY <1>4, <2>1, PastIs
  <2>3. resetN' = FALSE /\ progMode' = progMode /\ buffer' = buffer
    <3>1. step.on = TRUE
      BY <1>5, ResetSteps
    <3>2. Reset(TRUE)
      BY <1>4, <3>1
    <3>3. progMode \in BOOLEAN
      BY DEF TypeOK
    <3>4. QED
      BY <3>2, <3>3 DEF Reset
  <2>4. ~Done' /\ Steps' = Steps /\ AtOK' /\ CallsInv'
    <3>1. at' = at + 1
      BY <2>1, <2>2
    <3>2. QED
      BY <1>1, <1>2, <1>4, <2>1, <2>2, <3>1, NextStep
  <2>5. ~InBody /\ ~Programs /\ ~Programs2 /\ ~Dumps /\ ~InBody' /\ ~Programs' /\ ~Programs2' /\ ~Dumps'
    BY <2>1, <2>2 DEF InBody, Programs, Programs2, Dumps
  <2>6. (ErasedIt' <=> ErasedIt) /\ (ProgrammedIt' <=> ProgrammedIt)
    BY <1>4, <2>2, <2>5 DEF ErasedIt, ProgrammedIt
  <2>7. TypeOK'
    BY <1>4, <2>3, <2>4 DEF TypeOK, AtOK
  <2>8. SessionInv'
    BY <1>1, <1>3, <1>4, <2>3, <2>4, <2>5, <2>6 DEF SessionInv
  <2>9. ImageInv'
    BY <1>1, <1>4, <2>2, <2>3, <2>4, <2>5, <2>6, SameFlash DEF ImageInv
  <2>10. DumpInv'
    <3>1. dumped = <<>>
      BY <1>1, <1>2, <2>5 DEF DumpInv
    <3>2. DumpIsFlash'
      BY <1>1, <1>4 DEF DumpIsFlash, DumpInv
    <3>3. QED
      BY <1>1, <1>4, <2>5, <3>1, <3>2, SameFlash DEF DumpInv
  <2>11. QED
    BY <2>3, <2>4, <2>7, <2>8, <2>9, <2>10 DEF UcIInv
<1>6. CASE step = Release
  <2>1. /\ at = Len(Steps) /\ at \in Nat /\ at >= 2
        /\ Head(calls) = "reset" \/ (Head(calls) \in Sessions /\ at >= 4)
    BY <1>1, <1>2, <1>6, StepDoes, StepNow, ResetSteps
  <2>2. calls' = Tail(calls) /\ at' = 1
    BY <1>4, <2>1, PastIs
  <2>3. resetN' = TRUE /\ progMode' = FALSE /\ buffer' = NoBytes /\ DOMAIN buffer' = 0..PageBytes-1
    <3>1. step.on = FALSE
      BY <1>6, ResetSteps
    <3>2. Reset(FALSE)
      BY <1>4, <3>1
    <3>3. DOMAIN buffer = 0..PageBytes-1
      BY <1>1 DEF ImageInv
    <3>4. buffer' = NoBytes
      BY <3>2, <3>3 DEF Reset, NoBytes
    <3>5. DOMAIN NoBytes = 0..PageBytes-1
      BY DEF NoBytes
    <3>6. QED
      BY <3>2, <3>4, <3>5 DEF Reset
  <2>4. /\ CallsInv' /\ AtOK'
        /\ \A c : Has(calls, c) <=> (Head(calls) = c \/ Has(calls', c))
        /\ Head(calls) = "dump" => Done'
        /\ Head(calls) = "program" => ~Has(calls', "earse_chip") /\ ~Has(calls', "program")
        /\ ~InBody' /\ ~Programs' /\ ~Programs2' /\ ~Dumps'
    BY <1>1, <1>2, <1>4, <2>2, NextCall
  <2>5. Head(calls) \in Sessions => InBody
    BY <1>2, <2>1 DEF InBody, Sessions
  <2>6. ErasedIt' => ErasedIt \/ Head(calls) = "earse_chip"
    BY <1>4, <2>4 DEF ErasedIt
  <2>7. ProgrammedIt' => ProgrammedIt
    <3>1. SUFFICES ASSUME ProgrammedIt' PROVE ProgrammedIt
      OBVIOUS
    <3>2. Has(Calls(job), "program") /\ ~Has(calls', "program")
      BY <1>4, <2>4, <3>1 DEF ProgrammedIt
    <3>3. Has(calls, "program") => Programs /\ at = Len(Steps)
      BY <1>2, <2>1, <2>4, <3>2 DEF Programs
    <3>4. QED
      BY <3>2, <3>3 DEF ProgrammedIt
  <2>8. /\ Has(Calls(job), Head(calls)) /\ JobFine(job)
    BY <1>1, <1>2, StepNow
  <2>9. Whole \/ torn
    <3>1. CASE Programs
      <4>1. Head(calls) = "program"
        BY <3>1 DEF Programs
      <4>2. ProgrammedIt
        BY <2>1, <2>8, <3>1, <4>1 DEF ProgrammedIt
      <4>3. flash = Image(job[3]) \/ torn
        BY <1>1, <4>2 DEF ImageInv
      <4>4. job[3] \in Sizes
        BY <2>8, <4>1 DEF JobFine
      <4>5. QED
        BY <4>3, <4>4 DEF Whole
    <3>2. CASE ~Programs
      BY <1>1, <3>2 DEF ImageInv
    <3>3. QED
      BY <3>1, <3>2
  <2>10. TypeOK'
    BY <1>4, <2>3, <2>4 DEF TypeOK, AtOK
  <2>11. SessionInv'
    <3>1. spi.busy => ~ErasedIt'
      BY <1>1, <1>3, <2>1, <2>5, <2>6 DEF SessionInv
    <3>2. ~Done' /\ at' >= 2 => ~resetN'
      BY <2>2
    <3>3. QED
      BY <1>1, <1>4, <2>3, <2>4, <3>1, <3>2 DEF SessionInv
  <2>12. ImageInv'
    <3>1. ErasedIt' /\ Has(calls', "program") => flash = AllErased
      <4>1. SUFFICES ASSUME ErasedIt', Has(calls', "program") PROVE flash = AllErased
        OBVIOUS
      <4>2. Head(calls) # "program" /\ Has(calls, "program")
        BY <2>4, <4>1
      <4>3. CASE Head(calls) = "earse_chip"
        <5>1. Len(Steps) = 4
          BY <4>3, EraseSteps DEF Steps
        <5>2. QED
          BY <1>1, <1>2, <2>1, <4>3, <5>1 DEF ImageInv
      <4>4. CASE Head(calls) # "earse_chip"
        BY <1>1, <2>6, <4>1, <4>2, <4>4 DEF ImageInv, Programs
      <4>5. QED
        BY <4>3, <4>4
    <3>2. ~ (~Done' /\ Head(calls') = "earse_chip" /\ (at' = 4 \/ (at' = 3 /\ Ended')))
      BY <2>2
    <3>3. DOMAIN flash' = Addresses /\ (~torn' => Whole')
      BY <1>1, <1>4, <2>9, SameFlash DEF ImageInv
    <3>4. ProgrammedIt' => IF PagesOf(job[3]) <= Pages THEN flash = Image(job[3]) ELSE torn
      BY <1>1, <2>7 DEF ImageInv
    <3>5. QED
      BY <1>4, <2>3, <2>4, <3>1, <3>2, <3>3, <3>4 DEF ImageInv
  <2>13. DumpInv'
    <3>1. dumped # <<>> => Done' /\ resetN'
      BY <1>1, <1>2, <2>3, <2>4 DEF DumpInv, Dumps
    <3>2. DumpIsFlash' /\ dumped' \in Seq(FlashBytes')
      BY <1>1, <1>4, SameFlash DEF DumpIsFlash, DumpInv
    <3>3. QED
      BY <1>4, <2>4, <3>1, <3>2 DEF DumpInv
  <2>14. QED
    BY <2>4, <2>9, <2>10, <2>11, <2>12, <2>13 DEF UcIInv
<1>7. QED
  BY <1>1, <1>2, <1>5, <1>6, StepDoes

\* A command goes to the controller, which is free or busy with an older one.
LEMMA SendCommandKeeps ==
    ASSUME TypeOK, UcIInv, SendCommand
    PROVE  TypeOK' /\ UcIInv'
<1>1. CallsInv /\ SessionInv /\ ImageInv /\ DumpInv
  BY DEF UcIInv
<1>2. ~Done /\ Doing("command") /\ phase = "send" /\ ~Synced /\ ~Ended
  BY DEF SendCommand, Doing, Synced, Ended
<1>3. /\ spi' = IF spi.busy THEN spi ELSE [busy |-> TRUE, cmd |-> step, answer |-> Garbage]
      /\ phase' = "wait" /\ timeout' = MaxPolls
      /\ UNCHANGED <<resetN, progMode, buffer, flash, job, calls, at, dumped, torn>>
  BY DEF SendCommand, uc
<1>4. /\ (Done' <=> Done) /\ Steps' = Steps /\ step' = step /\ (AtOK' <=> AtOK)
      /\ (Doing("command")' <=> Doing("command"))
      /\ (InBody' <=> InBody) /\ (ErasedIt' <=> ErasedIt)
      /\ (Programs' <=> Programs) /\ (Programs2' <=> Programs2)
      /\ (ProgrammedIt' <=> ProgrammedIt) /\ (Dumps' <=> Dumps)
  BY <1>3, SameStep
<1>5. spi'.busy = TRUE /\ spi'.answer = Garbage /\ DOMAIN spi' = {"busy", "cmd", "answer"}
  BY <1>1, <1>3 DEF SessionInv
<1>6. ~Ended'
  BY <1>5 DEF Ended
<1>7. ~spi.busy => Synced'
  BY <1>2, <1>3, <1>4 DEF Synced
<1>8. TypeOK'
  BY <1>3, <1>4, UcAssumption DEF TypeOK
<1>9. CallsInv'
  BY <1>1, <1>2, <1>3, <1>4 DEF CallsInv
<1>10. SessionInv'
  <2>1. InBody \/ ErasedIt => ~spi.busy
    BY <1>1, <1>2 DEF SessionInv
  <2>2. spi.busy /\ progMode /\ spi.cmd.cmd \in {"ERASE_CHIP", "WRITE_PAGE"} => torn
    BY <1>1, <1>2 DEF SessionInv
  <2>3. spi.busy => spi' = spi
    BY <1>3
  <2>4. spi'.answer # <<"PROG_ENABLE">>
    BY <1>5, Distinct
  <2>5. QED
    BY <1>1, <1>3, <1>4, <1>5, <1>7, <2>1, <2>2, <2>3, <2>4 DEF SessionInv
<1>11. ImageInv'
  <2>1. Programs2 => TurnInv(job[3], PageAt(at - 3), ByteAt(at - 3))'
    BY <1>1, <1>2, <1>3, <1>4, <1>6 DEF ImageInv, TurnInv
  <2>2. QED
    BY <1>1, <1>3, <1>4, <1>6, <2>1, SameFlash DEF ImageInv
<1>12. DumpInv'
  <2>1. DumpIsFlash' /\ dumped' \in Seq(FlashBytes')
    BY <1>1, <1>3, SameFlash DEF DumpIsFlash, DumpInv
  <2>2. QED
    BY <1>1, <1>3, <1>4, <1>6, <2>1 DEF DumpInv
<1>13. QED
  BY <1>8, <1>9, <1>10, <1>11, <1>12 DEF UcIInv

\* A turn of the wait, or its end by the timeout.
LEMMA PollKeeps ==
    ASSUME TypeOK, UcIInv, Poll
    PROVE  TypeOK' /\ UcIInv'
<1>1. ~Done /\ UNCHANGED <<resetN, spi, uc>>
  BY DEF Poll, Doing
<1>2. CASE TimedOut
  BY <1>1, <1>2, EndKeeps DEF Poll
<1>3. CASE ~TimedOut
  <2>1. timeout' = timeout - 1 /\ timeout # 0
        /\ UNCHANGED <<resetN, spi, progMode, buffer, flash, job, calls, at, phase, dumped, torn>>
    BY <1>1, <1>3 DEF Poll, TimedOut, CountDown, uc
  <2>2. TypeOK'
    BY <2>1, SameStep, UcAssumption DEF TypeOK
  <2>3. UcIInv'
    <3>1. CallsInv /\ SessionInv /\ ImageInv /\ DumpInv
      BY DEF UcIInv
    <3>2. CallsInv'
      BY <2>1, <3>1, SameStep DEF CallsInv
    <3>3. (Synced' <=> Synced) /\ (Ended' <=> Ended) /\ SessionInv'
      BY <2>1, <3>1, SameStep DEF SessionInv, Synced, Ended
    <3>4. ImageInv'
      <4>1. TurnInv(job[3], PageAt(at - 3), ByteAt(at - 3))' <=> TurnInv(job[3], PageAt(at - 3), ByteAt(at - 3))
        BY <2>1, <3>3, SameStep DEF TurnInv
      <4>2. QED
        BY <2>1, <3>1, <3>3, <4>1, SameStep, SameFlash DEF ImageInv
    <3>5. DumpInv'
      BY <2>1, <3>1, <3>3, SameStep, SameFlash DEF DumpInv, DumpIsFlash
    <3>6. QED
      BY <3>2, <3>3, <3>4, <3>5 DEF UcIInv
  <2>4. QED
    BY <2>2, <2>3
<1>4. QED
  BY <1>2, <1>3

\* The tool aborts.
LEMMA AbortKeeps ==
    ASSUME TypeOK, UcIInv, Abort
    PROVE  TypeOK' /\ UcIInv'
BY EndKeeps DEF Abort, Doing

\* The tool is killed.
LEMMA KillKeeps ==
    ASSUME TypeOK, UcIInv, Kill
    PROVE  TypeOK' /\ UcIInv'
BY EndKeeps DEF Kill

-----------------------------------------------------------------------------
(* The end of a command.                                                    *)

\* What becomes of the microcontroller.
LEMMA SpiEndsIs ==
    ASSUME DOMAIN spi = {"busy", "cmd", "answer"}, SpiEnds
    PROVE  /\ spi.busy /\ spi'.busy = FALSE /\ spi'.cmd = spi.cmd /\ DOMAIN spi' = DOMAIN spi
           /\ UNCHANGED <<resetN, job, calls, at, phase, timeout, dumped, torn>>
           /\ \/ /\ spi'.answer = Garbage /\ UNCHANGED <<progMode, buffer, flash>>
                 /\ spi.cmd.cmd = "PROG_ENABLE" \/ ~progMode
              \/ spi.cmd.cmd = "PROG_ENABLE" /\ progMode' = TRUE /\ ~resetN /\ UNCHANGED <<buffer, flash>>
              \/ /\ spi.cmd.cmd # "PROG_ENABLE" /\ progMode /\ progMode' = progMode
                 /\ spi.cmd.cmd = "ERASE_CHIP" => flash' = AllErased /\ buffer' = buffer
                 /\ spi.cmd.cmd = "WRITE_PAGE" =>
                        flash' = Program1(spi.cmd.addr) /\ buffer' = [i \in DOMAIN buffer |-> Erased]
                 /\ spi.cmd.cmd \in {"PROG_LOW", "PROG_HIGH"} =>
                        flash' = flash /\ buffer' = [buffer EXCEPT ![spi.cmd.addr] = spi.cmd.byte]
                 /\ spi.cmd.cmd \notin {"ERASE_CHIP", "WRITE_PAGE", "PROG_LOW", "PROG_HIGH"} =>
                        flash' = flash /\ buffer' = buffer
                 /\ spi.cmd.cmd \in {"READ_LOW", "READ_HIGH"} => spi'.answer = flash[spi.cmd.addr]
<1>1. spi.busy /\ UNCHANGED <<resetN, job, calls, at, phase, timeout, dumped, torn>>
  BY DEF SpiEnds, local
<1>2. PICK c : c = spi.cmd
  OBVIOUS
<1>3. ASSUME NEW a, spi' = [spi EXCEPT !.busy = FALSE, !.answer = a]
      PROVE  spi'.busy = FALSE /\ spi'.cmd = spi.cmd /\ spi'.answer = a /\ DOMAIN spi' = DOMAIN spi
  BY <1>3
<1>4. CASE /\ c.cmd = "PROG_ENABLE" /\ ~resetN /\ progMode' = TRUE
           /\ spi' = [spi EXCEPT !.busy = FALSE, !.answer = <<"PROG_ENABLE">>]
           /\ UNCHANGED <<buffer, flash>>
  BY <1>1, <1>2, <1>3, <1>4
<1>5. CASE /\ spi' = [spi EXCEPT !.busy = FALSE, !.answer = Garbage] /\ UNCHANGED uc
           /\ c.cmd = "PROG_ENABLE" \/ ~progMode
  BY <1>1, <1>2, <1>3, <1>5 DEF uc
<1>6. CASE /\ c.cmd \notin {"PROG_ENABLE"} /\ progMode
           /\ flash' = CASE c.cmd = "ERASE_CHIP" -> [a \in Addresses |-> Erased]
                         [] c.cmd = "WRITE_PAGE" -> Program1(c.addr)
                         [] OTHER -> flash
           /\ buffer' = CASE c.cmd \in {"PROG_LOW", "PROG_HIGH"} -> [buffer EXCEPT ![c.addr] = c.byte]
                          [] c.cmd = "WRITE_PAGE" -> [i \in DOMAIN buffer |-> Erased]
                          [] OTHER -> buffer
           /\ spi' = [spi EXCEPT !.busy = FALSE,
                      !.answer = IF c.cmd \in {"READ_LOW", "READ_HIGH"} THEN flash[c.addr] ELSE <<c.cmd>>]
           /\ UNCHANGED progMode
  <2>1. PICK a : a = IF c.cmd \in {"READ_LOW", "READ_HIGH"} THEN flash[c.addr] ELSE <<c.cmd>>
    OBVIOUS
  <2>2. spi' = [spi EXCEPT !.busy = FALSE, !.answer = a]
    BY <1>6, <2>1
  <2>3. spi'.busy = FALSE /\ spi'.cmd = spi.cmd /\ spi'.answer = a /\ DOMAIN spi' = DOMAIN spi
    BY <1>3, <2>2
  <2>4. c.cmd \in {"READ_LOW", "READ_HIGH"} => spi'.answer = flash[c.addr]
    BY <2>1, <2>3
  <2>5. c.cmd = "ERASE_CHIP" => flash' = AllErased /\ buffer' = buffer
    BY <1>6 DEF AllErased
  <2>6. c.cmd = "WRITE_PAGE" => flash' = Program1(c.addr) /\ buffer' = [i \in DOMAIN buffer |-> Erased]
    BY <1>6
  <2>7. c.cmd \in {"PROG_LOW", "PROG_HIGH"} => flash' = flash /\ buffer' = [buffer EXCEPT ![c.addr] = c.byte]
    BY <1>6
  <2>8. c.cmd \notin {"ERASE_CHIP", "WRITE_PAGE", "PROG_LOW", "PROG_HIGH"} => flash' = flash /\ buffer' = buffer
    BY <1>6
  <2>9. c.cmd # "PROG_ENABLE" /\ progMode /\ progMode' = progMode
    BY <1>6
  <2>10. QED
    BY <1>1, <1>2, <2>3, <2>4, <2>5, <2>6, <2>7, <2>8, <2>9
<1>7. QED
  BY <1>2, <1>4, <1>5, <1>6 DEF SpiEnds

\* It may be another job's command only where it does no harm.
LEMMA SpiEndsKeeps ==
    ASSUME TypeOK, UcIInv, SpiEnds
    PROVE  TypeOK' /\ UcIInv'
<1>1. CallsInv /\ SessionInv /\ ImageInv /\ DumpInv
  BY DEF UcIInv
<1>2. /\ spi.busy /\ spi'.busy = FALSE /\ spi'.cmd = spi.cmd /\ DOMAIN spi' = {"busy", "cmd", "answer"}
      /\ UNCHANGED <<resetN, job, calls, at, phase, timeout, dumped, torn>>
  BY <1>1, SpiEndsIs DEF SessionInv
<1>3. /\ (Done' <=> Done) /\ Steps' = Steps /\ step' = step /\ (AtOK' <=> AtOK)
      /\ (Doing("command")' <=> Doing("command"))
      /\ (InBody' <=> InBody) /\ (ErasedIt' <=> ErasedIt)
      /\ (Programs' <=> Programs) /\ (Programs2' <=> Programs2)
      /\ (ProgrammedIt' <=> ProgrammedIt) /\ (Dumps' <=> Dumps)
  BY <1>2, SameStep
<1>4. ~Ended /\ (Ended' <=> phase = "wait")
  BY <1>2 DEF Ended
<1>5. InBody \/ ErasedIt => Synced
  BY <1>1, <1>2 DEF SessionInv
<1>6. Synced => Doing("command") /\ phase = "wait" /\ spi.cmd = step
  BY <1>1 DEF Synced, CallsInv
<1>7. CallsInv'
  BY <1>1, <1>2, <1>3 DEF CallsInv
<1>8. Programs2 => InBody /\ Synced /\ Head(calls) = "program"
  BY <1>1, <1>5, InBodyToo
<1>9. Dumps => InBody /\ Synced /\ Head(calls) = "dump"
  BY <1>1, <1>5, InBodyToo
<1>10. ASSUME NEW c, c = spi.cmd
       PROVE  /\ InBody => c.cmd # "PROG_ENABLE" /\ progMode
              /\ ~Done /\ Head(calls) = "earse_chip" /\ at = 3 => c.cmd = "ERASE_CHIP"
              /\ Programs2 => c.cmd \in {"EXT_ADDR", "PROG_LOW", "PROG_HIGH", "WRITE_PAGE"}
              /\ Dumps => c.cmd \in {"EXT_ADDR", "READ_LOW", "READ_HIGH"}
              /\ c.cmd = "ERASE_CHIP" /\ Synced => Head(calls) = "earse_chip" /\ at = 3
              /\ c.cmd \in {"PROG_LOW", "PROG_HIGH", "WRITE_PAGE"} /\ Synced => Head(calls) = "program"
  <2>1. InBody => c.cmd # "PROG_ENABLE" /\ progMode
    <3>1. InBody => at # 2
      BY DEF InBody
    <3>2. QED
      BY <1>1, <1>5, <1>6, <1>10, <3>1, CommandCall DEF SessionInv
  <2>2. ~Done /\ Head(calls) = "earse_chip" /\ at = 3 => c.cmd = "ERASE_CHIP"
    BY <1>1, <1>5, <1>6, <1>10, CommandCall DEF InBody, Sessions
  <2>3. Programs2 => c.cmd \in {"EXT_ADDR", "PROG_LOW", "PROG_HIGH", "WRITE_PAGE"}
    BY <1>1, <1>6, <1>8, <1>10, CommandCall DEF InBody
  <2>4. Dumps => c.cmd \in {"EXT_ADDR", "READ_LOW", "READ_HIGH"}
    BY <1>1, <1>6, <1>9, <1>10, CommandCall DEF InBody
  <2>5. c.cmd = "ERASE_CHIP" /\ Synced => Head(calls) = "earse_chip" /\ at = 3
    <3>1. SUFFICES ASSUME c.cmd = "ERASE_CHIP", Synced PROVE Head(calls) = "earse_chip" /\ at = 3
      OBVIOUS
    <3>2. Head(calls) = "earse_chip" /\ at # 2
      BY <1>1, <1>6, <1>10, <3>1, CommandCall
    <3>3. ~Done /\ at \in Nat /\ at >= 2 /\ at < Len(Steps)
      BY <1>1, <1>6, <3>1, StepDoes, StepNow DEF Doing
    <3>4. Len(Steps) = 4
      BY <3>2, EraseSteps DEF Steps
    <3>5. QED
      BY <3>2, <3>3, <3>4
  <2>6. c.cmd \in {"PROG_LOW", "PROG_HIGH", "WRITE_PAGE"} /\ Synced => Head(calls) = "program"
    BY <1>1, <1>6, <1>10, CommandCall
  <2>7. QED
    BY <2>1, <2>2, <2>3, <2>4, <2>5, <2>6
\* Nothing is changed but the mode.
<1>11. ASSUME UNCHANGED <<buffer, flash>>, progMode => progMode', progMode' \in BOOLEAN,
              progMode' => ~resetN, spi.cmd.cmd = "PROG_ENABLE" \/ ~progMode,
              spi'.answer = <<"PROG_ENABLE">> => progMode'
       PROVE  TypeOK' /\ UcIInv'
  <2>1. ~InBody
    BY <1>10, <1>11
  <2>2. ~Programs /\ ~Programs2 /\ ~Dumps
    BY <1>1, <2>1, InBodyToo
  <2>3. TypeOK'
    BY <1>2, <1>3, <1>11 DEF TypeOK
  <2>4. SessionInv'
    BY <1>1, <1>2, <1>3, <1>11, <2>1 DEF SessionInv
  <2>5. ImageInv'
    <3>1. ~ (~Done /\ Head(calls) = "earse_chip" /\ at = 3)
      BY <2>1 DEF InBody, Sessions
    <3>2. QED
      BY <1>1, <1>2, <1>3, <1>11, <2>2, <3>1, SameFlash DEF ImageInv
  <2>6. DumpInv'
    <3>1. DumpIsFlash' /\ dumped' \in Seq(FlashBytes')
      BY <1>1, <1>2, <1>11, SameFlash DEF DumpIsFlash, DumpInv
    <3>2. QED
      BY <1>1, <1>2, <1>3, <2>2, <3>1 DEF DumpInv
  <2>7. QED
    BY <1>7, <2>3, <2>4, <2>5, <2>6 DEF UcIInv
<1>12. CASE /\ spi'.answer = Garbage /\ UNCHANGED <<progMode, buffer, flash>>
            /\ spi.cmd.cmd = "PROG_ENABLE" \/ ~progMode
  BY <1>11, <1>12, Distinct DEF TypeOK
<1>13. CASE spi.cmd.cmd = "PROG_ENABLE" /\ progMode' = TRUE /\ ~resetN /\ UNCHANGED <<buffer, flash>>
  BY <1>11, <1>13
\* A command is taken.
<1>14. ASSUME spi.cmd.cmd # "PROG_ENABLE", progMode, progMode' = progMode,
              spi.cmd.cmd = "ERASE_CHIP" => flash' = AllErased /\ buffer' = buffer,
              spi.cmd.cmd = "WRITE_PAGE" =>
                  flash' = Program1(spi.cmd.addr) /\ buffer' = [i \in DOMAIN buffer |-> Erased],
              spi.cmd.cmd \in {"PROG_LOW", "PROG_HIGH"} =>
                  flash' = flash /\ buffer' = [buffer EXCEPT ![spi.cmd.addr] = spi.cmd.byte],
              spi.cmd.cmd \notin {"ERASE_CHIP", "WRITE_PAGE", "PROG_LOW", "PROG_HIGH"} =>
                  flash' = flash /\ buffer' = buffer,
              spi.cmd.cmd \in {"READ_LOW", "READ_HIGH"} => spi'.answer = flash[spi.cmd.addr]
       PROVE  TypeOK' /\ UcIInv'
  <2>1. TypeOK'
    BY <1>2, <1>3, <1>14 DEF TypeOK
  <2>2. SessionInv'
    BY <1>1, <1>2, <1>3, <1>14 DEF SessionInv
  <2>3. spi.cmd.cmd \in {"ERASE_CHIP", "WRITE_PAGE"} => torn \/ Synced
    BY <1>1, <1>2, <1>14 DEF SessionInv
  <2>4. Synced => ~Done /\ at < Len(Steps) /\ at >= 2 /\ at \in Nat /\ Len(Steps) \in Nat
    BY <1>1, <1>6, StepDoes, StepNow DEF Doing
  <2>5. spi.cmd.cmd \in {"PROG_LOW", "PROG_HIGH", "WRITE_PAGE"} /\ Synced => Programs
    <3>1. SUFFICES ASSUME spi.cmd.cmd \in {"PROG_LOW", "PROG_HIGH", "WRITE_PAGE"}, Synced PROVE Programs
      OBVIOUS
    <3>2. Head(calls) = "program" /\ step.cmd = spi.cmd.cmd
      BY <1>6, <1>10, <3>1
    <3>3. at # 2
      BY <1>1, <1>6, <3>1, <3>2, CommandCall
    <3>4. at # 3
      BY <1>1, <2>4, <3>1, <3>2, ProgramNow
    <3>5. QED
      BY <2>4, <3>1, <3>2, <3>3, <3>4 DEF Programs
  <2>6. ImageInv'
    <3>1. DOMAIN buffer' = 0..PageBytes-1 /\ DOMAIN flash' = Addresses
      <4>1. DOMAIN AllErased = Addresses /\ DOMAIN Program1(spi.cmd.addr) = Addresses
        BY DEF AllErased, Program1
      <4>2. DOMAIN buffer = 0..PageBytes-1 /\ DOMAIN flash = Addresses
        BY <1>1 DEF ImageInv
      <4>3. QED
        BY <1>14, <4>1, <4>2
    <3>2. ~torn => Whole' \/ Programs
      <4>1. CASE spi.cmd.cmd = "ERASE_CHIP"
        BY <1>14, <4>1 DEF Whole, AllErased
      <4>2. CASE spi.cmd.cmd = "WRITE_PAGE"
        BY <2>3, <2>5, <4>2
      <4>3. CASE spi.cmd.cmd \notin {"ERASE_CHIP", "WRITE_PAGE"}
        BY <1>1, <1>14, <4>3, SameFlash DEF ImageInv
      <4>4. QED
        BY <4>1, <4>2, <4>3
    <3>3. ~Done /\ Head(calls) = "earse_chip" /\ (at = 4 \/ at = 3) => flash' = AllErased
      <4>1. SUFFICES ASSUME ~Done, Head(calls) = "earse_chip", at = 4 \/ at = 3 PROVE flash' = AllErased
        OBVIOUS
      <4>2. InBody /\ Len(Steps) = 4
        BY <4>1, EraseSteps DEF InBody, Sessions, Steps
      <4>3. at = 3
        BY <1>5, <2>4, <4>1, <4>2
      <4>4. QED
        BY <1>10, <1>14, <4>1, <4>3
    <3>4. ErasedIt /\ Has(calls, "program") /\ ~Programs => flash' = AllErased /\ buffer' = NoBytes
      <4>1. SUFFICES ASSUME ErasedIt, Has(calls, "program"), ~Programs
                     PROVE  flash' = flash /\ buffer' = buffer
        BY <1>1 DEF ImageInv
      <4>2. Synced
        BY <1>5, <4>1
      <4>3. spi.cmd.cmd # "ERASE_CHIP"
        BY <1>1, <1>10, <2>4, <4>1, <4>2, StepNow DEF ErasedIt
      <4>4. QED
        BY <1>14, <2>5, <4>1, <4>2, <4>3
    <3>5. ProgrammedIt => flash' = flash
      <4>1. SUFFICES ASSUME ProgrammedIt PROVE flash' = flash
        OBVIOUS
      <4>2. ~ (Programs /\ at = Len(Steps))
        BY <1>1, <1>5, <2>4, InBodyToo
      <4>3. ~Has(calls, "program") /\ ~Has(calls, "earse_chip")
        BY <1>1, <4>1, <4>2 DEF ProgrammedIt, CallsInv
      <4>4. Erases(job)
        <5>1. job \in JobNames
          BY <4>1, NothingCalls DEF ProgrammedIt, TypeOK
        <5>2. QED
          BY <4>1, <5>1, JobCalls DEF ProgrammedIt, JobFine
      <4>5. Synced
        BY <1>5, <4>3, <4>4 DEF ErasedIt
      <4>6. spi.cmd.cmd \notin {"ERASE_CHIP", "WRITE_PAGE"}
        BY <1>1, <1>10, <2>4, <4>3, <4>5, StepNow
      <4>7. QED
        BY <1>14, <4>6
    <3>6. ASSUME Programs2 PROVE TurnInv(job[3], PageAt(at - 3), ByteAt(at - 3))'
      <4>1. PICK n \in Nat : n = job[3]
        BY <1>1, <1>8, <3>6, ProgramNow DEF Programs2, Programs
      <4>2. ~Done /\ Head(calls) = "program" /\ at >= 4 /\ at < Len(Steps) /\ at \in Nat
        BY <1>8, <2>4, <3>6 DEF Programs2, Programs
      <4>3. PICK i \in 1..TurnsOf(n) : at = i + 3
        <5>1. TurnsOf(n) \in Nat /\ Len(Steps) = TurnsOf(n) + 4
          BY <1>1, <4>1, <4>2, ProgramNow
        <5>2. at - 3 \in 1..TurnsOf(n) /\ at = (at - 3) + 3
          BY <4>2, <5>1
        <5>3. QED
          BY <5>2
      <4>4. PICK q, b, w : q = PageAt(i) /\ b = ByteAt(i) /\ w = 2 * WordsOf(n, q)
        OBVIOUS
      <4>5. /\ q \in Nat /\ q < PagesOf(n) /\ b \in 0..w /\ w \in 0..PageBytes
            /\ \A x \in 0..PageBytes-1 : x < w <=> q * PageBytes + x < 2 * (n \div 2)
        BY <4>4, ProgramTurn
      <4>6. at - 3 = i
        BY <4>3
      <4>7. TurnInv(n, q, b)
        BY <1>1, <3>6, <4>1, <4>4, <4>6 DEF ImageInv
      <4>8. /\ q > Pages => torn
            /\ q <= Pages => flash = Partial(n, q)
            /\ buffer = Loaded(n, q, b)
        BY <1>4, <4>7 DEF TurnInv
      <4>9. spi.cmd = step /\ phase = "wait"
        BY <1>6, <1>8, <3>6
      <4>10. step = IF b < w THEN load_mem_page(n, q, b) ELSE prog_mem_page(q)
        BY <1>1, <4>1, <4>2, <4>3, <4>4, ProgramNow
      <4>11. CASE b < w
        <5>1. /\ step.cmd \in {"PROG_LOW", "PROG_HIGH"} /\ step.addr = b
              /\ step.byte = FileByte(n, q * PageBytes + b)
          BY <4>10, <4>11, LoadMemPage
        <5>2. flash' = flash /\ buffer' = [Loaded(n, q, b) EXCEPT ![b] = FileByte(n, q * PageBytes + b)]
          BY <1>14, <4>8, <4>9, <5>1
        <5>3. b \in 0..PageBytes-1
          BY <4>5, <4>11, PageType
        <5>4. buffer' = Loaded(n, q, b + 1)
          BY <5>2, <5>3, LoadByte
        <5>5. QED
          BY <1>2, <1>3, <1>4, <4>1, <4>4, <4>6, <4>8, <4>9, <5>1, <5>2, <5>4 DEF TurnInv
      <4>12. CASE ~ (b < w)
        <5>1. step.cmd = "WRITE_PAGE" /\ step.addr = q * PageBytes
          BY <4>10, <4>12, ProgMemPage
        <5>2. flash' = Program1(q * PageBytes) /\ buffer' = [x \in DOMAIN buffer |-> Erased]
          BY <1>14, <4>9, <5>1
        <5>3. buffer' = NoBytes
          BY <1>1, <5>2 DEF ImageInv, NoBytes
        <5>4. b = w
          BY <4>5, <4>12, PageType
        <5>5. q < Pages => flash' = Partial(n, q + 1)
          <6>1. ASSUME q < Pages PROVE flash' = Partial(n, q + 1)
            <7>1. flash = Partial(n, q)
              BY <4>5, <4>8, <6>1, PageType
            <7>2. buffer = Loaded(n, q, w)
              BY <4>8, <5>4
            <7>3. Program1(q * PageBytes) = Partial(n, q + 1)
              BY <4>5, <6>1, <7>1, <7>2, WritePage
            <7>4. QED
              BY <5>2, <7>3
          <6>2. QED
            BY <6>1
        <5>6. QED
          BY <1>2, <1>3, <1>4, <4>1, <4>4, <4>6, <4>8, <4>9, <5>1, <5>3, <5>5 DEF TurnInv
      <4>13. QED
        BY <4>11, <4>12
    <3>7. ProgrammedIt => IF PagesOf(job[3]) <= Pages THEN flash' = Image(job[3]) ELSE torn
      BY <1>1, <3>5 DEF ImageInv
    <3>8. QED
      BY <1>2, <1>3, <3>1, <3>2, <3>3, <3>4, <3>6, <3>7 DEF ImageInv
  <2>7. DumpInv'
    <3>1. dumped = <<>> \/ flash' = flash
      <4>1. dumped # <<>> => Dumps
        BY <1>1, <1>14 DEF DumpInv, TypeOK
      <4>2. Dumps => spi.cmd.cmd \in {"EXT_ADDR", "READ_LOW", "READ_HIGH"}
        BY <1>10
      <4>3. QED
        BY <1>14, <4>1, <4>2
    <3>2. DumpIsFlash' /\ dumped' \in Seq(FlashBytes')
      <4>1. CASE dumped = <<>>
        <5>1. <<>> \in Seq(FlashBytes') /\ \A i \in DOMAIN <<>> : <<>>[i] = flash'[i - 1]
          OBVIOUS
        <5>2. QED
          BY <1>2, <4>1, <5>1 DEF DumpIsFlash
      <4>2. CASE flash' = flash
        BY <1>1, <1>2, <4>2, SameFlash DEF DumpIsFlash, DumpInv
      <4>3. QED
        BY <3>1, <4>1, <4>2
    <3>3. ASSUME Dumps, at > 3, at < Len(Steps), step.do = "command"
          PROVE  spi'.answer = flash'[step.addr]
      <4>1. Synced /\ ~Done /\ Head(calls) = "dump" /\ spi.cmd = step /\ at \in Nat
        BY <1>6, <1>9, <2>4, <3>3
      <4>2. PICK i \in 1..DumpTurns : at = i + 3
        <5>1. DumpTurns \in Nat /\ Len(Steps) = DumpTurns + 4
          BY <1>1, <4>1, DumpNow
        <5>2. at - 3 \in 1..DumpTurns /\ at = (at - 3) + 3
          BY <3>3, <4>1, <5>1
        <5>3. QED
          BY <5>2
      <4>3. step = IF ByteAt(i) < PageBytes THEN read_mem_page(PageAt(i) * PageBytes + ByteAt(i))
                   ELSE [do |-> "write"]
        BY <1>1, <4>1, <4>2, DumpNow
      <4>4. step.cmd \in {"READ_LOW", "READ_HIGH"}
        BY <3>3, <4>3, ReadMemPage
      <4>5. QED
        BY <1>14, <4>1, <4>4
    <3>4. QED
      BY <1>1, <1>2, <1>3, <3>2, <3>3 DEF DumpInv
  <2>8. QED
    BY <1>7, <2>1, <2>2, <2>6, <2>7 DEF UcIInv
<1>15. QED
  BY <1>1, <1>12, <1>13, <1>14, SpiEndsIs DEF SessionInv

-----------------------------------------------------------------------------
(* The answer to a command.                                                 *)

\* The answer is taken, and the job goes on to the next turn.
LEMMA AnsweredKeeps ==
    ASSUME TypeOK, UcIInv, Answered
    PROVE  TypeOK' /\ UcIInv'
<1>1. CallsInv /\ SessionInv /\ ImageInv /\ DumpInv
  BY DEF UcIInv
<1>2. /\ ~Done /\ Doing("command") /\ step.do = "command" /\ phase = "wait" /\ spi.busy = FALSE /\ Ended
      /\ UNCHANGED <<resetN, spi, progMode, buffer, flash>>
  BY <1>1 DEF Answered, Doing, Ended, uc, SessionInv
<1>3. CASE ProgModeFailed
  BY <1>2, <1>3, EndKeeps DEF Answered, uc
<1>4. CASE ~ProgModeFailed
  <2>1. /\ dumped' = IF step.cmd \in {"READ_LOW", "READ_HIGH"} THEN Append(dumped, spi.answer) ELSE dumped
        /\ torn' = ((torn /\ step.cmd # "ERASE_CHIP") \/ PastEnd)
        /\ Past
    BY <1>4 DEF Answered
  <2>2. Head(calls) \in Sessions /\ at >= 2 /\ at < Len(Steps) /\ at \in Nat /\ Len(Steps) \in Nat
    BY <1>1, <1>2, StepDoes, StepNow
  <2>3. at' = at + 1 /\ UNCHANGED <<job, calls, timeout>> /\ phase' = "send"
    BY <2>1, <2>2, PastIs
  <2>4. ~Done' /\ Steps' = Steps /\ AtOK' /\ CallsInv' /\ Head(calls') = Head(calls)
    BY <1>1, <1>2, <2>2, <2>3, NextStep
  <2>5. ~Ended'
    BY <2>3 DEF Ended
  <2>6. ErasedIt' <=> ErasedIt
    BY <2>3 DEF ErasedIt
  <2>7. step.cmd = "PROG_ENABLE" <=> at = 2
    BY <1>1, <1>2, CommandCall
  <2>8. progMode
    <3>1. CASE at = 2
      BY <1>1, <1>2, <1>4, <2>7, <3>1 DEF ProgModeFailed, SessionInv
    <3>2. CASE at # 2
      BY <1>1, <1>2, <2>2, <3>2 DEF SessionInv, InBody
    <3>3. QED
      BY <3>1, <3>2
  <2>9. torn' \in BOOLEAN
    BY <2>1 DEF TypeOK
  <2>10. at' \in 1..Len(Steps')
    BY <2>4 DEF AtOK
  <2>11. SessionInv'
    BY <1>1, <1>2, <2>3, <2>4, <2>8 DEF SessionInv, TypeOK
\* A dump: what was read comes to what is there.
  <2>12. ASSUME step.cmd \in {"READ_LOW", "READ_HIGH"}
         PROVE  /\ Dumps /\ at > 3 /\ dumped \in Seq(FlashBytes)
                /\ Len(dumped) \in Addresses /\ Len(dumped) + 1 <= Pages * PageBytes
                /\ spi.answer = flash[Len(dumped)] /\ spi.answer \in FlashBytes
                /\ at' < Len(Steps)
                /\ Len(dumped) + 1 = PageAt(at' - 3) * PageBytes + ByteAt(at' - 3)
    <3>1. Head(calls) = "dump"
      BY <1>1, <1>2, <2>12, CommandCall
    <3>2. /\ DumpTurns \in Nat \ {0} /\ Len(Steps) = DumpTurns + 4
          /\ at = 3 => step.cmd = "EXT_ADDR"
      BY <1>1, <1>2, <3>1, DumpNow
    <3>3. at > 3
      BY <2>2, <2>7, <2>12, <3>2
    <3>4. Dumps
      BY <1>2, <2>2, <3>1, <3>3 DEF Dumps
    <3>5. PICK i \in 1..DumpTurns : at = i + 3
      <4>1. at - 3 \in 1..DumpTurns /\ at = (at - 3) + 3
        BY <2>2, <3>2, <3>3
      <4>2. QED
        BY <4>1
    <3>6. step = IF ByteAt(i) < PageBytes THEN read_mem_page(PageAt(i) * PageBytes + ByteAt(i))
                 ELSE [do |-> "write"]
      BY <1>1, <1>2, <3>1, <3>5, DumpNow
    <3>7. PICK q \in Nat, b \in 0..PageBytes : q = PageAt(i) /\ b = ByteAt(i)
      BY TurnAt
    <3>8. b < PageBytes
      BY <1>2, <3>6, <3>7
    <3>9. step.addr = q * PageBytes + b
      BY <3>6, <3>7, <3>8, ReadMemPage
    <3>10. at - 3 = i /\ at' - 3 = i + 1
      BY <2>3, <3>5
    <3>11. Len(dumped) = q * PageBytes + b /\ spi.answer = flash[q * PageBytes + b]
      BY <1>1, <1>2, <2>2, <3>3, <3>4, <3>7, <3>9, <3>10 DEF DumpInv
    <3>12. q < Pages /\ i + 1 \in 1..DumpTurns
      BY <3>7, <3>8, DumpTurn
    <3>13. PageAt(i + 1) = q /\ ByteAt(i + 1) = b + 1
      BY <3>7, <3>8, TurnNext
    <3>14. q * PageBytes \in Nat /\ q * PageBytes + PageBytes <= Pages * PageBytes /\ Pages * PageBytes \in Nat
      <4>1. (q + 1) * PageBytes = q * PageBytes + PageBytes /\ q * PageBytes \in Nat
        BY PageType, NextMultiple
      <4>2. q + 1 <= Pages /\ q + 1 \in Nat
        BY <3>12, PageType
      <4>3. (q + 1) * PageBytes <= Pages * PageBytes /\ Pages * PageBytes \in Nat
        BY <4>2, PageType, Monotone
      <4>4. QED
        BY <4>1, <4>3
    <3>15. /\ Len(dumped) \in Addresses /\ Len(dumped) + 1 <= Pages * PageBytes
      BY <3>8, <3>11, <3>14, PageType DEF Addresses
    <3>16. spi.answer \in FlashBytes
      BY <3>11, <3>15 DEF FlashBytes
    <3>17. at' < Len(Steps)
      BY <3>2, <3>5, <3>12, <2>3
    <3>18. Len(dumped) + 1 = PageAt(at' - 3) * PageBytes + ByteAt(at' - 3)
      BY <3>10, <3>11, <3>13, <3>14, <3>8, PageType
    <3>19. dumped \in Seq(FlashBytes)
      BY <1>1 DEF DumpInv
    <3>20. QED
      BY <3>3, <3>4, <3>11, <3>15, <3>16, <3>17, <3>18, <3>19
  <2>13. DumpInv' /\ Len(dumped') <= Pages * PageBytes
    <3>1. CASE step.cmd \in {"READ_LOW", "READ_HIGH"}
      <4>1. /\ Dumps /\ at > 3 /\ dumped \in Seq(FlashBytes)
            /\ Len(dumped) \in Addresses /\ Len(dumped) + 1 <= Pages * PageBytes
            /\ spi.answer = flash[Len(dumped)] /\ spi.answer \in FlashBytes
            /\ at' < Len(Steps)
            /\ Len(dumped) + 1 = PageAt(at' - 3) * PageBytes + ByteAt(at' - 3)
        BY <2>12, <3>1
      <4>2. PICK l \in Nat : l = Len(dumped)
        BY <4>1
      <4>3. /\ dumped' \in Seq(FlashBytes) /\ Len(dumped') = l + 1
            /\ \A k \in 1..l : dumped'[k] = dumped[k]
            /\ dumped'[l + 1] = spi.answer
        <5>1. dumped' = Append(dumped, spi.answer)
          BY <2>1, <3>1
        <5>2. QED
          BY <4>1, <4>2, <5>1, AppendProperties
      <4>4. DOMAIN dumped = 1..l /\ DOMAIN dumped' = 1 .. l + 1
        BY <4>1, <4>2, <4>3
      <4>5. ASSUME NEW k \in 1 .. l + 1 PROVE dumped'[k] = flash'[k - 1]
        <5>1. CASE k \in 1..l
          BY <1>1, <1>2, <4>3, <4>4, <5>1 DEF DumpInv, DumpIsFlash
        <5>2. CASE k = l + 1
          <6>1. k - 1 = l
            BY <5>2
          <6>2. dumped'[k] = spi.answer
            BY <4>3, <5>2
          <6>3. QED
            BY <1>2, <4>1, <4>2, <6>1, <6>2
        <5>3. QED
          BY <4>5, <5>1, <5>2
      <4>6. DumpIsFlash'
        BY <4>4, <4>5, Zenon DEF DumpIsFlash
      <4>7. Dumps'
        BY <2>2, <2>3, <2>4, <4>1 DEF Dumps
      <4>8. at' # 3 /\ Len(dumped') = PageAt(at' - 3) * PageBytes + ByteAt(at' - 3)
        BY <2>2, <2>3, <4>1, <4>2, <4>3
      <4>9. dumped' \in Seq(FlashBytes')
        BY <1>2, <4>3, SameFlash
      <4>10. Len(dumped') <= Pages * PageBytes
        BY <4>1, <4>2, <4>3
      <4>11. QED
        BY <2>5, <4>6, <4>7, <4>8, <4>9, <4>10 DEF DumpInv
    <3>2. CASE step.cmd \notin {"READ_LOW", "READ_HIGH"}
      <4>1. dumped' = dumped
        BY <2>1, <3>2
      <4>2. Dumps => at = 3
        <5>1. SUFFICES ASSUME Dumps, at > 3 PROVE FALSE
          BY <2>2 DEF Dumps
        <5>2. Head(calls) = "dump"
          BY <5>1 DEF Dumps
        <5>3. DumpTurns \in Nat /\ Len(Steps) = DumpTurns + 4
          BY <1>1, <1>2, <5>2, DumpNow
        <5>4. PICK i \in 1..DumpTurns : at = i + 3
          <6>1. at - 3 \in 1..DumpTurns /\ at = (at - 3) + 3
            BY <2>2, <5>1, <5>3
          <6>2. QED
            BY <6>1
        <5>5. step = IF ByteAt(i) < PageBytes THEN read_mem_page(PageAt(i) * PageBytes + ByteAt(i))
                     ELSE [do |-> "write"]
          BY <1>1, <1>2, <5>2, <5>4, DumpNow
        <5>6. QED
          BY <1>2, <3>2, <5>5, ReadMemPage
      <4>3. dumped = <<>>
        <5>1. dumped # <<>> => Dumps
          BY <1>1, <1>2 DEF DumpInv
        <5>2. QED
          BY <1>1, <4>2, <5>1 DEF DumpInv
      <4>4. Dumps' => at' = 3 \/ (at' = 4 /\ Dumps)
        <5>1. SUFFICES ASSUME Dumps', at' # 3 PROVE at' = 4 /\ Dumps
          OBVIOUS
        <5>2. Head(calls) = "dump" /\ at >= 3
          BY <2>2, <2>3, <2>4, <5>1 DEF Dumps
        <5>3. Dumps
          BY <1>2, <5>2 DEF Dumps
        <5>4. QED
          BY <2>3, <4>2, <5>3
      <4>5. at' = 4 => PageAt(at' - 3) = 0 /\ ByteAt(at' - 3) = 0
        <5>1. at' = 4 => at' - 3 = 1
          OBVIOUS
        <5>2. QED
          BY <5>1, TurnFirst
      <4>6. DumpIsFlash' /\ dumped' \in Seq(FlashBytes')
        BY <1>1, <1>2, <4>1, SameFlash DEF DumpIsFlash, DumpInv
      <4>7. Len(dumped') = 0 /\ 0 * PageBytes + 0 = 0
        BY <4>1, <4>3, PageType
      <4>8. Pages * PageBytes \in Nat
        BY PageType
      <4>9. Dumps' /\ at' > 3 => Len(dumped') = PageAt(at' - 3) * PageBytes + ByteAt(at' - 3)
        BY <4>4, <4>5, <4>7
      <4>10. QED
        BY <2>5, <4>1, <4>3, <4>6, <4>7, <4>8, <4>9 DEF DumpInv
    <3>3. QED
      BY <3>1, <3>2
  <2>14. TypeOK'
    BY <1>2, <2>3, <2>4, <2>9, <2>13 DEF TypeOK, AtOK
\* Programming: the image grows by a byte or a page.
  <2>15. step.cmd # "WRITE_PAGE" => (step.cmd # "ERASE_CHIP" => torn' = torn)
    BY <2>1 DEF PastEnd, TypeOK
  <2>16. ASSUME Head(calls) = "program", at >= 3
         PROVE  /\ at' < Len(Steps) => TurnInv(job[3], PageAt(at - 3), ByteAt(at - 3))'
                /\ at' = Len(Steps) =>
                       IF PagesOf(job[3]) <= Pages THEN flash = Image(job[3]) ELSE torn'
    <3>1. PICK n \in Nat : n = job[3]
      BY <1>1, <1>2, <2>16, ProgramNow
    <3>2. TurnsOf(n) \in Nat /\ Len(Steps) = TurnsOf(n) + 4
      BY <1>1, <1>2, <2>16, <3>1, ProgramNow
    <3>3. CASE at = 3
      <4>1. step.cmd = "EXT_ADDR" /\ torn' = torn
        BY <1>1, <1>2, <2>15, <2>16, <3>3, ProgramNow
      <4>2. flash = AllErased /\ buffer = NoBytes
        <5>1. Has(calls, "program") /\ Erases(job)
          BY <1>1, <1>2, <2>16, StepNow DEF JobFine
        <5>2. ~Has(calls, "earse_chip")
          <6>1. calls \in Seq(CallNames) /\ calls # <<>> /\ Ordered(calls)
            BY <1>1, <1>2 DEF CallsInv, Done
          <6>2. QED
            BY <2>16, <6>1, RestOfCalls
        <5>3. ~Programs
          BY <3>3 DEF Programs
        <5>4. QED
          BY <1>1, <5>1, <5>2, <5>3 DEF ImageInv, ErasedIt
      <4>3. at' - 3 = 1 /\ PageAt(at' - 3) = 0 /\ ByteAt(at' - 3) = 0
        BY <2>3, <3>3, TurnFirst
      <4>4. flash = Partial(n, 0) /\ buffer = Loaded(n, 0, 0)
        BY <4>2, NoPages
      <4>5. TurnInv(n, 0, 0)'
        BY <1>2, <2>5, <4>4, PageType DEF TurnInv
      <4>6. ASSUME at' = Len(Steps) PROVE PagesOf(n) <= Pages /\ flash = Image(n)
        <5>1. TurnsOf(n) = 0
          BY <2>3, <3>2, <3>3, <4>6
        <5>2. PagesOf(n) = 0
          BY <5>1, EvenPart, PagesOfFile DEF TurnsOf
        <5>3. Partial(n, PagesOf(n)) = Image(n)
          BY AllPages
        <5>4. QED
          BY <4>4, <5>2, <5>3, PageType
      <4>7. QED
        BY <2>3, <3>1, <4>3, <4>5, <4>6
    <3>4. CASE at # 3
      <4>1. at >= 4 /\ at < Len(Steps)
        BY <2>2, <2>16, <3>4
      <4>2. Programs2
        BY <1>2, <2>16, <4>1 DEF Programs2, Programs
      <4>3. PICK i \in 1..TurnsOf(n) : at = i + 3
        <5>1. at - 3 \in 1..TurnsOf(n) /\ at = (at - 3) + 3
          BY <2>2, <3>2, <4>1
        <5>2. QED
          BY <5>1
      <4>4. PICK q, b, w : q = PageAt(i) /\ b = ByteAt(i) /\ w = 2 * WordsOf(n, q)
        OBVIOUS
      <4>5. /\ q \in Nat /\ q < PagesOf(n) /\ b \in 0..w /\ w \in 0..PageBytes
            /\ b < w => i + 1 \in 1..TurnsOf(n)
            /\ b = w /\ i # TurnsOf(n) => w = PageBytes
            /\ b = w /\ i = TurnsOf(n) => q + 1 = PagesOf(n)
        BY <4>4, ProgramTurn
      <4>6. at - 3 = i /\ at' - 3 = i + 1 /\ (at' < Len(Steps) <=> i # TurnsOf(n))
            /\ (at' = Len(Steps) <=> i = TurnsOf(n))
        BY <2>3, <3>2, <4>3
      <4>7. TurnInv(n, q, b)
        BY <1>1, <3>1, <4>2, <4>4, <4>6 DEF ImageInv
      <4>8. step = IF b < w THEN load_mem_page(n, q, b) ELSE prog_mem_page(q)
        BY <1>1, <1>2, <2>16, <3>1, <4>3, <4>4, ProgramNow
      <4>9. PagesOf(n) \in Nat
        BY PagesOfFile
      <4>10. CASE b < w
        <5>1. step.cmd \in {"PROG_LOW", "PROG_HIGH"}
          BY <4>8, <4>10, LoadMemPage
        <5>2. torn' = torn
          BY <2>15, <5>1
        <5>3. PageAt(i + 1) = q /\ ByteAt(i + 1) = b + 1
          BY <4>4, <4>5, <4>10, TurnNext, PageType
        <5>4. i # TurnsOf(n)
          BY <3>2, <4>5, <4>10
        <5>5. /\ q > Pages => torn'
              /\ q <= Pages => flash' = Partial(n, q)
              /\ buffer' = Loaded(n, q, b + 1)
          BY <1>2, <4>7, <5>1, <5>2 DEF TurnInv
        <5>6. TurnInv(n, q, b + 1)'
          BY <2>5, <5>5 DEF TurnInv
        <5>7. QED
          BY <2>3, <3>1, <4>6, <5>3, <5>4, <5>6
      <4>11. CASE ~ (b < w)
        <5>1. step.cmd = "WRITE_PAGE" /\ step.addr = q * PageBytes
          BY <4>8, <4>11, ProgMemPage
        <5>2. b = w
          BY <4>5, <4>11, PageType
        <5>3. buffer' = NoBytes /\ (q < Pages => flash' = Partial(n, q + 1))
          BY <1>2, <4>7, <5>1 DEF TurnInv
        <5>4. q >= Pages => torn'
          <6>1. SUFFICES ASSUME q >= Pages PROVE torn'
            OBVIOUS
          <6>2. Pages * PageBytes <= q * PageBytes /\ Pages * PageBytes \in Nat /\ q * PageBytes \in Nat
            BY <4>5, <6>1, PageType, Monotone
          <6>3. q * PageBytes \notin Addresses
            BY <6>2 DEF Addresses
          <6>4. QED
            BY <2>1, <5>1, <6>3 DEF PastEnd
        <5>5. CASE i # TurnsOf(n)
          <6>1. PageAt(i + 1) = q + 1 /\ ByteAt(i + 1) = 0
            <7>1. i \in Nat \ {0} /\ ByteAt(i) = PageBytes
              BY <3>2, <4>4, <4>5, <5>2, <5>5
            <7>2. QED
              BY <4>4, <7>1, TurnNext
          <6>2. buffer' = Loaded(n, q + 1, 0)
            BY <5>3, NoPages
          <6>3. q + 1 > Pages => torn'
            BY <4>5, <5>4, PageType
          <6>4. q + 1 <= Pages => flash' = Partial(n, q + 1)
            BY <4>5, <5>3, PageType
          <6>5. TurnInv(n, q + 1, 0)'
            BY <2>5, <6>2, <6>3, <6>4 DEF TurnInv
          <6>6. QED
            BY <2>3, <3>1, <4>6, <5>5, <6>1, <6>5
        <5>6. CASE i = TurnsOf(n)
          <6>1. q + 1 = PagesOf(n)
            BY <4>5, <5>2, <5>6
          <6>2. PagesOf(n) <= Pages => flash = Image(n)
            <7>1. PagesOf(n) <= Pages => q < Pages
              BY <4>5, <6>1, PageType
            <7>2. Partial(n, PagesOf(n)) = Image(n)
              BY AllPages
            <7>3. QED
              BY <1>2, <5>3, <6>1, <7>1, <7>2
          <6>3. ~ (PagesOf(n) <= Pages) => torn'
            BY <4>5, <5>4, <6>1, PageType
          <6>4. QED
            BY <3>1, <4>6, <5>6, <6>2, <6>3
        <5>7. QED
          BY <5>5, <5>6
      <4>12. QED
        BY <4>10, <4>11
    <3>5. QED
      BY <3>3, <3>4
  <2>17. ImageInv'
    <3>1. ~torn' => Whole' \/ Programs'
      <4>1. CASE step.cmd = "ERASE_CHIP"
        <5>1. Head(calls) = "earse_chip" /\ at # 2
          BY <1>1, <1>2, <2>7, <4>1, CommandCall
        <5>2. at = 3
          <6>1. Len(Steps) = 4
            BY <5>1, EraseSteps DEF Steps
          <6>2. QED
            BY <2>2, <5>1, <6>1
        <5>3. flash = AllErased
          BY <1>1, <1>2, <5>1, <5>2 DEF ImageInv
        <5>4. QED
          BY <1>2, <5>3 DEF Whole, AllErased
      <4>2. CASE step.cmd # "ERASE_CHIP"
        <5>1. torn => torn'
          BY <2>1, <4>2
        <5>2. Programs => Programs'
          BY <2>2, <2>3, <2>4 DEF Programs
        <5>3. QED
          BY <1>1, <1>2, <5>1, <5>2, SameFlash DEF ImageInv
      <4>3. QED
        BY <4>1, <4>2
    <3>2. Head(calls') = "earse_chip" /\ (at' = 4 \/ (at' = 3 /\ Ended')) => flash' = AllErased
      <4>1. SUFFICES ASSUME Head(calls) = "earse_chip", at' = 4 PROVE flash = AllErased
        BY <1>2, <2>4, <2>5
      <4>2. at = 3
        BY <2>2, <2>3, <4>1
      <4>3. QED
        BY <1>1, <1>2, <4>1, <4>2 DEF ImageInv
    <3>3. ErasedIt' /\ Has(calls', "program") /\ ~Programs' => flash' = AllErased /\ buffer' = NoBytes
      <4>1. ~Programs' => ~Programs
        BY <2>2, <2>3, <2>4 DEF Programs
      <4>2. QED
        BY <1>1, <1>2, <2>3, <2>6, <4>1 DEF ImageInv
    <3>4. Programs2' => TurnInv(job[3], PageAt(at - 3), ByteAt(at - 3))'
      <4>1. SUFFICES ASSUME Programs2' PROVE TurnInv(job[3], PageAt(at - 3), ByteAt(at - 3))'
        OBVIOUS
      <4>2. Head(calls) = "program" /\ at >= 3 /\ at' < Len(Steps)
        BY <2>2, <2>3, <2>4, <4>1 DEF Programs2, Programs
      <4>3. QED
        BY <2>16, <4>2
    <3>5. ProgrammedIt' => IF PagesOf(job'[3]) <= Pages THEN flash' = Image(job'[3]) ELSE torn'
      <4>1. SUFFICES ASSUME ProgrammedIt' PROVE IF PagesOf(job[3]) <= Pages THEN flash = Image(job[3]) ELSE torn'
        BY <1>2, <2>3
      <4>2. CASE Has(calls, "program")
        <5>1. Programs' /\ at' = Len(Steps)
          BY <2>3, <2>4, <4>1, <4>2 DEF ProgrammedIt
        <5>2. Head(calls) = "program" /\ at >= 3
          BY <2>2, <2>3, <2>4, <5>1 DEF Programs
        <5>3. QED
          BY <2>16, <5>1, <5>2
      <4>3. CASE ~Has(calls, "program")
        <5>1. ProgrammedIt /\ ~Has(calls, "earse_chip")
          BY <1>1, <2>3, <4>1, <4>3 DEF ProgrammedIt, CallsInv
        <5>2. step.cmd \notin {"ERASE_CHIP", "WRITE_PAGE"}
          BY <1>1, <1>2, <4>3, <5>1, CommandCall, StepNow
        <5>3. torn' = torn
          BY <2>15, <5>2
        <5>4. QED
          BY <1>1, <5>1, <5>3 DEF ImageInv
      <4>4. QED
        BY <4>2, <4>3
    <3>6. DOMAIN buffer' = 0..PageBytes-1 /\ DOMAIN flash' = Addresses
      BY <1>1, <1>2 DEF ImageInv
    <3>7. QED
      BY <2>4, <3>1, <3>2, <3>3, <3>4, <3>5, <3>6 DEF ImageInv
  <2>18. QED
    BY <2>4, <2>11, <2>13, <2>14, <2>17 DEF UcIInv
<1>5. QED
  BY <1>3, <1>4

\* A page of a dump is written, or the loop is left.
LEMMA WriteDumpKeeps ==
    ASSUME TypeOK, UcIInv, WriteDump
    PROVE  TypeOK' /\ UcIInv'
<1>1. CallsInv /\ SessionInv /\ ImageInv /\ DumpInv
  BY DEF UcIInv
<1>2. /\ ~Done /\ step.do = "write" /\ UNCHANGED <<resetN, spi, progMode, buffer, flash, dumped, torn>>
  BY DEF WriteDump, Doing, uc
<1>3. phase = "send"
  BY <1>1, <1>2 DEF CallsInv, Doing
<1>4. Head(calls) = "dump" /\ at >= 3 /\ at < Len(Steps) /\ at \in Nat /\ Len(Steps) \in Nat
  BY <1>1, <1>2, StepDoes, StepNow
<1>5. /\ UNCHANGED <<job, calls, timeout>> /\ phase' = "send"
      /\ at' = at + 1 \/ at' = Len(Steps)
  BY <1>3, <1>4, PastIs DEF WriteDump
<1>6. ~Done' /\ Steps' = Steps
  BY <1>2, <1>5 DEF Done, Steps
<1>7. at' \in 1..Len(Steps) /\ at' >= 4
  BY <1>4, <1>5
<1>8. AtOK'
  BY <1>6, <1>7 DEF AtOK
<1>9. CallsInv'
  <2>1. job' = job /\ calls' = calls /\ phase' = "send"
    BY <1>5
  <2>2. ~Done /\ ~Done'
    BY <1>2, <1>6
  <2>3. QED
    BY <1>1, <2>1, <2>2 DEF CallsInv
<1>10. TypeOK'
  BY <1>2, <1>5, <1>8 DEF TypeOK, AtOK
<1>11. InBody /\ ~Programs /\ ~Programs' /\ ~Programs2' /\ ~Ended'
  BY <1>2, <1>4, <1>5 DEF InBody, Programs, Programs2, Ended, Sessions
<1>12. (ErasedIt' <=> ErasedIt) /\ (ProgrammedIt' <=> ProgrammedIt)
  BY <1>5, <1>11 DEF ErasedIt, ProgrammedIt
<1>13. ~spi.busy
  BY <1>1, <1>3, <1>11 DEF SessionInv, Synced
<1>14. SessionInv'
  BY <1>1, <1>2, <1>4, <1>5, <1>6, <1>11, <1>13 DEF SessionInv
<1>15. ImageInv'
  BY <1>1, <1>2, <1>4, <1>5, <1>11, <1>12, SameFlash DEF ImageInv
<1>16. DumpInv'
  <2>1. DumpIsFlash' /\ dumped' \in Seq(FlashBytes') /\ Dumps'
    BY <1>1, <1>2, <1>4, <1>5, <1>6, <1>7, SameFlash DEF DumpIsFlash, DumpInv, Dumps
  <2>2. ASSUME at' < Len(Steps)
        PROVE  Len(dumped) = PageAt(at' - 3) * PageBytes + ByteAt(at' - 3)
    <3>1. at' = at + 1
      BY <1>5, <2>2
    <3>2. /\ DumpTurns \in Nat /\ Len(Steps) = DumpTurns + 4
          /\ at = 3 => step.do = "command"
      BY <1>1, <1>2, <1>4, DumpNow
    <3>3. at > 3
      BY <1>2, <1>4, <3>2
    <3>4. PICK i \in 1..DumpTurns : at = i + 3
      <4>1. at - 3 \in 1..DumpTurns /\ at = (at - 3) + 3
        BY <1>4, <3>2, <3>3
      <4>2. QED
        BY <4>1
    <3>5. step = IF ByteAt(i) < PageBytes THEN read_mem_page(PageAt(i) * PageBytes + ByteAt(i))
                 ELSE [do |-> "write"]
      BY <1>1, <1>2, <1>4, <3>4, DumpNow
    <3>6. PICK q \in Nat, b \in 0..PageBytes : q = PageAt(i) /\ b = ByteAt(i)
      BY <3>2, TurnAt
    <3>7. b = PageBytes
      <4>1. ~ (b < PageBytes)
        BY <1>2, <3>5, <3>6, ReadMemPage
      <4>2. QED
        BY <3>6, <4>1, PageType
    <3>8. at - 3 = i /\ at' - 3 = i + 1
      BY <3>1, <3>4
    <3>9. Len(dumped) = q * PageBytes + b
      <4>1. Dumps
        BY <1>2, <1>4 DEF Dumps
      <4>2. QED
        BY <1>1, <1>4, <3>3, <3>6, <3>8, <4>1 DEF DumpInv
    <3>10. PageAt(i + 1) = q + 1 /\ ByteAt(i + 1) = 0
      <4>1. i \in Nat \ {0}
        BY <3>2
      <4>2. QED
        BY <3>6, <3>7, <4>1, TurnNext
    <3>11. (q + 1) * PageBytes = q * PageBytes + PageBytes /\ q * PageBytes \in Nat
      BY NextMultiple, PageType
    <3>12. (q + 1) * PageBytes + 0 = q * PageBytes + b
      BY <3>7, <3>11, PageType
    <3>13. QED
      BY <3>8, <3>9, <3>10, <3>12
  <2>3. at' # 3
    BY <1>7
  <2>4. QED
    BY <1>2, <1>6, <1>11, <2>1, <2>2, <2>3 DEF DumpInv
<1>17. QED
  BY <1>9, <1>10, <1>14, <1>15, <1>16 DEF UcIInv

-----------------------------------------------------------------------------
(* Theorems.                                                                *)

\* Every step keeps the invariant, and starts the microcontroller on a whole image only.
LEMMA StepKeeps ==
    TypeOK /\ UcIInv /\ [Next]_vars =>
        TypeOK' /\ UcIInv' /\ (resetN' /\ ~resetN => Whole \/ torn)
<1>1. SUFFICES ASSUME TypeOK, UcIInv, [Next]_vars
               PROVE  TypeOK' /\ UcIInv' /\ (resetN' /\ ~resetN => Whole \/ torn)
  OBVIOUS
<1>2. CASE UNCHANGED vars
  <2>1. UNCHANGED <<resetN, spi, progMode, buffer, flash, job, calls, at, phase, timeout, dumped, torn>>
    BY <1>2 DEF vars, uc, local
  <2>2. (Synced' <=> Synced) /\ (Ended' <=> Ended)
    BY <2>1, SameStep DEF Synced, Ended
  <2>3. TypeOK'
    BY <1>1, <2>1, SameStep DEF TypeOK
  <2>4. CallsInv'
    BY <1>1, <2>1, SameStep DEF UcIInv, CallsInv
  <2>5. SessionInv'
    BY <1>1, <2>1, <2>2, SameStep DEF UcIInv, SessionInv
  <2>6. ImageInv'
    <3>1. TurnInv(job[3], PageAt(at - 3), ByteAt(at - 3))' <=> TurnInv(job[3], PageAt(at - 3), ByteAt(at - 3))
      BY <2>1, <2>2, SameStep DEF TurnInv
    <3>2. QED
      BY <1>1, <2>1, <2>2, <3>1, SameStep, SameFlash DEF UcIInv, ImageInv
  <2>7. DumpInv'
    BY <1>1, <2>1, <2>2, SameStep, SameFlash DEF UcIInv, DumpInv, DumpIsFlash
  <2>8. resetN' = resetN
    BY <2>1
  <2>9. QED
    BY <2>3, <2>4, <2>5, <2>6, <2>7, <2>8 DEF UcIInv
<1>3. CASE SpiEnds
  <2>1. TypeOK' /\ UcIInv'
    BY <1>1, <1>3, SpiEndsKeeps
  <2>2. resetN' = resetN
    BY <1>3 DEF SpiEnds
  <2>3. QED
    BY <2>1, <2>2
<1>4. CASE \E j \in JobNames : Begin(j)
  <2>1. PICK j \in JobNames : Begin(j)
    BY <1>4
  <2>2. TypeOK' /\ UcIInv'
    BY <1>1, <2>1, BeginKeeps
  <2>3. resetN' = resetN
    BY <2>1 DEF Begin
  <2>4. QED
    BY <2>2, <2>3
<1>5. CASE ConfigureSpi
  <2>1. TypeOK' /\ UcIInv'
    BY <1>1, <1>5, ConfigureSpiKeeps
  <2>2. ~resetN'
    BY <1>5 DEF ConfigureSpi, Reset
  <2>3. QED
    BY <2>1, <2>2
<1>6. CASE SetReset
  BY <1>1, <1>6, SetResetKeeps
<1>7. CASE SendCommand
  <2>1. TypeOK' /\ UcIInv'
    BY <1>1, <1>7, SendCommandKeeps
  <2>2. resetN' = resetN
    BY <1>7 DEF SendCommand
  <2>3. QED
    BY <2>1, <2>2
<1>8. CASE Poll
  <2>1. TypeOK' /\ UcIInv'
    BY <1>1, <1>8, PollKeeps
  <2>2. resetN' = resetN
    BY <1>8 DEF Poll
  <2>3. QED
    BY <2>1, <2>2
<1>9. CASE Answered
  <2>1. TypeOK' /\ UcIInv'
    BY <1>1, <1>9, AnsweredKeeps
  <2>2. resetN' = resetN
    BY <1>9 DEF Answered
  <2>3. QED
    BY <2>1, <2>2
<1>10. CASE WriteDump
  <2>1. TypeOK' /\ UcIInv'
    BY <1>1, <1>10, WriteDumpKeeps
  <2>2. resetN' = resetN
    BY <1>10 DEF WriteDump
  <2>3. QED
    BY <2>1, <2>2
<1>11. CASE Abort
  <2>1. TypeOK' /\ UcIInv'
    BY <1>1, <1>11, AbortKeeps
  <2>2. resetN' = resetN
    BY <1>11 DEF Abort
  <2>3. QED
    BY <2>1, <2>2
<1>12. CASE Kill
  <2>1. TypeOK' /\ UcIInv'
    BY <1>1, <1>12, KillKeeps
  <2>2. resetN' = resetN
    BY <1>12 DEF Kill
  <2>3. QED
    BY <2>1, <2>2
<1>13. QED
  BY <1>1, <1>2, <1>3, <1>4, <1>5, <1>6, <1>7, <1>8, <1>9, <1>10, <1>11, <1>12 DEF Next, Step

\* A job's steps stay in range, and whatever a job, the end of one or a late
\* command does, what the flash and the page buffer hold follows from the step
\* that the job is at (microcontroller.cpp:84-326, ucctrl.cpp:64-369).
THEOREM UcInvariant == Spec => [](TypeOK /\ UcIInv)
<1>1. Init => TypeOK /\ UcIInv
  BY InitIs
<1>2. TypeOK /\ UcIInv /\ [Next]_vars => (TypeOK /\ UcIInv)'
  BY StepKeeps
<1>3. QED
  BY <1>1, <1>2, PTL DEF Spec

\* A dump is what the flash holds, and a job that ends as intended leaves the
\* microcontroller running, on the file that it was to program.
THEOREM UcCorrect == Spec => []UcInv
<1>1. TypeOK /\ UcIInv => UcInv
  <2>1. SUFFICES ASSUME TypeOK, UcIInv PROVE UcInv
    OBVIOUS
  <2>2. CallsInv /\ SessionInv /\ ImageInv /\ DumpInv
    BY <2>1 DEF UcIInv
  <2>3. ASSUME Done, Len(Calls(job)) > 1 PROVE resetN /\ ~progMode
    BY <2>1, <2>2, <2>3 DEF SessionInv, TypeOK
  <2>4. ASSUME Done, Has(Calls(job), "program"), Fits(job) PROVE flash = Image(job[3])
    <3>1. ProgrammedIt
      BY <2>4 DEF ProgrammedIt, Done, Has
    <3>2. job \in JobNames
      BY <2>1, <2>4, NothingCalls DEF TypeOK
    <3>3. PICK n \in Nat : n = job[3]
      BY <2>4, <3>2, JobCalls, UcAssumption DEF JobFine
    <3>4. PagesOf(n) <= Pages
      <4>1. SUFFICES ASSUME Pages < PagesOf(n) PROVE FALSE
        BY PagesOfFile, PageType
      <4>2. Pages * PageBytes \in Nat /\ Pages * PageBytes < n
        BY <4>1, PagesOfFile, PageType
      <4>3. n <= Pages * PageBytes
        BY <2>4, <3>3 DEF Fits
      <4>4. QED
        BY <4>2, <4>3
    <3>5. QED
      BY <2>2, <3>1, <3>3, <3>4 DEF ImageInv
  <2>5. RunsAfterwards
    BY <2>3, <2>4 DEF RunsAfterwards
  <2>6. QED
    BY <2>1, <2>2, <2>5 DEF UcInv, DumpInv
<1>2. QED
  BY <1>1, UcInvariant, PTL

\* The microcontroller is started on a whole image, old, new or erased: programming
\* holds it in reset from the first page to the last (microcontroller.cpp:286-322).
THEOREM StartsWhole == Spec => StartsOnWholeImage
<1>1. TypeOK /\ UcIInv /\ [Next]_vars => [resetN' /\ ~resetN => Whole \/ torn]_vars
  BY StepKeeps
<1>2. QED
  BY <1>1, UcInvariant, PTL DEF Spec, StartsOnWholeImage
=============================================================================
