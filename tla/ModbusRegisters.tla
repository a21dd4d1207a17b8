-------------------------- MODULE ModbusRegisters --------------------------
(***************************************************************************)
(* The registers of one Modbus device (src/modbus_common, the drivers      *)
(* modbus and modbus_io): ranges that are read in one request, holes and   *)
(* registers that the device does not have, the cache of holding registers *)
(* from which "partial" registers (some bits of a word) are completed, and *)
(* the setup section with its packets.                                     *)
(***************************************************************************)
EXTENDS Integers, Sequences, FiniteSets, FiniteSetsExt

CONSTANTS
  Configs,      \* devices and their configurations
  Addresses,    \* the addresses that requests may name
  MaxRead,      \* MaxReadRegisters
  MaxWrite,     \* MaxWriteRegisters
  MaxHole       \* MaxRegHole

\* A register: its first word, its width in words, and which part of the word it has:
\* the low bits, the high bits, or all of each word. IsPartial is part # "all".
Register == [addr : Nat, width : Nat \ {0}, part : {"all", "lo", "hi"}]

\* A setup item has a value too; the words of one item get the same value.
Item == [reg : Register, value : {0, 1}]

\* What a device has and what is configured of it.
Config == [
  shift : Nat,                     \* TModbusIODevice::Shift, or 0 without it
  supported : SUBSET Addresses,    \* the addresses that the device has
  hears : BOOLEAN,                 \* it has the continuous_read register
  setup : Seq(Item),               \* the setup section, in the order of TDeviceSetupItems
  polled : SUBSET Register,        \* the registers of its channels
  written : SUBSET Register,       \* registers of channels that are written
  changing : SUBSET Addresses]     \* words that the device changes by itself

ASSUME ModbusAssumption ==
  /\ Addresses \subseteq Nat /\ IsFiniteSet(Addresses)
  /\ Configs \subseteq Config
  /\ \A c \in Configs :
       \A r \in c.polled \union c.written \union {c.setup[i].reg : i \in DOMAIN c.setup} :
         r.part # "all" => r.width = 1
  /\ \A c \in Configs : \A r \in c.polled : \A w \in r.addr .. r.addr + r.width - 1 :
       w + c.shift \in Addresses
  /\ {MaxRead, MaxWrite} \subseteq Nat \ {0} /\ MaxHole \in Nat

Word == [lo : {0, 1}, hi : {0, 1}]
Zero == [lo |-> 0, hi |-> 0]

VARIABLES
  config,     \* the device
  mem,        \* its registers
  continuous, \* continuous reading is on
  \* the driver
  conn,       \* ConnectionState
  pc,         \* in no session, filling the cache, writing the setup, in a session
  next,       \* the setup item that comes next
  believed,   \* ContinuousReadEnabled
  holes,      \* SupportsHoles
  avail,      \* availability of the registers of the channels
  cache,      \* ModbusCache: what is known, as a partial function
  \* history
  refused,    \* setup items of a packet that the device refused
  skipped,    \* setup items that WriteMultipleSetupRegisters leaves out
  unseen,     \* cached words that have changed without the driver having noted it
  forgot,     \* the device restarted, which switches continuous reading off, and is connected
  blamed,     \* registers marked unavailable since then
  damaged     \* parts of known words that were changed by a write of another part

stateVars == <<conn, pc, next, believed, holes, avail>>
vars == <<config, mem, continuous, stateVars, cache, refused, skipped, unseen, forgot, blamed, damaged>>

shift == config.shift
supported == config.supported
setup == config.setup
Polled == config.polled

Words(r) == r.addr .. r.addr + r.width - 1
Partial(r) == r.part # "all"

Init ==
  /\ config \in Configs
  /\ mem = [a \in Addresses |-> Zero]
  /\ continuous = FALSE
  /\ conn = "UNKNOWN"
  /\ pc = "idle"
  /\ next = 1
  /\ believed = FALSE
  /\ holes = TRUE
  /\ avail = [r \in Polled |-> "UNKNOWN"]
  /\ cache = <<>>
  /\ refused = {} /\ skipped = {} /\ unseen = {} /\ forgot = FALSE /\ blamed = {} /\ damaged = {}

-----------------------------------------------------------------------------
(* Requests *)

\* A request is lost, its answer is lost, or the device answers, with an exception when it
\* does not have all the words.
Outcomes(words, has) ==
  {"lost"} \union (IF words \subseteq has THEN {"ok", "unanswered"} ELSE {"refused"})

Reached(outcome) == outcome \in {"ok", "unanswered"}

\* SetTransferResult(false); how often it takes to disconnect is left open. SetDisconnected
\* allows holes again, and the poller includes the registers that are unavailable.
FailsWith(supportsHoles, av, bl) ==
  \/ /\ holes' = supportsHoles /\ avail' = av /\ blamed' = bl
     /\ UNCHANGED conn
  \/ /\ conn # "DISCONNECTED"
     /\ conn' = "DISCONNECTED"
     /\ holes' = TRUE
     /\ avail' = [r \in Polled |-> IF av[r] = "UNAVAILABLE" THEN "UNKNOWN" ELSE av[r]]
     /\ blamed' = {}

Fails(supportsHoles) == FailsWith(supportsHoles, avail, blamed)

PrepareFails(supportsHoles) ==
  /\ Fails(supportsHoles)
  /\ pc' = "idle"
  /\ next' = 1

-----------------------------------------------------------------------------
(* Ranges *)

\* Registers are offered to a range in the order of their numbers; the range is the set of the
\* numbers that it takes.
Before(R, n) == {m \in R : m < n}
Ends(regs, R) == {regs[n].addr + regs[n].width : n \in R}

\* Mutant: registers that are not known yet are read together.
MutantReadTogether(last, r, av) == TRUE

\* Registers are read one by one until they are known, unless reading is continuous.
MayShare(last, r, av) ==
  believed \/ (av[last] # "UNKNOWN" /\ av[r] # "UNKNOWN")

\* TModbusRegisterRange::Add: the register comes after the first one and not too far behind
\* the end, and the answer does not get too long.
Near(regs, R, r, av) ==
  /\ regs[Min(R)].addr <= r.addr
  /\ r.addr <= Max(Ends(regs, R)) + (IF holes THEN MaxHole ELSE 0)
  /\ MayShare(regs[Max(R)], r, av)

Fits(regs, R, r, av) ==
  /\ Near(regs, R, r, av)
  /\ Max({Max(Ends(regs, R)), r.addr + r.width}) - regs[Min(R)].addr <= MaxRead

\* The ones that are unavailable count as added.
Offered(regs, av) == {n \in DOMAIN regs : av[regs[n]] # "UNAVAILABLE"}

\* TPollableDevice::ReadRegisterRange adds registers until one is refused.
Together(regs, av) ==
  LET offered == Offered(regs, av)
  IN {n \in offered :
        \A m \in offered :
          m <= n /\ m # Min(offered) => Fits(regs, Before(offered, m), regs[m], av)}

\* The time limit of a poll may end it before.
Ranges(regs, av) ==
  {{n \in Together(regs, av) : n <= last} : last \in Together(regs, av)}

Covered(regs, R) == regs[Min(R)].addr .. Max(Ends(regs, R)) - 1

WordsOf(regs, R) == UNION {Words(regs[n]) : n \in R}

\* HasHolesFlg: a register begins behind the end of those before it, one of the range or the
\* one that was refused because of the length or the time.
HasHoles(regs, R, av) ==
  \E n \in Offered(regs, av) :
    LET before == Before(Offered(regs, av), n)
    IN /\ before # {} /\ before \subseteq R
       /\ Near(regs, before, regs[n], av)
       /\ regs[n].addr > Max(Ends(regs, before))

\* The cache with some words that are known now.
With(words) ==
  [w \in DOMAIN words \union DOMAIN cache |-> IF w \in DOMAIN words THEN words[w] ELSE cache[w]]

\* What ParseReadResponse keeps: the words of the registers, not those of the holes. The
\* device was read at addresses that are shifted by s.
Learn(words, s) ==
  /\ cache' = With([w \in words |-> mem[w + s]])
  /\ unseen' = (unseen \ words) \union (IF s = shift THEN {} ELSE words)

-----------------------------------------------------------------------------
(* The preparation of a session *)

\* The driver asks for continuous reading when the device is not connected; modbus_io does
\* not use it for its ranges.
PrepareImpl ==
  /\ pc = "idle" /\ conn # "CONNECTED"
  /\ \/ /\ continuous' = (continuous \/ config.hears)
        /\ believed' = (config.hears /\ shift = 0)
        /\ forgot' = FALSE
        /\ pc' = "fill" /\ next' = 1
        /\ UNCHANGED <<conn, holes, avail, blamed>>
     \/ /\ continuous' \in {continuous, continuous \/ config.hears}
        /\ PrepareFails(holes)
        /\ UNCHANGED <<believed, forgot>>
  /\ refused' = {} /\ skipped' = {}
  /\ UNCHANGED <<config, mem, cache, unseen, damaged>>

\* A device that something else has found before is not set up.
PrepareConnected ==
  /\ pc = "idle" /\ conn = "CONNECTED"
  /\ pc' = "ready"
  /\ UNCHANGED <<config, mem, continuous, conn, next, believed, holes, avail, cache, refused,
                 skipped, unseen, forgot, blamed, damaged>>

\* The items from the next one on whose words are not all in the cache.
Uncached ==
  {i \in next..Len(setup) :
     Partial(setup[i].reg) /\ ~(Words(setup[i].reg) \subseteq DOMAIN cache)}

FillList == [i \in Uncached |-> setup[i].reg]

FillAvail == [r \in {setup[i].reg : i \in Uncached} |-> "AVAILABLE"]
FillRange == Together(FillList, FillAvail)

\* FillSetupRegistersCache. Its call of ReadRegisterRange gives the shift in place of
\* breakOnError: words are read at their own addresses, whatever the shift.
FillSetupRegistersCache ==
  /\ pc = "fill" /\ Uncached # {}
  /\ \E outcome \in Outcomes(Covered(FillList, FillRange),
                             IF continuous THEN Addresses ELSE supported) :
       CASE outcome = "ok" ->
              /\ Learn(WordsOf(FillList, FillRange), 0)
              /\ conn' = "CONNECTED"
              /\ next' = Max(FillRange) + 1
              /\ UNCHANGED <<pc, holes, avail, blamed>>
         [] outcome = "refused" ->
              /\ PrepareFails(holes /\ ~HasHoles(FillList, FillRange, FillAvail))
              /\ UNCHANGED <<cache, unseen>>
         [] OTHER ->
              /\ PrepareFails(holes)
              /\ UNCHANGED <<cache, unseen>>
  /\ UNCHANGED <<config, mem, continuous, believed, refused, skipped, forgot, damaged>>

FillEnds ==
  /\ pc = "fill" /\ Uncached = {}
  /\ pc' = "write" /\ next' = 1
  /\ UNCHANGED <<config, mem, continuous, conn, believed, holes, avail, cache, refused, skipped,
                 unseen, forgot, blamed, damaged>>

-----------------------------------------------------------------------------
(* Writing *)

\* The word w with the value of register r in it. What is not written comes from the cache,
\* or is zero.
Composed(r, v, w) ==
  LET old == IF w \in DOMAIN cache THEN cache[w] ELSE Zero
  IN CASE r.part = "lo" -> [old EXCEPT !.lo = v]
       [] r.part = "hi" -> [old EXCEPT !.hi = v]
       [] r.part = "all" -> [lo |-> v, hi |-> v]

\* Words are written at their shifted addresses, when the request reaches the device.
Stored(words, outcome) ==
  mem' = [a \in Addresses |->
            IF a - shift \in DOMAIN words /\ Reached(outcome) THEN words[a - shift] ELSE mem[a]]

Shifted(words) == {w + shift : w \in words}

\* Mutant: what was written is not kept.
MutantNotKept(words, kept, outcome) ==
  /\ cache' = cache
  /\ unseen' = IF outcome = "ok" THEN unseen \ DOMAIN words
               ELSE unseen \union (IF Reached(outcome) THEN DOMAIN words ELSE {})

\* tmpCache goes into the cache after an answer, if the request was composed with it.
Keep(words, kept, outcome) ==
  IF kept /\ outcome = "ok"
  THEN cache' = With(words) /\ unseen' = unseen \ DOMAIN words
  ELSE cache' = cache /\ unseen' = unseen \union (IF Reached(outcome) THEN DOMAIN words ELSE {})

\* The words of registers that are not meant by a write of part are watched.
Write(words, part, kept, outcome) ==
  /\ outcome \in Outcomes(Shifted(DOMAIN words), supported)
  /\ Stored(words, outcome)
  /\ Keep(words, kept, outcome)
  /\ damaged' = damaged \union
       {d \in ((DOMAIN words \intersect DOMAIN cache) \ unseen) \X {"lo", "hi"} :
          part \notin {d[2], "all"} /\ mem'[d[1] + shift][d[2]] # mem[d[1] + shift][d[2]]}

\* The packet of WriteMultipleSetupRegisters that starts with the next item: items of whole
\* words that follow each other, as long as they fit.
Joins(i) ==
  LET r == setup[i].reg
      last == setup[i - 1].reg
  IN /\ r.addr = last.addr + last.width
     /\ r.addr + r.width - setup[next].reg.addr <= MaxWrite

PacketEnd ==
  Min({i \in next + 1 .. Len(setup) + 1 :
         i = Len(setup) + 1 \/ Partial(setup[i].reg) \/ ~Joins(i)})

PacketWords ==
  [w \in UNION {Words(setup[i].reg) : i \in next .. PacketEnd - 1} |->
     LET i == CHOOSE j \in next .. PacketEnd - 1 : w \in Words(setup[j].reg)
     IN Composed(setup[i].reg, setup[i].value, w)]

\* Mutant: an item without an answer is only logged too.
MutantAllLogged(items, outcome) ==
  /\ next' = Max(items) + 1
  /\ refused' = refused \union (IF outcome = "refused" THEN items ELSE {})
  /\ UNCHANGED <<conn, pc, holes, avail, blamed>>

\* Setup items with a permanent exception are only logged; without an answer Prepare fails.
AfterItems(items, outcome) ==
  IF outcome \in {"ok", "refused"}
  THEN /\ next' = Max(items) + 1
       /\ refused' = refused \union (IF outcome = "refused" THEN items ELSE {})
       /\ UNCHANGED <<conn, pc, holes, avail, blamed>>
  ELSE /\ PrepareFails(holes)
       /\ UNCHANGED refused

Packets == next <= Len(setup) /\ ~Partial(setup[next].reg) /\ MaxWrite > 1

\* WriteMultipleSetupRegisters comes to a partial item: it returns that item, and what it
\* has collected is never sent.
SkipPacket ==
  /\ pc = "write" /\ Packets
  /\ PacketEnd <= Len(setup) /\ Partial(setup[PacketEnd].reg)
  /\ next' = PacketEnd
  /\ skipped' = skipped \union (next .. PacketEnd - 1)
  /\ UNCHANGED <<config, mem, continuous, conn, pc, believed, holes, avail, cache, refused,
                 unseen, forgot, blamed, damaged>>

WriteMultipleSetupRegisters ==
  /\ pc = "write" /\ Packets
  /\ ~(PacketEnd <= Len(setup) /\ Partial(setup[PacketEnd].reg))
  /\ \E outcome \in {"ok", "refused", "lost", "unanswered"} :
       /\ Write(PacketWords, "all", TRUE, outcome)
       /\ AfterItems(next .. PacketEnd - 1, outcome)
  /\ UNCHANGED <<config, continuous, believed, skipped, forgot>>

\* WriteRegister: a register of several words is written with the cache, one whole word
\* without it.
RegisterWords(r, v) == [w \in Words(r) |-> Composed(r, v, w)]
Noted(r) == Partial(r) \/ r.width > 1

WriteSetupRegister ==
  /\ pc = "write" /\ next <= Len(setup) /\ ~Packets
  /\ LET item == setup[next] IN
       \E outcome \in {"ok", "refused", "lost", "unanswered"} :
         /\ Write(RegisterWords(item.reg, item.value), item.reg.part, Noted(item.reg), outcome)
         /\ AfterItems({next}, outcome)
  /\ UNCHANGED <<config, continuous, believed, skipped, forgot>>

SetupEnds ==
  /\ pc = "write" /\ next = Len(setup) + 1
  /\ pc' = "ready" /\ next' = 1
  /\ conn' = IF setup = <<>> THEN conn ELSE "CONNECTED"
  /\ UNCHANGED <<config, mem, continuous, believed, holes, avail, cache, refused, skipped,
                 unseen, forgot, blamed, damaged>>

-----------------------------------------------------------------------------
(* A session *)

WriteChannel(r, v) ==
  /\ pc = "ready"
  /\ \E outcome \in {"ok", "refused", "lost", "unanswered"} :
       /\ Write(RegisterWords(r, v), r.part, Noted(r), outcome)
       /\ IF outcome \in {"ok", "refused"}
          THEN conn' = "CONNECTED" /\ UNCHANGED <<pc, holes, avail, blamed>>
          ELSE Fails(holes) /\ pc' = IF conn' = "DISCONNECTED" THEN "idle" ELSE "ready"
  /\ UNCHANGED <<config, continuous, next, believed, refused, skipped, forgot>>

Marked(read, a) == [r \in Polled |-> IF r \in read THEN a ELSE avail[r]]

\* The orders in which registers come from the queue of the poller.
Queues == UNION {Injection(1..n, Polled) : n \in 1..Cardinality(Polled)}

\* One poll of some registers of queue. After an exception holes are not read any more, or if
\* there were none all registers are unavailable.
ReadRegisterRange(queue, range) ==
  LET read == {queue[n] : n \in range} IN
  /\ pc = "ready"
  /\ \E outcome \in Outcomes(Shifted(Covered(queue, range)), IF continuous THEN Addresses ELSE supported) :
       \/ /\ outcome = "ok"
          /\ conn' = "CONNECTED"
          /\ avail' = Marked(read, "AVAILABLE")
          /\ Learn(WordsOf(queue, range), shift)
          /\ UNCHANGED <<pc, holes, blamed>>
       \/ /\ outcome # "ok"
          /\ IF outcome = "refused" /\ ~HasHoles(queue, range, avail)
             THEN FailsWith(holes, Marked(read, "UNAVAILABLE"),
                            blamed \union (IF forgot THEN read ELSE {}))
             ELSE Fails(holes /\ outcome # "refused")
          /\ pc' = IF conn' = "DISCONNECTED" THEN "idle" ELSE "ready"
          /\ UNCHANGED <<cache, unseen>>
  /\ UNCHANGED <<config, mem, continuous, next, believed, refused, skipped, forgot, damaged>>

EndSession ==
  /\ pc = "ready"
  /\ pc' = "idle"
  /\ UNCHANGED <<config, mem, continuous, conn, next, believed, holes, avail, cache, refused,
                 skipped, unseen, forgot, blamed, damaged>>

-----------------------------------------------------------------------------
(* The device *)

\* It changes a bit by itself, or somebody else does, outside of a preparation.
DeviceChanges(a, part) ==
  /\ pc \in {"idle", "ready"}
  /\ mem' = [mem EXCEPT ![a][part] = 1 - @]
  /\ unseen' = unseen \union ({a - shift} \intersect DOMAIN cache)
  /\ UNCHANGED <<config, continuous, stateVars, cache, refused, skipped, forgot, blamed, damaged>>

\* A restart switches continuous reading off.
DeviceRestarts ==
  /\ pc \in {"idle", "ready"}
  /\ continuous
  /\ continuous' = FALSE
  /\ forgot' = TRUE
  /\ UNCHANGED <<config, mem, stateVars, cache, refused, skipped, unseen, blamed, damaged>>

-----------------------------------------------------------------------------
Preparation ==
  \/ PrepareImpl \/ PrepareConnected \/ FillSetupRegistersCache \/ FillEnds
  \/ SkipPacket \/ WriteMultipleSetupRegisters \/ WriteSetupRegister \/ SetupEnds

Session ==
  \/ \E r \in config.written, v \in {0, 1} : WriteChannel(r, v)
  \/ \E queue \in Queues : \E range \in Ranges(queue, avail) : ReadRegisterRange(queue, range)
  \/ EndSession

Next ==
  \/ Preparation \/ Session
  \/ \E a \in config.changing, part \in {"lo", "hi"} : DeviceChanges(a, part)
  \/ DeviceRestarts

Spec == Init /\ [][Next]_vars

-----------------------------------------------------------------------------
(* Properties *)

TypeOK ==
  /\ config \in Configs
  /\ mem \in [Addresses -> Word]
  /\ {continuous, believed, holes, forgot} \subseteq BOOLEAN
  /\ conn \in {"UNKNOWN", "CONNECTED", "DISCONNECTED"}
  /\ pc \in {"idle", "fill", "write", "ready"}
  /\ next \in 1 .. Len(setup) + 1
  /\ avail \in [Polled -> {"UNKNOWN", "AVAILABLE", "UNAVAILABLE"}]
  /\ DOMAIN cache \subseteq Nat /\ Range(cache) \subseteq Word
  /\ refused \union skipped \subseteq DOMAIN setup
  /\ unseen \subseteq Nat
  /\ blamed \subseteq Polled

\* A write of some bits of a word does not change its other bits, if the word was read and
\* nothing happened to it since that the cache was not told of: a change by the device, a
\* write without an answer, a write of the whole word, a setup read at the wrong address.
NeighboursKept == damaged = {}

\* Other items are for other words, or for other bits than those of a partial register.
Alone(i) ==
  LET r == setup[i].reg IN
  \A j \in DOMAIN setup \ {i} :
    LET other == setup[j].reg IN
    \/ Words(r) \intersect Words(other) = {}
    \/ Partial(r) /\ Partial(other) /\ r.part # other.part

\* What a setup section has written stays as it is until its end, if no other item is for the
\* same bits; an item is left out only with a packet that the device has refused, or that a
\* partial item follows.
SetupApplied ==
  pc = "write" =>
    \A i \in (1 .. next - 1) \ (refused \union skipped) :
      Alone(i) =>
        \A w \in Words(setup[i].reg) :
          LET word == mem[w + shift] IN
          /\ setup[i].reg.part # "hi" => word.lo = setup[i].value
          /\ setup[i].reg.part # "lo" => word.hi = setup[i].value

\* A register is not taken for unavailable because of holes or of its neighbours: the device
\* does not have it, or has restarted without anybody having noticed.
SupportedAvailable ==
  \A r \in Polled \ blamed :
    avail[r] = "UNAVAILABLE" => ~({w + shift : w \in Words(r)} \subseteq supported)

\* README: the setup section is written. An item that is not refused is written.
SetupWritten == skipped = {}

=============================================================================
