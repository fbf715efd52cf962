---------------------------- MODULE DeviceProofs ----------------------------
(* Proofs about the devices the kernel waits for: the sound card and the     *)
(* speaker, for any timer, delays, tones, sounds and number of buffers, and  *)
(* the clock, for any length of a day and any int.                           *)
EXTENDS Sound, Rtc, SequenceTheorems, TLAPS

----------------------------------------------------------------------------
(* Sound.  The invariant about the DSP and the DMA controller looks ahead:   *)
(* what is left of a call's output leads them, item by item, to a state that *)
(* fits the driver's variables, and a call's output is composed of commands  *)
(* that each do.                                                             *)
Byte == 0 .. 255
Channels == [open : BOOLEAN, memory : Sounds \cup {NoMemory}]
Dsps == [command : Byte, left : 0 .. 2, speaker : BOOLEAN, mode : Byte]
Drivers == [inserted : BOOLEAN, initialized : BOOLEAN, playing : BOOLEAN, speaker_on : BOOLEAN,
            beep_buffer : BOOLEAN, buffers : Nat]

\* What a call sends: no poll, which only a sleep puts at the head.
Orders ==
    [port : {"dsp"}, byte : Byte] \cup {MaskDma, ResetPort} \cup {UnmaskDma(sound) : sound \in Sounds}
    \cup [port : {"timer"}, ms : Nat \ {0}]
Polls == [port : {"poll"}, ms : Nat \ {0}, ticks : Nat]
Items == Orders \cup Polls

SoundTypes ==
    /\ gate \in BOOLEAN /\ data \in BOOLEAN /\ pit \in Nat /\ present \in BOOLEAN
    /\ dsp \in Dsps /\ dma \in Channels /\ driver \in Drivers /\ blocks \in Nat
    /\ call \in {"none", "reset", "detect", "other"}
    /\ todo \in Seq(Items) /\ (todo # <<>> => Tail(todo) \in Seq(Orders))
    /\ tone \in Nat /\ slept \in BOOLEAN /\ lost \in BOOLEAN /\ given \in Sounds \cup {NoMemory}

\* A call comes after the one before, and the first one initialises the device.
CallsOrdered ==
    /\ call = "none" => todo = <<>>
    /\ ~driver.inserted => call = "none"
    /\ (~driver.inserted \/ call \in {"reset", "detect"}) =>
          ~driver.playing /\ ~driver.speaker_on /\ driver.buffers = 0 /\ ~driver.beep_buffer

ToneKept ==
    /\ Sounding <=> tone # Silence
    /\ (tone # Silence /\ ~slept) => pit = tone

BlocksKept == blocks = driver.buffers + (IF driver.beep_buffer THEN 1 ELSE 0)

----------------------------------------------------------------------------
(* The sleep: the count it polls is the one it loaded, and it stops counting *)
(* when half of it is over.                                                  *)
Asked(ms) == ms * TicksPerMs
Wave == IF pit = 0 THEN Word ELSE pit
PollCounts ==
    HeadIs("poll") =>
        /\ pit = Asked(Head(todo).ms) % Word
        /\ Wave > 1 => Head(todo).ticks <= (Wave + 1) \div 2

----------------------------------------------------------------------------
(* What an item of output does to the DSP and the DMA controller.            *)
Stations == [dsp : Dsps, dma : Channels]
Effect(x, item) ==
    [dsp |-> IF item.port = "dsp" THEN Take(x.dsp, item.byte)
             ELSE IF item.port = "reset" THEN Reset ELSE x.dsp,
     dma |-> IF item.port # "dma" THEN x.dma
             ELSE IF item.open THEN [open |-> TRUE, memory |-> item.memory]
             ELSE [x.dma EXCEPT !.open = FALSE]]

\* out leads from x to y.
Leads(x, out, y) ==
    \E plan \in Seq(Stations) :
        /\ Len(plan) = Len(out) + 1 /\ plan[1] = x /\ plan[Len(out) + 1] = y
        /\ \A i \in 1 .. Len(out) : plan[i + 1] = Effect(plan[i], out[i])

\* out ends with the DSP waiting for a command, the speaker on or off and the channel at m.
Ends(x, out, on, m) ==
    \E y \in Stations : Leads(x, out, y) /\ y.dsp.left = 0 /\ y.dsp.speaker = on /\ y.dma = m

\* x is the present state, but for the mode of the DSP, which the end of a buffer
\* changes, as it closes the channel; nothing is known of a DSP that missed a byte.
Present(x) ==
    /\ ~lost => x.dsp.left = dsp.left /\ x.dsp.command = dsp.command /\ x.dsp.speaker = dsp.speaker
    /\ dma.open => x.dma = dma

\* And y is what the driver believes: an open channel reads the memory last given to it.
Believed(y) ==
    /\ y.dsp.left = 0 /\ y.dsp.speaker = driver.speaker_on
    /\ y.dma.open => y.dma.memory = given /\ driver.playing

Foreseen == \E x, y \in Stations : Present(x) /\ Leads(x, todo, y) /\ Believed(y)

SoundInv ==
    /\ SoundTypes /\ CallsOrdered /\ ToneKept /\ BlocksKept /\ PollCounts /\ Foreseen

----------------------------------------------------------------------------
(* The lemmas about single bytes and items.                                  *)
LEMMA Constants == /\ Word \in Nat \ {0} /\ TicksPerMs \in Nat \ {0} /\ Buffers \in Nat
                   /\ Delays \subseteq Nat \ {0} /\ Tones \subseteq 1 .. Word - 1
                   /\ \A sound \in Sounds : sound[1] \in Byte /\ sound[2] \in Byte
BY SoundConstants DEF Byte

LEMMA ResetTypes == Reset \in Dsps /\ Reset.left = 0 /\ Reset.speaker = FALSE
BY DEF Reset, Dsps, Byte

\* The steps of Take and Obey: n parameters of c are to come, the speaker is switched, the
\* mode is changed.
Expect(d, c, n) == [d EXCEPT !.command = c, !.left = n]
Switch(d, c) == [d EXCEPT !.speaker = (c = SpeakerOn)]
SetMode(d, m) == [d EXCEPT !.mode = m]

LEMMA Expecting ==
    \A d \in Dsps, c \in Byte, n \in 0 .. 2 :
        /\ Expect(d, c, n) \in Dsps /\ Expect(d, c, n).left = n /\ Expect(d, c, n).command = c
        /\ Expect(d, c, n).speaker = d.speaker
BY DEF Expect, Dsps

\* Obeying a command changes the speaker, if it is the speaker's, and the mode.
LEMMA Obeyed ==
    ASSUME NEW d \in Dsps, NEW c \in Byte
    PROVE  /\ Obey(d, c) \in Dsps /\ Obey(d, c).left = d.left /\ Obey(d, c).command = d.command
           /\ Obey(d, c).speaker = IF c \in {SpeakerOn, SpeakerOff} THEN c = SpeakerOn ELSE d.speaker
<1>1. CASE c \in {SpeakerOn, SpeakerOff}
    <2>1. Obey(d, c) = Switch(d, c)
        BY <1>1 DEF Obey, Switch, SpeakerOn, SpeakerOff, SingleCycle, AutoInit, PauseDma
    <2>2. /\ Switch(d, c) \in Dsps /\ Switch(d, c).left = d.left /\ Switch(d, c).command = d.command
          /\ Switch(d, c).speaker = (c = SpeakerOn)
        BY DEF Switch, Dsps
    <2>3. QED  BY <1>1, <2>1, <2>2
<1>2. ASSUME NEW m \in Byte, Obey(d, c) = SetMode(d, m), c \notin {SpeakerOn, SpeakerOff}
      PROVE  /\ Obey(d, c) \in Dsps /\ Obey(d, c).left = d.left /\ Obey(d, c).command = d.command
             /\ Obey(d, c).speaker = d.speaker
    <2>1. /\ SetMode(d, m) \in Dsps /\ SetMode(d, m).left = d.left
          /\ SetMode(d, m).command = d.command /\ SetMode(d, m).speaker = d.speaker
        BY DEF SetMode, Dsps
    <2>2. QED  BY <1>2, <2>1
<1>3. CASE c \in {SingleCycle, AutoInit}
    <2>1. Obey(d, c) = SetMode(d, c) /\ c \notin {SpeakerOn, SpeakerOff}
        BY <1>3 DEF Obey, SetMode, SpeakerOn, SpeakerOff, SingleCycle, AutoInit, PauseDma
    <2>2. QED  BY <1>2, <2>1
<1>4. CASE c = PauseDma
    <2>1. Obey(d, c) = SetMode(d, 0) /\ c \notin {SpeakerOn, SpeakerOff} /\ 0 \in Byte
        BY <1>4 DEF Obey, SetMode, SpeakerOn, SpeakerOff, SingleCycle, AutoInit, PauseDma, Byte
    <2>2. QED  BY <1>2, <2>1
<1>5. CASE c \notin {SpeakerOn, SpeakerOff, SingleCycle, AutoInit, PauseDma}
    <2>1. Obey(d, c) = d
        BY <1>5 DEF Obey
    <2>2. QED  BY <1>5, <2>1
<1>6. QED  BY <1>1, <1>3, <1>4, <1>5

\* A command with k parameters leaves k to come; one without is obeyed.
LEMMA CommandTaken ==
    ASSUME NEW d \in Dsps, NEW c \in Byte, d.left = 0
    PROVE  /\ Take(d, c) \in Dsps
           /\ Parameters(c) # 0 => /\ Take(d, c).left = Parameters(c)
                                   /\ Take(d, c).command = c
                                   /\ Take(d, c).speaker = d.speaker
           /\ Parameters(c) = 0 => /\ Take(d, c).left = 0
                                   /\ Take(d, c).speaker = IF c \in {SpeakerOn, SpeakerOff}
                                                           THEN c = SpeakerOn ELSE d.speaker
<1>1. Parameters(c) \in 0 .. 2
    BY DEF Parameters
<1>2. CASE Parameters(c) # 0
    <2>1. Take(d, c) = Expect(d, c, Parameters(c))
        BY <1>1, <1>2 DEF Take, Expect
    <2>2. QED  BY <1>1, <1>2, <2>1, Expecting
<1>3. CASE Parameters(c) = 0
    <2> DEFINE e == Expect(d, 0, 0)
    <2>1. Take(d, c) = Obey(e, c)
        BY <1>3 DEF Take, Expect
    <2>2. e \in Dsps /\ e.left = 0 /\ e.speaker = d.speaker
        <3>1. 0 \in Byte /\ 0 \in 0 .. 2  BY DEF Byte
        <3>2. QED  BY <3>1, Expecting
    <2> HIDE DEF e
    <2>3. QED  BY <1>3, <2>1, <2>2, Obeyed
<1>4. QED  BY <1>2, <1>3

\* A parameter is counted off, whatever it is, and the last one leaves the speaker
\* alone unless the command was the speaker's.
LEMMA ParameterTaken ==
    ASSUME NEW d \in Dsps, NEW p \in Byte, d.left # 0
    PROVE  /\ Take(d, p) \in Dsps
           /\ Take(d, p).left = d.left - 1
           /\ d.left > 1 => Take(d, p).command = d.command
           /\ (d.left > 1 \/ d.command \notin {SpeakerOn, SpeakerOff}) => Take(d, p).speaker = d.speaker
<1>1. d.left \in 1 .. 2 /\ d.command \in Byte
    BY DEF Dsps
<1>2. CASE d.left > 1
    <2>1. Take(d, p) = Expect(d, d.command, d.left - 1)
        BY <1>1, <1>2 DEF Take, Expect
    <2> DEFINE n == d.left - 1
    <2>2. n \in 0 .. 2  BY <1>1
    <2>3. Take(d, p) = Expect(d, d.command, n)  BY <2>1
    <2> HIDE DEF n
    <2>4. /\ Expect(d, d.command, n) \in Dsps /\ Expect(d, d.command, n).left = n
          /\ Expect(d, d.command, n).command = d.command /\ Expect(d, d.command, n).speaker = d.speaker
        <3>1. d \in Dsps /\ d.command \in Byte  BY <1>1
        <3>2. Expect(d, d.command, n) \in Dsps BY <2>2, <3>1, Expecting
        <3>3. Expect(d, d.command, n).left = n BY <2>2, <3>1, Expecting
        <3>4. Expect(d, d.command, n).command = d.command BY <2>2, <3>1, Expecting
        <3>5. Expect(d, d.command, n).speaker = d.speaker BY <2>2, <3>1, Expecting
        <3>6. QED  BY <3>2, <3>3, <3>4, <3>5
    <2>5. /\ Take(d, p) \in Dsps /\ Take(d, p).left = n /\ Take(d, p).command = d.command
          /\ Take(d, p).speaker = d.speaker
        BY <2>3, <2>4
    <2>6. QED  BY <2>5 DEF n
<1>3. CASE d.left = 1
    <2> DEFINE e == Expect(d, 0, 0)
    <2>1. Take(d, p) = Obey(e, d.command)
        BY <1>3 DEF Take, Expect
    <2>2. e \in Dsps /\ e.left = 0 /\ e.speaker = d.speaker
        <3>1. 0 \in Byte /\ 0 \in 0 .. 2  BY DEF Byte
        <3>2. QED  BY <3>1, Expecting
    <2> HIDE DEF e
    <2>3. QED  BY <1>1, <1>3, <2>1, <2>2, Obeyed
<1>4. QED  BY <1>1, <1>2, <1>3

LEMMA TakeTypes == ASSUME NEW d \in Dsps, NEW b \in Byte PROVE Take(d, b) \in Dsps
BY CommandTaken, ParameterTaken

\* The mode of the DSP has no part in what it makes of a byte.
LEMMA ModeIrrelevant ==
    ASSUME NEW d \in Dsps, NEW e \in Dsps, NEW b \in Byte,
           d.left = e.left, d.command = e.command, d.speaker = e.speaker
    PROVE  /\ Take(d, b).left = Take(e, b).left /\ Take(d, b).command = Take(e, b).command
           /\ Take(d, b).speaker = Take(e, b).speaker
<1> DEFINE c == IF d.left = 0 THEN b ELSE d.command
           n == IF d.left = 0 THEN Parameters(b) ELSE d.left - 1
           dn == Expect(d, c, n)
           en == Expect(e, c, n)
           d0 == Expect(d, 0, 0)
           e0 == Expect(e, 0, 0)
<1>1. /\ Take(d, b) = IF n > 0 THEN dn ELSE Obey(d0, c)
      /\ Take(e, b) = IF n > 0 THEN en ELSE Obey(e0, c)
    BY DEF Take, Expect
<1>2. c \in Byte /\ n \in 0 .. 2
    BY DEF Dsps, Parameters
<1>3. dn.left = en.left /\ dn.command = en.command /\ dn.speaker = en.speaker
    <2> HIDE DEF c, n
    <2>1. dn.left = n  BY <1>2, Expecting
    <2>2. dn.command = c  BY <1>2, Expecting
    <2>3. dn.speaker = d.speaker  BY <1>2, Expecting
    <2>4. en.left = n /\ en.command = c /\ en.speaker = e.speaker  BY <1>2, Expecting
    <2>5. QED  BY <2>1, <2>2, <2>3, <2>4
<1>4. d0 \in Dsps /\ e0 \in Dsps /\ d0.left = e0.left /\ d0.command = e0.command /\ d0.speaker = e0.speaker
    <2>1. 0 \in Byte /\ 0 \in 0 .. 2  BY DEF Byte
    <2>2. d0 \in Dsps /\ d0.left = 0 /\ d0.command = 0 /\ d0.speaker = d.speaker  BY <2>1, Expecting
    <2>3. e0 \in Dsps /\ e0.left = 0 /\ e0.command = 0 /\ e0.speaker = e.speaker  BY <2>1, Expecting
    <2>4. QED  BY <2>2, <2>3
<1> HIDE DEF c, n, d0, e0, dn, en
<1>5. /\ Obey(d0, c).left = Obey(e0, c).left /\ Obey(d0, c).command = Obey(e0, c).command
      /\ Obey(d0, c).speaker = Obey(e0, c).speaker
    BY <1>2, <1>4, Obeyed
<1>6. QED  BY <1>1, <1>3, <1>5

----------------------------------------------------------------------------
(* The lemmas about output.                                                  *)
LEMMA ItemParts ==
    ASSUME NEW item \in Items
    PROVE  /\ item.port = "dsp" => item.byte \in Byte
           /\ item.port = "dma" => item.open \in BOOLEAN /\ (item.open => item.memory \in Sounds)
           /\ item.port \in {"timer", "poll"} => item.ms \in Nat \ {0}
           /\ item.port = "poll" => item.ticks \in Nat
           /\ (item.port = "poll" <=> item \in Polls)
<1>1. CASE item \in [port : {"dsp"}, byte : Byte]  BY <1>1 DEF Polls
<1>2. CASE item = MaskDma  BY <1>2 DEF Polls, MaskDma
<1>3. CASE item = ResetPort  BY <1>3 DEF Polls, ResetPort
<1>4. CASE item \in {UnmaskDma(sound) : sound \in Sounds}  
    <2>1. PICK sound \in Sounds : item = UnmaskDma(sound)  BY <1>4
    <2>2. item.port = "dma" /\ item.open = TRUE /\ item.memory = sound  BY <2>1 DEF UnmaskDma
    <2>3. item \notin Polls  BY <2>2 DEF Polls
    <2>4. QED  BY <2>2, <2>3
<1>5. CASE item \in [port : {"timer"}, ms : Nat \ {0}]  BY <1>5 DEF Polls
<1>6. CASE item \in Polls  BY <1>6 DEF Polls
<1>7. QED  BY <1>1, <1>2, <1>3, <1>4, <1>5, <1>6 DEF Items, Orders

LEMMA EffectTypes ==
    ASSUME NEW x \in Stations, NEW item \in Items
    PROVE  Effect(x, item) \in Stations
<1>1. x.dsp \in Dsps /\ x.dma \in Channels  BY DEF Stations
<1>2. Effect(x, item).dsp \in Dsps
    <2>1. item.port = "dsp" => Take(x.dsp, item.byte) \in Dsps  BY <1>1, ItemParts, TakeTypes
    <2>2. QED  BY <1>1, <2>1, ResetTypes DEF Effect
<1>3. Effect(x, item).dma \in Channels
    <2>1. CASE item.port # "dma"  BY <1>1, <2>1 DEF Effect
    <2>2. CASE item.port = "dma" /\ item.open
        <3>1. Effect(x, item).dma = [open |-> TRUE, memory |-> item.memory]  BY <2>2 DEF Effect
        <3>2. item.memory \in Sounds  BY <2>2, ItemParts
        <3>3. QED  BY <3>1, <3>2 DEF Channels
    <2>3. CASE item.port = "dma" /\ ~item.open
        <3>1. Effect(x, item).dma = [x.dma EXCEPT !.open = FALSE]  BY <2>3 DEF Effect
        <3>2. QED  BY <1>1, <3>1 DEF Channels
    <2>4. QED  BY <2>1, <2>2, <2>3
<1>4. Effect(x, item) = [dsp |-> Effect(x, item).dsp, dma |-> Effect(x, item).dma]  BY DEF Effect
<1>5. QED  BY <1>2, <1>3, <1>4 DEF Stations

LEMMA LeadsNowhere == \A x \in Stations : Leads(x, <<>>, x)
<1> SUFFICES ASSUME NEW x \in Stations PROVE Leads(x, <<>>, x)  OBVIOUS
<1> DEFINE plan == <<x>>
<1>1. plan \in Seq(Stations) /\ Len(plan) = 1 /\ plan[1] = x /\ Len(<<>>) = 0  OBVIOUS
<1> HIDE DEF plan
<1>2. \A i \in 1 .. 0 : plan[i + 1] = Effect(plan[i], <<>>[i])  OBVIOUS
<1>3. QED  BY <1>1, <1>2 DEF Leads

LEMMA NowhereIsHere == \A x, y : Leads(x, <<>>, y) => x = y
<1>1. Len(<<>>) = 0  OBVIOUS
<1>2. QED  BY <1>1 DEF Leads

LEMMA LeadsByOne ==
    ASSUME NEW x \in Stations, NEW item \in Items
    PROVE  Leads(x, <<item>>, Effect(x, item))
<1> DEFINE plan == <<x, Effect(x, item)>>
<1>1. plan \in Seq(Stations) /\ Len(plan) = 2 /\ plan[1] = x /\ plan[2] = Effect(x, item)
    BY EffectTypes
<1>2. Len(<<item>>) = 1 /\ <<item>>[1] = item  OBVIOUS
<1> HIDE DEF plan
<1>3. \A i \in 1 .. 1 : plan[i + 1] = Effect(plan[i], <<item>>[i])  BY <1>1, <1>2
<1>4. QED  BY <1>1, <1>2, <1>3 DEF Leads

\* Output after output leads from the end of the first.
LEMMA LeadsOn ==
    ASSUME NEW x, NEW y, NEW z, NEW s \in Seq(Items), NEW t \in Seq(Items),
           Leads(x, s, y), Leads(y, t, z)
    PROVE  Leads(x, s \o t, z)
<1>1. PICK p \in Seq(Stations) :
        /\ Len(p) = Len(s) + 1 /\ p[1] = x /\ p[Len(s) + 1] = y
        /\ \A i \in 1 .. Len(s) : p[i + 1] = Effect(p[i], s[i])
    BY DEF Leads
<1>2. PICK q \in Seq(Stations) :
        /\ Len(q) = Len(t) + 1 /\ q[1] = y /\ q[Len(t) + 1] = z
        /\ \A i \in 1 .. Len(t) : q[i + 1] = Effect(q[i], t[i])
    BY DEF Leads
<1>3. PICK m \in Nat, n \in Nat : m = Len(s) /\ n = Len(t)  OBVIOUS
<1>4. /\ Len(s \o t) = m + n
      /\ \A i \in 1 .. m : (s \o t)[i] = s[i]
      /\ \A i \in m + 1 .. m + n : (s \o t)[i] = t[i - m]
    BY <1>3
<1> DEFINE plan == [i \in 1 .. m + n + 1 |-> IF i <= m + 1 THEN p[i] ELSE q[i - m]]
<1>5. plan \in Seq(Stations) /\ Len(plan) = m + n + 1
    <2>1. \A i \in 1 .. m + n + 1 : plan[i] \in Stations
        <3> SUFFICES ASSUME NEW i \in 1 .. m + n + 1 PROVE plan[i] \in Stations  OBVIOUS
        <3>1. CASE i <= m + 1
            <4>1. i \in 1 .. Len(p)  BY <1>1, <1>3, <3>1
            <4>2. QED  BY <3>1, <4>1
        <3>2. CASE i > m + 1
            <4>1. i - m \in 1 .. Len(q)  BY <1>2, <1>3, <3>2
            <4>2. QED  BY <3>2, <4>1
        <3>3. QED  BY <3>1, <3>2
    <2>2. m + n + 1 \in Nat  OBVIOUS
    <2>3. QED  BY <2>1, <2>2
<1>6. plan[1] = x /\ plan[m + n + 1] = z
    <2>1. plan[1] = x  BY <1>1
    <2>2. CASE n = 0
        <3>1. plan[m + n + 1] = p[m + 1]  BY <2>2
        <3>2. QED  BY <1>1, <1>2, <1>3, <2>1, <2>2, <3>1
    <2>3. CASE n > 0
        <3>1. plan[m + n + 1] = q[m + n + 1 - m]  BY <2>3
        <3>2. m + n + 1 - m = n + 1  OBVIOUS
        <3>3. q[n + 1] = z  BY <1>2, <1>3
        <3> HIDE DEF plan
        <3>4. QED  BY <2>1, <3>1, <3>2, <3>3
    <2> HIDE DEF plan
    <2>4. QED  BY <2>1, <2>2, <2>3
<1>7. ASSUME NEW i \in 1 .. m + n
      PROVE  plan[i + 1] = Effect(plan[i], (s \o t)[i])
    <2>1. CASE i <= m
        <3>1. plan[i + 1] = p[i + 1] /\ plan[i] = p[i] /\ i \in 1 .. m  BY <2>1
        <3>2. QED  BY <1>1, <1>3, <1>4, <3>1
    <2>2. CASE i > m
        <3>1. PICK k \in 1 .. n : i = m + k  BY <2>2
        <3>2. plan[i + 1] = q[k + 1]
            <4>1. i + 1 - m = k + 1 /\ ~(i + 1 <= m + 1) /\ i + 1 \in 1 .. m + n + 1  BY <3>1
            <4>2. QED  BY <4>1
        <3>3. plan[i] = q[k]
            <4>1. CASE k = 1
                <5>1. plan[i] = p[m + 1]  BY <3>1, <4>1
                <5>2. QED  BY <1>1, <1>2, <1>3, <4>1, <5>1
            <4>2. CASE k > 1
                <5>1. i - m = k /\ ~(i <= m + 1) /\ i \in 1 .. m + n + 1  BY <3>1, <4>2
                <5>2. QED  BY <5>1
            <4>3. QED  BY <4>1, <4>2
        <3>4. (s \o t)[i] = t[k]
            <4>1. i - m = k /\ i \in m + 1 .. m + n  BY <3>1
            <4>2. QED  BY <1>4, <4>1
        <3>5. q[k + 1] = Effect(q[k], t[k])  BY <1>2, <1>3, <3>1
        <3> HIDE DEF plan
        <3>6. QED  BY <3>2, <3>3, <3>4, <3>5
    <2>3. i <= m \/ i > m  OBVIOUS
    <2> HIDE DEF plan
    <2>4. QED  BY <2>1, <2>2, <2>3, Zenon
<1> HIDE DEF plan
<1>8. QED  BY <1>4, <1>5, <1>6, <1>7 DEF Leads

\* Once the first item is out, the rest leads on from what it did.
LEMMA LeadsAfterHead ==
    ASSUME NEW x, NEW y, NEW s \in Seq(Items), s # <<>>, Leads(x, s, y)
    PROVE  Leads(Effect(x, Head(s)), Tail(s), y)
<1>1. PICK p \in Seq(Stations) :
        /\ Len(p) = Len(s) + 1 /\ p[1] = x /\ p[Len(s) + 1] = y
        /\ \A i \in 1 .. Len(s) : p[i + 1] = Effect(p[i], s[i])
    BY DEF Leads
<1>2. PICK n \in Nat : Len(s) = n + 1
    <2>1. Len(s) \in Nat /\ Len(s) # 0  OBVIOUS
    <2>2. Len(s) - 1 \in Nat /\ Len(s) = (Len(s) - 1) + 1  BY <2>1
    <2>3. QED  BY <2>2
<1>3. /\ Tail(s) \in Seq(Items) /\ Len(Tail(s)) = n /\ Head(s) = s[1]
      /\ \A i \in 1 .. n : Tail(s)[i] = s[i + 1]
    BY <1>2
<1>4. p # <<>> /\ Tail(p) \in Seq(Stations) /\ Len(Tail(p)) = n + 1
      /\ \A i \in 1 .. n + 1 : Tail(p)[i] = p[i + 1]
    BY <1>1, <1>2
<1>5. Tail(p)[1] = Effect(x, Head(s))  BY <1>1, <1>2, <1>3, <1>4
<1>6. Tail(p)[n + 1] = y  BY <1>1, <1>2, <1>4
<1>7. \A i \in 1 .. n : Tail(p)[i + 1] = Effect(Tail(p)[i], Tail(s)[i])
    <2> SUFFICES ASSUME NEW i \in 1 .. n
                 PROVE  Tail(p)[i + 1] = Effect(Tail(p)[i], Tail(s)[i])  OBVIOUS
    <2>1. i \in 1 .. n + 1 /\ i + 1 \in 1 .. n + 1  OBVIOUS
    <2>2. Tail(p)[i + 1] = p[(i + 1) + 1] /\ Tail(p)[i] = p[i + 1] /\ Tail(s)[i] = s[i + 1]
        BY <1>3, <1>4, <2>1
    <2>3. QED  BY <1>1, <1>2, <2>1, <2>2
<1>8. QED  BY <1>3, <1>4, <1>5, <1>6, <1>7 DEF Leads

----------------------------------------------------------------------------
(* The lemmas about what the calls send, command by command.                 *)
LEMMA Pairs ==
    ASSUME NEW S, NEW a \in S, NEW b \in S
    PROVE  /\ <<a>> \in Seq(S) /\ <<b>> \in Seq(S) /\ <<a, b>> \in Seq(S)
           /\ <<a>> \o <<b>> = <<a, b>>
<1>1. <<a>> \in Seq(S) /\ <<b>> \in Seq(S) /\ <<a, b>> \in Seq(S)  OBVIOUS
<1>2. Len(<<a>> \o <<b>>) = 2 /\ Len(<<a, b>>) = 2  OBVIOUS
<1>3. \A i \in 1 .. 2 : (<<a>> \o <<b>>)[i] = <<a, b>>[i]  OBVIOUS
<1>4. <<a>> \o <<b>> \in Seq(S)  BY <1>1
<1>5. QED  BY <1>1, <1>2, <1>3, <1>4, SeqEqual

LEMMA Triples ==
    ASSUME NEW S, NEW a \in S, NEW b \in S, NEW c \in S
    PROVE  /\ <<c>> \in Seq(S) /\ <<a, b>> \in Seq(S) /\ <<a, b, c>> \in Seq(S)
           /\ <<a, b>> \o <<c>> = <<a, b, c>>
<1>1. <<c>> \in Seq(S) /\ <<a, b>> \in Seq(S) /\ <<a, b, c>> \in Seq(S)  OBVIOUS
<1>2. Len(<<a, b>> \o <<c>>) = 3 /\ Len(<<a, b, c>>) = 3  OBVIOUS
<1>3. \A i \in 1 .. 3 : (<<a, b>> \o <<c>>)[i] = <<a, b, c>>[i]  OBVIOUS
<1>4. <<a, b>> \o <<c>> \in Seq(S)  BY <1>1
<1>5. QED  BY <1>1, <1>2, <1>3, <1>4, SeqEqual

LEMMA OrdersAreItems == Orders \subseteq Items /\ Seq(Orders) \subseteq Seq(Items)
BY DEF Items

LEMMA EndsOn ==
    ASSUME NEW x, NEW on, NEW m, NEW onn, NEW mm, NEW s \in Seq(Items), NEW t \in Seq(Items),
           Ends(x, s, on, m),
           \A y \in Stations : y.dsp.left = 0 /\ y.dsp.speaker = on /\ y.dma = m => Ends(y, t, onn, mm)
    PROVE  Ends(x, s \o t, onn, mm)
<1>1. PICK y \in Stations : Leads(x, s, y) /\ y.dsp.left = 0 /\ y.dsp.speaker = on /\ y.dma = m
    BY DEF Ends
<1>2. PICK z \in Stations : Leads(y, t, z) /\ z.dsp.left = 0 /\ z.dsp.speaker = onn /\ z.dma = mm
    BY <1>1 DEF Ends
<1>3. Leads(x, s \o t, z)  BY <1>1, <1>2, LeadsOn
<1>4. QED  BY <1>2, <1>3 DEF Ends

\* One byte to the DSP.
LEMMA ByteSent ==
    ASSUME NEW x \in Stations, NEW b \in Byte
    PROVE  /\ Dsp(b) \in Orders /\ Dsp(b) \in Items
           /\ Effect(x, Dsp(b)) \in Stations /\ x.dsp \in Dsps
           /\ Effect(x, Dsp(b)).dsp = Take(x.dsp, b) /\ Effect(x, Dsp(b)).dma = x.dma
           /\ Leads(x, <<Dsp(b)>>, Effect(x, Dsp(b)))
           /\ <<Dsp(b)>> \in Seq(Orders) /\ <<Dsp(b)>> \in Seq(Items)
<1>1. Dsp(b) \in Orders /\ Dsp(b).port = "dsp" /\ Dsp(b).byte = b
    BY DEF Dsp, Orders
<1>2. Effect(x, Dsp(b)).dsp = Take(x.dsp, b) /\ Effect(x, Dsp(b)).dma = x.dma
    BY <1>1 DEF Effect
<1>3. Dsp(b) \in Items  BY <1>1, OrdersAreItems
<1>4. <<Dsp(b)>> \in Seq(Orders) /\ <<Dsp(b)>> \in Seq(Items)
    BY <1>1, <1>3, Pairs
<1>5. QED  BY <1>1, <1>2, <1>3, <1>4, EffectTypes, LeadsByOne DEF Stations

\* A command without parameters.
LEMMA CommandSent ==
    ASSUME NEW x \in Stations, NEW c \in Byte, x.dsp.left = 0, Parameters(c) = 0
    PROVE  Ends(x, <<Dsp(c)>>,
                IF c \in {SpeakerOn, SpeakerOff} THEN c = SpeakerOn ELSE x.dsp.speaker, x.dma)
BY ByteSent, CommandTaken DEF Ends

\* A command that is not the speaker's with one parameter, and one with two.
LEMMA CommandSent1 ==
    ASSUME NEW x \in Stations, NEW c \in Byte, NEW p \in Byte, x.dsp.left = 0, Parameters(c) = 1,
           c \notin {SpeakerOn, SpeakerOff}
    PROVE  Ends(x, <<Dsp(c), Dsp(p)>>, x.dsp.speaker, x.dma)
<1> DEFINE y == Effect(x, Dsp(c))
           z == Effect(y, Dsp(p))
<1>1. /\ y \in Stations /\ y.dsp \in Dsps /\ y.dsp.left = 1 /\ y.dsp.command = c
      /\ y.dsp.speaker = x.dsp.speaker /\ y.dma = x.dma /\ Leads(x, <<Dsp(c)>>, y)
    BY ByteSent, CommandTaken DEF Stations
<1> HIDE DEF y
<1>2. /\ z \in Stations /\ z.dsp.left = 0 /\ z.dsp.speaker = x.dsp.speaker /\ z.dma = x.dma
      /\ Leads(y, <<Dsp(p)>>, z)
    BY <1>1, ByteSent, ParameterTaken
<1> HIDE DEF z
<1>3. <<Dsp(c)>> \in Seq(Items) /\ <<Dsp(p)>> \in Seq(Items)
    BY ByteSent
<1>4. Leads(x, <<Dsp(c)>> \o <<Dsp(p)>>, z)
    BY <1>1, <1>2, <1>3, LeadsOn
<1>5. <<Dsp(c)>> \o <<Dsp(p)>> = <<Dsp(c), Dsp(p)>>
    <2>1. Dsp(c) \in Items /\ Dsp(p) \in Items  BY ByteSent
    <2>2. QED  BY <2>1, Pairs, Triples
<1>6. QED  BY <1>2, <1>4, <1>5 DEF Ends

LEMMA CommandSent2 ==
    ASSUME NEW x \in Stations, NEW c \in Byte, NEW p \in Byte, NEW q \in Byte, x.dsp.left = 0,
           Parameters(c) = 2, c \notin {SpeakerOn, SpeakerOff}
    PROVE  Ends(x, <<Dsp(c), Dsp(p), Dsp(q)>>, x.dsp.speaker, x.dma)
<1> DEFINE y == Effect(x, Dsp(c))
           z == Effect(y, Dsp(p))
           w == Effect(z, Dsp(q))
<1>1. /\ y \in Stations /\ y.dsp \in Dsps /\ y.dsp.left = 2 /\ y.dsp.command = c
      /\ y.dsp.speaker = x.dsp.speaker /\ y.dma = x.dma /\ Leads(x, <<Dsp(c)>>, y)
    BY ByteSent, CommandTaken DEF Stations
<1> HIDE DEF y
<1>2. /\ z \in Stations /\ z.dsp \in Dsps /\ z.dsp.left = 1 /\ z.dsp.command = c
      /\ z.dsp.speaker = x.dsp.speaker /\ z.dma = x.dma /\ Leads(y, <<Dsp(p)>>, z)
    <2>1. z \in Stations /\ z.dsp = Take(y.dsp, p) /\ z.dma = y.dma /\ Leads(y, <<Dsp(p)>>, z)
        BY <1>1, ByteSent
    <2>2. /\ Take(y.dsp, p) \in Dsps /\ Take(y.dsp, p).left = 1 /\ Take(y.dsp, p).command = c
          /\ Take(y.dsp, p).speaker = x.dsp.speaker
        BY <1>1, ParameterTaken
    <2>3. QED  BY <1>1, <2>1, <2>2
<1> HIDE DEF z
<1>3. /\ w \in Stations /\ w.dsp.left = 0 /\ w.dsp.speaker = x.dsp.speaker /\ w.dma = x.dma
      /\ Leads(z, <<Dsp(q)>>, w)
    BY <1>2, ByteSent, ParameterTaken
<1> HIDE DEF w
<1>4. /\ <<Dsp(c)>> \in Seq(Items) /\ <<Dsp(p)>> \in Seq(Items) /\ <<Dsp(q)>> \in Seq(Items)
      /\ <<Dsp(c)>> \o <<Dsp(p)>> = <<Dsp(c), Dsp(p)>> /\ <<Dsp(c), Dsp(p)>> \in Seq(Items)
      /\ <<Dsp(c), Dsp(p)>> \o <<Dsp(q)>> = <<Dsp(c), Dsp(p), Dsp(q)>>
    <2>1. Dsp(c) \in Items /\ Dsp(p) \in Items /\ Dsp(q) \in Items  BY ByteSent
    <2>2. QED  BY <2>1, Pairs, Triples
<1>5. Leads(x, <<Dsp(c), Dsp(p)>>, z)
    <2>1. Leads(x, <<Dsp(c)>> \o <<Dsp(p)>>, z)  BY <1>1, <1>2, <1>4, LeadsOn
    <2>2. QED  BY <1>4, <2>1
<1>6. Leads(x, <<Dsp(c), Dsp(p), Dsp(q)>>, w)
    <2>1. Leads(x, <<Dsp(c), Dsp(p)>> \o <<Dsp(q)>>, w)  BY <1>3, <1>4, <1>5, LeadsOn
    <2>2. QED  BY <1>4, <2>1
<1>7. QED  BY <1>3, <1>6 DEF Ends

LEMMA SpeakerSent ==
    ASSUME NEW x \in Stations, NEW on \in BOOLEAN, x.dsp.left = 0
    PROVE  Speaker(on) \in Seq(Orders) /\ Ends(x, Speaker(on), on, x.dma)
<1>1. CASE on
    <2>1. SpeakerOn \in Byte /\ Parameters(SpeakerOn) = 0
        BY DEF SpeakerOn, Byte, Parameters, SetTimeConstant, SetOutputRate, SingleCycle, AutoInit
    <2>2. Ends(x, <<Dsp(SpeakerOn)>>, TRUE, x.dma)  BY <2>1, CommandSent
    <2>3. Speaker(on) = <<Dsp(SpeakerOn)>>  BY <1>1 DEF Speaker
    <2>4. QED  BY <1>1, <2>1, <2>2, <2>3, ByteSent
<1>2. CASE ~on
    <2>1. SpeakerOff \in Byte /\ Parameters(SpeakerOff) = 0 /\ SpeakerOff # SpeakerOn
        BY DEF SpeakerOn, SpeakerOff, Byte, Parameters, SetTimeConstant, SetOutputRate, SingleCycle, AutoInit
    <2>2. Ends(x, <<Dsp(SpeakerOff)>>, FALSE, x.dma)  BY <2>1, CommandSent
    <2>3. Speaker(on) = <<Dsp(SpeakerOff)>>  BY <1>2 DEF Speaker
    <2>4. QED  BY <1>2, <2>1, <2>2, <2>3, ByteSent
<1>3. QED  BY <1>1, <1>2

\* After other output.
LEMMA SpeakerSentAfter ==
    ASSUME NEW x, NEW s \in Seq(Orders), NEW was, NEW m, NEW on \in BOOLEAN, Ends(x, s, was, m)
    PROVE  s \o Speaker(on) \in Seq(Orders) /\ Ends(x, s \o Speaker(on), on, m)
<1>1. PICK y \in Stations : Leads(x, s, y) /\ y.dsp.left = 0 /\ y.dma = m
    BY DEF Ends
<1>2. Speaker(on) \in Seq(Orders) /\ Ends(y, Speaker(on), on, m)
    BY <1>1, SpeakerSent
<1>3. PICK z \in Stations : Leads(y, Speaker(on), z) /\ z.dsp.left = 0 /\ z.dsp.speaker = on /\ z.dma = m
    BY <1>2 DEF Ends
<1>4. Leads(x, s \o Speaker(on), z)
    BY <1>1, <1>2, <1>3, OrdersAreItems, LeadsOn
<1>5. QED  BY <1>2, <1>3, <1>4 DEF Ends

LEMMA VersionAsked ==
    ASSUME NEW x \in Stations, x.dsp.left = 0
    PROVE  <<Dsp(GetVersion)>> \in Seq(Orders) /\ Ends(x, <<Dsp(GetVersion)>>, x.dsp.speaker, x.dma)
<1>1. GetVersion \in Byte /\ Parameters(GetVersion) = 0 /\ GetVersion \notin {SpeakerOn, SpeakerOff}
    BY DEF GetVersion, SpeakerOn, SpeakerOff, Byte, Parameters, SetTimeConstant, SetOutputRate,
           SingleCycle, AutoInit
<1>2. QED  BY <1>1, CommandSent, ByteSent

LEMMA ResetSent ==
    ASSUME NEW x \in Stations
    PROVE  sb16_reset \in Seq(Orders) /\ Ends(x, sb16_reset, FALSE, x.dma)
<1> DEFINE y == Effect(x, ResetPort)
<1>1. ResetPort \in Orders /\ Sleep(3) \in Orders /\ ResetPort.port = "reset" /\ Sleep(3).port = "timer"
    BY DEF ResetPort, Sleep, Orders
<1>2. ResetPort \in Items /\ Sleep(3) \in Items  BY <1>1, OrdersAreItems
<1>3. /\ y \in Stations /\ y.dsp.left = 0 /\ y.dsp.speaker = FALSE /\ y.dma = x.dma
      /\ Leads(x, <<ResetPort>>, y)
    <2>1. y.dsp = Reset /\ y.dma = x.dma  BY <1>1 DEF Effect
    <2>2. QED  BY <1>2, <2>1, EffectTypes, LeadsByOne, ResetTypes
<1> HIDE DEF y
<1>4. Leads(y, <<Sleep(3)>>, y)
    <2>1. Effect(y, Sleep(3)) = [dsp |-> y.dsp, dma |-> y.dma]  BY <1>1 DEF Effect
    <2>2. Effect(y, Sleep(3)) = y  BY <1>3, <2>1 DEF Stations
    <2>3. QED  BY <1>2, <1>3, <2>2, LeadsByOne
<1>5. /\ <<ResetPort>> \in Seq(Items) /\ <<Sleep(3)>> \in Seq(Items)
      /\ <<ResetPort>> \o <<Sleep(3)>> = <<ResetPort, Sleep(3)>>
    BY <1>2, Pairs
<1>6. Leads(x, <<ResetPort, Sleep(3)>>, y)
    <2>1. Leads(x, <<ResetPort>> \o <<Sleep(3)>>, y)  BY <1>3, <1>4, <1>5, LeadsOn
    <2>2. QED  BY <1>5, <2>1
<1>7. <<ResetPort, Sleep(3)>> \in Seq(Orders)  BY <1>1, Pairs
<1>8. QED  BY <1>3, <1>6, <1>7 DEF Ends, sb16_reset

\* The channel of a DSP that waits for a command is masked or opened.
LEMMA MaskSent ==
    ASSUME NEW x \in Stations, x.dsp.left = 0
    PROVE  /\ MaskDma \in Orders /\ <<MaskDma>> \in Seq(Orders)
           /\ Ends(x, <<MaskDma>>, x.dsp.speaker, [x.dma EXCEPT !.open = FALSE])
<1>1. MaskDma \in Orders /\ MaskDma.port = "dma" /\ ~MaskDma.open  BY DEF MaskDma, Orders
<1>2. MaskDma \in Items /\ <<MaskDma>> \in Seq(Orders)  BY <1>1, OrdersAreItems, Pairs
<1>3. /\ Effect(x, MaskDma).dsp = x.dsp
      /\ Effect(x, MaskDma).dma = [x.dma EXCEPT !.open = FALSE]
    BY <1>1 DEF Effect
<1>4. QED  BY <1>1, <1>2, <1>3, EffectTypes, LeadsByOne DEF Ends

LEMMA UnmaskSent ==
    ASSUME NEW x \in Stations, NEW sound \in Sounds, x.dsp.left = 0
    PROVE  /\ <<UnmaskDma(sound)>> \in Seq(Orders)
           /\ Ends(x, <<UnmaskDma(sound)>>, x.dsp.speaker, [open |-> TRUE, memory |-> sound])
<1> DEFINE u == UnmaskDma(sound)
<1>1. u \in Orders  BY DEF Orders
<1>2. u.port = "dma" /\ u.open /\ u.memory = sound  BY DEF UnmaskDma
<1> HIDE DEF u
<1>3. u \in Items /\ <<u>> \in Seq(Orders)  BY <1>1, OrdersAreItems, Pairs
<1>4. Effect(x, u).dsp = x.dsp /\ Effect(x, u).dma = [open |-> TRUE, memory |-> sound]
    BY <1>2 DEF Effect
<1>5. <<u>> \in Seq(Orders) /\ Ends(x, <<u>>, x.dsp.speaker, [open |-> TRUE, memory |-> sound])
    BY <1>3, <1>4, EffectTypes, LeadsByOne DEF Ends
<1>6. QED  BY <1>5 DEF u

\* sb16_stop_playback closes the channel of a sound that is played.
LEMMA StopSent ==
    ASSUME NEW x \in Stations, x.dsp.left = 0
    PROVE  /\ StopOutput \in Seq(Orders)
           /\ Ends(x, StopOutput, x.dsp.speaker,
                   IF driver.playing THEN [x.dma EXCEPT !.open = FALSE] ELSE x.dma)
<1>1. CASE driver.playing
    <2>1. PauseDma \in Byte /\ Parameters(PauseDma) = 0 /\ PauseDma \notin {SpeakerOn, SpeakerOff}
        BY DEF PauseDma, SpeakerOn, SpeakerOff, Byte, Parameters, SetTimeConstant, SetOutputRate,
               SingleCycle, AutoInit
    <2>2. Ends(x, <<Dsp(PauseDma)>>, x.dsp.speaker, x.dma)  BY <2>1, CommandSent
    <2>3. \A y \in Stations : y.dsp.left = 0 /\ y.dsp.speaker = x.dsp.speaker /\ y.dma = x.dma =>
              Ends(y, <<MaskDma>>, x.dsp.speaker, [x.dma EXCEPT !.open = FALSE])
        BY MaskSent
    <2>4. /\ Dsp(PauseDma) \in Orders /\ <<Dsp(PauseDma)>> \in Seq(Items)
          /\ MaskDma \in Orders /\ <<MaskDma>> \in Seq(Items)
        BY <2>1, ByteSent, MaskSent, OrdersAreItems
    <2>5. /\ <<Dsp(PauseDma)>> \o <<MaskDma>> = <<Dsp(PauseDma), MaskDma>>
          /\ <<Dsp(PauseDma), MaskDma>> \in Seq(Orders)
        BY <2>4, Pairs
    <2>6. Ends(x, <<Dsp(PauseDma)>> \o <<MaskDma>>, x.dsp.speaker, [x.dma EXCEPT !.open = FALSE])
        BY <2>2, <2>3, <2>4, EndsOn
    <2>7. StopOutput = <<Dsp(PauseDma), MaskDma>>  BY <1>1 DEF StopOutput
    <2>8. QED  BY <1>1, <2>5, <2>6, <2>7
<1>2. CASE ~driver.playing
    <2>1. StopOutput = <<>> /\ <<>> \in Seq(Orders)  BY <1>2 DEF StopOutput
    <2>2. QED  BY <1>2, <2>1, LeadsNowhere DEF Ends
<1>3. QED  BY <1>1, <1>2

\* sb16_simple_playback.
LEMMA SimpleSent ==
    ASSUME NEW x \in Stations, NEW low \in Byte, NEW high \in Byte, x.dsp.left = 0
    PROVE  /\ sb16_simple_playback(low, high) \in Seq(Orders)
           /\ Ends(x, sb16_simple_playback(low, high), x.dsp.speaker, x.dma)
<1> DEFINE one == <<Dsp(SetTimeConstant), Dsp(TimeConstant)>>
           two == <<Dsp(SingleCycle), Dsp(low), Dsp(high)>>
<1>1. /\ SetTimeConstant \in Byte /\ TimeConstant \in Byte /\ Parameters(SetTimeConstant) = 1
      /\ SetTimeConstant \notin {SpeakerOn, SpeakerOff}
      /\ SingleCycle \in Byte /\ Parameters(SingleCycle) = 2
      /\ SingleCycle \notin {SpeakerOn, SpeakerOff}
    BY DEF SpeakerOn, SpeakerOff, Byte, Parameters, SetTimeConstant, SetOutputRate,
           SingleCycle, AutoInit, TimeConstant
<1>2. one \in Seq(Orders) /\ two \in Seq(Orders)
    <2>1. /\ Dsp(SetTimeConstant) \in Orders /\ Dsp(TimeConstant) \in Orders
          /\ Dsp(SingleCycle) \in Orders /\ Dsp(low) \in Orders /\ Dsp(high) \in Orders
        BY <1>1, ByteSent
    <2>2. QED  BY <2>1, Pairs, Triples
<1>3. Ends(x, one, x.dsp.speaker, x.dma)  BY <1>1, CommandSent1
<1>4. \A y \in Stations : y.dsp.left = 0 /\ y.dsp.speaker = x.dsp.speaker /\ y.dma = x.dma =>
          Ends(y, two, x.dsp.speaker, x.dma)
    <2> SUFFICES ASSUME NEW y \in Stations, y.dsp.left = 0, y.dsp.speaker = x.dsp.speaker,
                        y.dma = x.dma
                 PROVE  Ends(y, two, x.dsp.speaker, x.dma)  OBVIOUS
    <2>1. Ends(y, two, y.dsp.speaker, y.dma)  BY <1>1, CommandSent2
    <2>2. QED  BY <2>1
<1>5. sb16_simple_playback(low, high) = one \o two
    BY DEF sb16_simple_playback
<1> HIDE DEF one, two
<1>6. Ends(x, one \o two, x.dsp.speaker, x.dma)
    BY <1>2, <1>3, <1>4, OrdersAreItems, EndsOn
<1>7. QED  BY <1>2, <1>5, <1>6

\* sb16_start_playback opens the channel, sets the rate and gives the DSP the length.
StartOutput(sound, loop) ==
    <<UnmaskDma(sound)>> \o SampleRate \o
        <<Dsp(IF loop THEN AutoInit ELSE SingleCycle), Dsp(sound[1]), Dsp(sound[2])>>

LEMMA StartSent ==
    ASSUME NEW x \in Stations, NEW sound \in Sounds, NEW loop, x.dsp.left = 0
    PROVE  /\ StartOutput(sound, loop) \in Seq(Orders)
           /\ Ends(x, StartOutput(sound, loop), x.dsp.speaker, [open |-> TRUE, memory |-> sound])
<1> DEFINE c == IF loop THEN AutoInit ELSE SingleCycle
           m == [open |-> TRUE, memory |-> sound]
           last == <<Dsp(c), Dsp(sound[1]), Dsp(sound[2])>>
<1>1. /\ c \in Byte /\ Parameters(c) = 2 /\ c \notin {SpeakerOn, SpeakerOff}
      /\ SetOutputRate \in Byte /\ Parameters(SetOutputRate) = 2
      /\ SetOutputRate \notin {SpeakerOn, SpeakerOff} /\ \h56 \in Byte /\ \h22 \in Byte
    BY DEF SpeakerOn, SpeakerOff, Byte, Parameters, SetTimeConstant, SetOutputRate,
           SingleCycle, AutoInit
<1>2. sound[1] \in Byte /\ sound[2] \in Byte  BY Constants
<1> HIDE DEF c
<1>3. <<UnmaskDma(sound)>> \in Seq(Orders) /\ Ends(x, <<UnmaskDma(sound)>>, x.dsp.speaker, m)
    BY UnmaskSent
<1> HIDE DEF m
<1>4. /\ SampleRate \in Seq(Orders)
      /\ \A y \in Stations : y.dsp.left = 0 /\ y.dsp.speaker = x.dsp.speaker /\ y.dma = m =>
            Ends(y, SampleRate, x.dsp.speaker, m)
    <2>1. Dsp(SetOutputRate) \in Orders /\ Dsp(\h56) \in Orders /\ Dsp(\h22) \in Orders
        <3>1. \A b \in Byte : Dsp(b) \in Orders  BY ByteSent
        <3>2. QED  BY <1>1, <3>1
    <2>2. SampleRate \in Seq(Orders)  BY <2>1, Triples DEF SampleRate
    <2>3. ASSUME NEW y \in Stations, y.dsp.left = 0, y.dsp.speaker = x.dsp.speaker, y.dma = m
          PROVE  Ends(y, SampleRate, x.dsp.speaker, m)
        <3>1. Ends(y, SampleRate, y.dsp.speaker, y.dma)  BY <1>1, <2>3, CommandSent2 DEF SampleRate
        <3>2. QED  BY <2>3, <3>1
    <2>4. QED  BY <2>2, <2>3
<1>5. /\ last \in Seq(Orders)
      /\ \A y \in Stations : y.dsp.left = 0 /\ y.dsp.speaker = x.dsp.speaker /\ y.dma = m =>
            Ends(y, last, x.dsp.speaker, m)
    <2>1. Dsp(c) \in Orders /\ Dsp(sound[1]) \in Orders /\ Dsp(sound[2]) \in Orders
        BY <1>1, <1>2, ByteSent
    <2>2. last \in Seq(Orders)  BY <2>1, Triples
    <2>3. ASSUME NEW y \in Stations, y.dsp.left = 0, y.dsp.speaker = x.dsp.speaker, y.dma = m
          PROVE  Ends(y, last, x.dsp.speaker, m)
        <3>1. Ends(y, last, y.dsp.speaker, y.dma)  BY <1>1, <1>2, <2>3, CommandSent2
        <3>2. QED  BY <2>3, <3>1
    <2>4. QED  BY <2>2, <2>3
<1>6. StartOutput(sound, loop) = (<<UnmaskDma(sound)>> \o SampleRate) \o last
    BY DEF StartOutput, c
<1> HIDE DEF last
<1>7. /\ Ends(x, <<UnmaskDma(sound)>> \o SampleRate, x.dsp.speaker, m)
      /\ <<UnmaskDma(sound)>> \o SampleRate \in Seq(Orders)
    <2> DEFINE first == <<UnmaskDma(sound)>>
    <2>1. first \in Seq(Orders) /\ Ends(x, first, x.dsp.speaker, m)  BY <1>3
    <2> HIDE DEF first
    <2>2. first \in Seq(Items) /\ SampleRate \in Seq(Items)  BY <1>4, <2>1, OrdersAreItems
    <2>3. Ends(x, first \o SampleRate, x.dsp.speaker, m)  BY <1>4, <2>1, <2>2, EndsOn
    <2>4. first \o SampleRate \in Seq(Orders)  BY <1>4, <2>1
    <2>5. QED  BY <2>3, <2>4 DEF first
<1>8. /\ Ends(x, (<<UnmaskDma(sound)>> \o SampleRate) \o last, x.dsp.speaker, m)
      /\ (<<UnmaskDma(sound)>> \o SampleRate) \o last \in Seq(Orders)
    <2> DEFINE first == <<UnmaskDma(sound)>> \o SampleRate
    <2>1. first \in Seq(Orders) /\ Ends(x, first, x.dsp.speaker, m)  BY <1>7
    <2> HIDE DEF first
    <2>2. first \in Seq(Items) /\ last \in Seq(Items)  BY <1>5, <2>1, OrdersAreItems
    <2>3. Ends(x, first \o last, x.dsp.speaker, m)  BY <1>5, <2>1, <2>2, EndsOn
    <2>4. first \o last \in Seq(Orders)  BY <1>5, <2>1
    <2>5. QED  BY <2>3, <2>4 DEF first
<1>9. QED  BY <1>6, <1>8 DEF m

----------------------------------------------------------------------------
(* The lemmas about the steps.                                               *)
LEMMA OrdersQuiet ==
    ASSUME todo' \in Seq(Orders)
    PROVE  /\ todo' \in Seq(Items) /\ (todo' # <<>> => Tail(todo') \in Seq(Orders))
           /\ PollCounts'
<1>1. todo' \in Seq(Items) /\ (todo' # <<>> => Tail(todo') \in Seq(Orders))
    BY OrdersAreItems
<1>2. ~HeadIs("poll")'
    <2> SUFFICES ASSUME todo' # <<>> PROVE Head(todo').port # "poll"  BY DEF HeadIs
    <2>1. Head(todo') \in Orders  OBVIOUS
    <2>2. \A order \in Orders : order.port # "poll"
        BY DEF Orders, MaskDma, ResetPort, UnmaskDma
    <2>3. QED  BY <2>1, <2>2
<1>3. QED  BY <1>1, <1>2 DEF PollCounts

\* A Sleep or a poll at the head has a time; what follows it is orders.
LEMMA HeadTypes ==
    ASSUME SoundTypes, todo # <<>>
    PROVE  Head(todo) \in Items /\ Tail(todo) \in Seq(Orders) /\ todo \in Seq(Items)
BY DEF SoundTypes

LEMMA AtRest ==
    ASSUME Foreseen, todo = <<>>
    PROVE  \E x \in Stations : Present(x) /\ Believed(x)
BY NowhereIsHere DEF Foreseen

\* The head has gone out and has had its effect.
LEMMA HeadOut ==
    ASSUME SoundInv, todo # <<>>, todo' = Tail(todo), UNCHANGED <<driver, given>>,
           \A x, e \in Stations : Present(x) /\ e = Effect(x, Head(todo)) => Present(e)'
    PROVE  Foreseen' /\ todo' \in Seq(Orders)
<1>1. PICK x \in Stations, y \in Stations : Present(x) /\ Leads(x, todo, y) /\ Believed(y)
    BY DEF SoundInv, Foreseen
<1>2. Head(todo) \in Items /\ Tail(todo) \in Seq(Orders) /\ todo \in Seq(Items)
    BY HeadTypes DEF SoundInv
<1>3. PICK e \in Stations : e = Effect(x, Head(todo))  BY <1>2, EffectTypes
<1>4. Leads(e, todo', y)  BY <1>1, <1>2, <1>3, LeadsAfterHead
<1>5. Present(e)'  BY <1>1, <1>3
<1>6. Believed(y)'  BY <1>1 DEF Believed
<1>7. QED  BY <1>2, <1>4, <1>5, <1>6 DEF Foreseen

\* A call has begun, and its output fits what it makes of the driver's variables.
LEMMA OutputFits ==
    ASSUME NEW x \in Stations, Present(x), NEW out, NEW on, NEW m, Ends(x, out, on, m),
           UNCHANGED <<dsp, dma, lost>>, todo' = out, driver'.speaker_on = on,
           m.open => m.memory = given' /\ driver'.playing
    PROVE  Foreseen'
<1>1. PICK y \in Stations : Leads(x, out, y) /\ y.dsp.left = 0 /\ y.dsp.speaker = on /\ y.dma = m
    BY DEF Ends
<1>2. Present(x)'  BY DEF Present
<1>3. Believed(y)'  BY <1>1 DEF Believed
<1>4. QED  BY <1>1, <1>2, <1>3 DEF Foreseen

LEMMA BeginKeeps ==
    ASSUME SoundInv, NEW out \in Seq(Orders), NEW d \in Drivers, Begin(out, d), d.inserted,
           gate' \in BOOLEAN, data' \in BOOLEAN, pit' \in Nat, tone' \in Nat, slept' \in BOOLEAN,
           given' \in Sounds \cup {NoMemory}, ToneKept', blocks' \in Nat,
           blocks' = d.buffers + (IF d.beep_buffer THEN 1 ELSE 0),
           NEW x \in Stations, Present(x), NEW m, Ends(x, out, d.speaker_on, m),
           m.open => m.memory = given' /\ d.playing
    PROVE  SoundInv'
<1>1. /\ todo' = out /\ driver' = d /\ call' = "other"
      /\ present' = present /\ dsp' = dsp /\ dma' = dma /\ lost' = lost
    BY DEF Begin
<1>2. /\ todo' \in Seq(Items) /\ (todo' # <<>> => Tail(todo') \in Seq(Orders))
      /\ PollCounts'
    BY <1>1, OrdersQuiet
<1>3. SoundTypes'  BY <1>1, <1>2 DEF SoundInv, SoundTypes
<1>4. CallsOrdered'  BY <1>1 DEF CallsOrdered
<1>5. BlocksKept'  BY <1>1 DEF BlocksKept
<1>6. Foreseen'  BY <1>1, OutputFits
<1>7. QED  BY <1>2, <1>3, <1>4, <1>5, <1>6 DEF SoundInv

LEMMA SoundStart == Init => SoundInv
<1> SUFFICES ASSUME Init PROVE SoundInv  OBVIOUS
<1>1. /\ driver \in Drivers /\ driver.inserted = FALSE /\ driver.playing = FALSE
      /\ driver.speaker_on = FALSE /\ driver.beep_buffer = FALSE /\ driver.buffers = 0
    BY DEF Init, Drivers
<1>2. dma \in Channels /\ dma.open = FALSE  BY DEF Init, Channels
<1>3. todo = <<>> /\ <<>> \in Seq(Items)  BY DEF Init
<1>4. SoundTypes  BY <1>1, <1>2, <1>3, ResetTypes DEF Init, SoundTypes, Silence
<1>5. CallsOrdered  BY <1>1, <1>3 DEF Init, CallsOrdered
<1>6. ToneKept  BY DEF Init, ToneKept, Sounding, Silence
<1>7. BlocksKept  BY <1>1 DEF Init, BlocksKept
<1>8. PollCounts  BY <1>3 DEF PollCounts, HeadIs
<1>9. Foreseen
    <2> DEFINE x == [dsp |-> dsp, dma |-> dma]
    <2>1. x \in Stations /\ x.dsp = dsp /\ x.dma = dma  BY <1>2, <1>4 DEF Stations, SoundTypes
    <2>2. PICK y \in Stations : y.dsp = dsp /\ y.dma = dma  BY <2>1
    <2>3. Present(y)  BY <2>2 DEF Present
    <2>4. Believed(y)  BY <1>1, <1>2, <2>2, ResetTypes DEF Init, Believed
    <2>5. Leads(y, todo, y)  BY <1>3, LeadsNowhere
    <2>6. QED  BY <2>3, <2>4, <2>5 DEF Foreseen
<1>10. QED  BY <1>4, <1>5, <1>6, <1>7, <1>8, <1>9 DEF SoundInv

----------------------------------------------------------------------------
(* Output.                                                                   *)
\* What an item of output has to keep, when it is neither a sleep nor a poll.
LEMMA ItemOutKeeps ==
    ASSUME SoundInv, todo # <<>>, todo' = Tail(todo),
           UNCHANGED <<gate, data, pit, present, kernel, history>>,
           dsp' \in Dsps, dma' \in Channels, lost' \in BOOLEAN,
           \A x, e \in Stations : Present(x) /\ e = Effect(x, Head(todo)) => Present(e)'
    PROVE  SoundInv'
<1>1. Foreseen' /\ todo' \in Seq(Orders)  BY HeadOut DEF kernel, history
<1>2. todo' \in Seq(Items) /\ (todo' # <<>> => Tail(todo') \in Seq(Orders)) /\ PollCounts'
    BY <1>1, OrdersQuiet
<1>3. SoundTypes'  BY <1>2 DEF SoundInv, SoundTypes, kernel, history
<1>4. CallsOrdered'  BY DEF SoundInv, CallsOrdered, kernel
<1>5. ToneKept'  BY DEF SoundInv, ToneKept, Sounding, history
<1>6. BlocksKept'  BY DEF SoundInv, BlocksKept, kernel
<1>7. QED  BY <1>1, <1>2, <1>3, <1>4, <1>5, <1>6 DEF SoundInv

LEMMA DspWritten == ASSUME SoundInv, sb16_write_dsp PROVE SoundInv'
<1> DEFINE h == Head(todo)
<1>1. todo # <<>> /\ h.port = "dsp" /\ todo' = Tail(todo) /\ dma' = dma
    BY DEF sb16_write_dsp, HeadIs
<1>2. h \in Items /\ h.byte \in Byte /\ dsp \in Dsps /\ dma \in Channels /\ lost \in BOOLEAN
    BY <1>1, HeadTypes, ItemParts DEF SoundInv, SoundTypes
<1>3. ASSUME NEW x \in Stations, NEW e \in Stations, Present(x), e = Effect(x, h)
      PROVE  Present(e)'
    <2>1. e.dsp = Take(x.dsp, h.byte) /\ e.dma = x.dma  BY <1>1, <1>3 DEF Effect
    <2>2. x.dsp \in Dsps  BY DEF Stations
    <2>3. dma'.open => e.dma = dma'  BY <1>1, <1>3, <2>1 DEF Present
    <2>4. ~lost' => /\ e.dsp.left = dsp'.left /\ e.dsp.command = dsp'.command
                    /\ e.dsp.speaker = dsp'.speaker
        <3> SUFFICES ASSUME ~lost'
                     PROVE  /\ e.dsp.left = dsp'.left /\ e.dsp.command = dsp'.command
                            /\ e.dsp.speaker = dsp'.speaker
            OBVIOUS
        <3>1. ~lost /\ dsp' = Take(dsp, h.byte)  BY DEF sb16_write_dsp
        <3>2. x.dsp.left = dsp.left /\ x.dsp.command = dsp.command /\ x.dsp.speaker = dsp.speaker
            BY <1>3, <3>1 DEF Present
        <3>3. /\ Take(x.dsp, h.byte).left = Take(dsp, h.byte).left
              /\ Take(x.dsp, h.byte).command = Take(dsp, h.byte).command
              /\ Take(x.dsp, h.byte).speaker = Take(dsp, h.byte).speaker
            BY <1>2, <2>2, <3>2, ModeIrrelevant
        <3>4. QED  BY <2>1, <3>1, <3>3
    <2>5. QED  BY <2>3, <2>4 DEF Present
<1>4. dsp' \in Dsps /\ lost' \in BOOLEAN
    BY <1>2, TakeTypes DEF sb16_write_dsp
<1>5. UNCHANGED <<gate, data, pit, present, kernel, history>>  BY DEF sb16_write_dsp
<1>6. dma' \in Channels  BY <1>1, <1>2
<1>7. QED  BY <1>1, <1>3, <1>4, <1>5, <1>6, ItemOutKeeps

LEMMA ResetWritten == ASSUME SoundInv, WriteResetPort PROVE SoundInv'
<1> DEFINE h == Head(todo)
<1>1. todo # <<>> /\ h.port = "reset" /\ todo' = Tail(todo) /\ dma' = dma /\ dsp' = Reset /\ lost' = FALSE
    BY DEF WriteResetPort, HeadIs
<1>2. dma' \in Channels /\ dsp' \in Dsps /\ lost' \in BOOLEAN
    BY <1>1, ResetTypes DEF SoundInv, SoundTypes
<1>3. ASSUME NEW x \in Stations, NEW e \in Stations, Present(x), e = Effect(x, h)
      PROVE  Present(e)'
    <2>1. e.dsp = Reset /\ e.dma = x.dma  BY <1>1, <1>3 DEF Effect
    <2>2. QED  BY <1>1, <1>3, <2>1 DEF Present
<1>4. UNCHANGED <<gate, data, pit, present, kernel, history>>  BY DEF WriteResetPort
<1>5. QED  BY <1>1, <1>2, <1>3, <1>4, ItemOutKeeps

LEMMA DmaWritten == ASSUME SoundInv, WriteDma PROVE SoundInv'
<1> DEFINE h == Head(todo)
<1>1. /\ todo # <<>> /\ h.port = "dma" /\ todo' = Tail(todo) /\ dsp' = dsp /\ lost' = lost
      /\ dma' = IF h.open THEN [open |-> TRUE, memory |-> h.memory] ELSE [dma EXCEPT !.open = FALSE]
    BY DEF WriteDma, HeadIs
<1>2. h.open \in BOOLEAN /\ (h.open => h.memory \in Sounds) /\ dma \in Channels
    BY <1>1, HeadTypes, ItemParts DEF SoundInv, SoundTypes
<1>3. dma' \in Channels /\ (~h.open => dma'.open = FALSE)
    <2>1. CASE h.open
        <3>1. dma' = [open |-> TRUE, memory |-> h.memory]  BY <1>1, <2>1
        <3>2. QED  BY <1>2, <2>1, <3>1 DEF Channels
    <2>2. CASE ~h.open
        <3>1. dma' = [dma EXCEPT !.open = FALSE]  BY <1>1, <2>2
        <3>2. QED  BY <1>2, <3>1 DEF Channels
    <2>3. QED  BY <2>1, <2>2
<1>4. ASSUME NEW x \in Stations, NEW e \in Stations, Present(x), e = Effect(x, h)
      PROVE  Present(e)'
    <2>1. e.dsp = x.dsp  BY <1>1, <1>4 DEF Effect
    <2>2. h.open => e.dma = dma'  BY <1>1, <1>4 DEF Effect
    <2>3. dma'.open => e.dma = dma'  BY <1>3, <2>2
    <2>4. QED  BY <1>1, <1>4, <2>1, <2>3 DEF Present
<1>5. UNCHANGED <<gate, data, pit, present, kernel, history>>  BY DEF WriteDma
<1>6. dsp' \in Dsps /\ lost' \in BOOLEAN  BY <1>1 DEF SoundInv, SoundTypes
<1>7. QED  BY <1>1, <1>3, <1>4, <1>5, <1>6, ItemOutKeeps

\* The timer's items do nothing to the DSP and the channel.
LEMMA TimerIdle ==
    ASSUME NEW x \in Stations, NEW item, item.port \in {"timer", "poll"}
    PROVE  Effect(x, item) = x
<1>1. Effect(x, item) = [dsp |-> x.dsp, dma |-> x.dma]  BY DEF Effect
<1>2. QED  BY <1>1 DEF Stations

\* The timer's item at the head gives way to a poll.
LEMMA PollAtHead ==
    ASSUME SoundInv, todo # <<>>, Head(todo).port \in {"timer", "poll"}, NEW poll \in Polls,
           todo' = <<poll>> \o Tail(todo), UNCHANGED <<dsp, dma, lost, driver, given>>
    PROVE  /\ todo' \in Seq(Items) /\ Tail(todo') = Tail(todo) /\ Tail(todo') \in Seq(Orders)
           /\ todo' # <<>> /\ Head(todo') = poll
           /\ Foreseen'
<1>1. Head(todo) \in Items /\ Tail(todo) \in Seq(Orders) /\ todo \in Seq(Items)
    BY HeadTypes DEF SoundInv
<1>2. poll \in Items /\ poll.port = "poll" /\ <<poll>> \in Seq(Items) /\ Tail(todo) \in Seq(Items)
    BY <1>1, OrdersAreItems DEF Items, Polls
<1>3. PICK x \in Stations, y \in Stations : Present(x) /\ Leads(x, todo, y) /\ Believed(y)
    BY DEF SoundInv, Foreseen
<1>4. Leads(x, Tail(todo), y)
    <2>1. Leads(Effect(x, Head(todo)), Tail(todo), y)  BY <1>1, <1>3, LeadsAfterHead
    <2>2. Effect(x, Head(todo)) = x  BY TimerIdle
    <2>3. QED  BY <2>1, <2>2
<1>5. Leads(x, <<poll>>, x)
    <2>1. Effect(x, poll) = x  BY <1>2, TimerIdle
    <2>2. QED  BY <1>2, <2>1, LeadsByOne
<1>6. Leads(x, todo', y)
    <2>1. Leads(x, <<poll>> \o Tail(todo), y)  BY <1>2, <1>4, <1>5, LeadsOn
    <2>2. QED  BY <2>1
<1>7. Foreseen'
    <2>1. Present(x)' /\ Believed(y)'  BY <1>3 DEF Present, Believed
    <2>2. QED  BY <1>6, <2>1 DEF Foreseen
<1>8. todo' \in Seq(Items) /\ todo' # <<>> /\ Head(todo') = poll /\ Tail(todo') = Tail(todo)
    <2> DEFINE t == Tail(todo)
    <2>1. t \in Seq(Items)  BY <1>2
    <2> HIDE DEF t
    <2>2. /\ <<poll>> \o t \in Seq(Items) /\ <<poll>> \o t # <<>> /\ Head(<<poll>> \o t) = poll
          /\ Tail(<<poll>> \o t) = t
        <3>1. PICK n \in Nat : Len(t) = n  BY <2>1
        <3>2. <<poll>> \o t \in Seq(Items) /\ Len(<<poll>> \o t) = n + 1  BY <1>2, <2>1, <3>1
        <3>3. (<<poll>> \o t)[1] = poll /\ \A i \in 1 .. n : (<<poll>> \o t)[i + 1] = t[i]
            BY <1>2, <2>1, <3>1
        <3>4. <<poll>> \o t # <<>>
            <4>1. Len(<<>>) = 0  OBVIOUS
            <4>2. QED  BY <3>2, <4>1
        <3>5. PICK u \in Seq(Items) : u = <<poll>> \o t  BY <3>2
        <3>6. /\ Tail(u) \in Seq(Items) /\ Len(Tail(u)) = n
              /\ \A i \in 1 .. n : Tail(u)[i] = u[i + 1]
            BY <3>2, <3>4, <3>5
        <3>7. Tail(u) = t  BY <2>1, <3>1, <3>3, <3>5, <3>6, SeqEqual
        <3>8. Head(u) = poll  BY <3>2, <3>3, <3>4, <3>5
        <3>9. QED  BY <3>2, <3>4, <3>5, <3>7, <3>8
    <2>3. QED  BY <2>2 DEF t
<1>9. QED  BY <1>1, <1>7, <1>8

LEMMA Slept == ASSUME SoundInv, sleep_ms PROVE SoundInv'
<1> DEFINE poll == [port |-> "poll", ms |-> Head(todo).ms, ticks |-> 0]
<1>1. /\ todo # <<>> /\ Head(todo).port = "timer" /\ todo' = <<poll>> \o Tail(todo)
      /\ pit' = Asked(Head(todo).ms) % Word /\ slept' = TRUE
      /\ UNCHANGED <<gate, data, present, dsp, dma, kernel, tone, lost, given>>
    BY DEF sleep_ms, HeadIs, Asked
<1>2. Head(todo).ms \in Nat \ {0}
    BY <1>1, HeadTypes, ItemParts DEF SoundInv
<1>3. PICK m \in Nat \ {0} : m = Head(todo).ms  BY <1>2
<1>4. poll = [port |-> "poll", ms |-> m, ticks |-> 0]  BY <1>3
<1> HIDE DEF poll
<1>5. poll \in Polls /\ poll.ms = m /\ poll.ticks = 0  BY <1>4 DEF Polls
<1>6. /\ todo' \in Seq(Items) /\ Tail(todo') \in Seq(Orders) /\ todo' # <<>> /\ Head(todo') = poll
      /\ Foreseen'
    BY <1>1, <1>5, PollAtHead DEF kernel
<1>7. pit' \in Nat
    <2>1. Asked(m) \in Nat  BY Constants DEF Asked
    <2>2. Asked(m) % Word \in Nat  BY <2>1, Constants
    <2>3. QED  BY <1>1, <1>3, <2>2
<1>8. SoundTypes'  BY <1>1, <1>6, <1>7 DEF SoundInv, SoundTypes, kernel
<1>9. CallsOrdered'
    <2>1. call' = call /\ driver' = driver  BY <1>1 DEF kernel
    <2>2. call # "none"  BY <1>1 DEF SoundInv, CallsOrdered
    <2>3. QED  BY <2>1, <2>2 DEF SoundInv, CallsOrdered
<1>10. ToneKept'  BY <1>1 DEF SoundInv, ToneKept, Sounding
<1>11. BlocksKept'  BY <1>1 DEF SoundInv, BlocksKept, kernel
<1>12. PollCounts'
    <2>1. Wave' \in Nat  BY <1>7, Constants DEF Wave
    <2>2. 0 <= (Wave' + 1) \div 2
        <3>1. \A w \in Nat : 0 <= (w + 1) \div 2  OBVIOUS
        <3>2. QED  BY <2>1, <3>1
    <2>3. QED  BY <1>1, <1>3, <1>5, <1>6, <2>2 DEF PollCounts
<1>13. QED  BY <1>6, <1>8, <1>9, <1>10, <1>11, <1>12 DEF SoundInv

\* While the output is high and the wave has two halves, its first half is not over.
LEMMA HighInFirstHalf ==
    ASSUME NEW count \in Nat, NEW ticks \in Nat, count > 1, ticks <= (count + 1) \div 2
    PROVE  /\ ticks % count < (count + 1) \div 2 => ticks + 1 <= (count + 1) \div 2
           /\ ~(ticks % count < (count + 1) \div 2) => ticks = (count + 1) \div 2
<1>1. (count + 1) \div 2 < count /\ (count + 1) \div 2 \in Nat  OBVIOUS
<1>2. PICK half \in Nat : half = (count + 1) \div 2  BY <1>1
<1>3. ticks % count = ticks
    <2>1. ticks < count  BY <1>1
    <2>2. \A c \in Nat, n \in Nat : n < c => n % c = n  OBVIOUS
    <2>3. QED  BY <2>1, <2>2
<1>4. QED  BY <1>2, <1>3

LEMMA CountedOn ==
    ASSUME NEW s \in Seq(Items), s # <<>>, Head(s) \in Polls,
           NEW poll, poll = [port |-> "poll", ms |-> Head(s).ms, ticks |-> Head(s).ticks + 1]
    PROVE  [s EXCEPT ![1].ticks = @ + 1] = <<poll>> \o Tail(s)
<1> DEFINE u == [s EXCEPT ![1].ticks = @ + 1]
<1>1. PICK n \in Nat : Len(s) = n + 1
    <2>1. Len(s) \in Nat /\ Len(s) # 0  OBVIOUS
    <2>2. Len(s) - 1 \in Nat /\ Len(s) = (Len(s) - 1) + 1  BY <2>1
    <2>3. QED  BY <2>2
<1>2. /\ Head(s) = s[1] /\ Tail(s) \in Seq(Items) /\ Len(Tail(s)) = n
      /\ \A i \in 1 .. n : Tail(s)[i] = s[i + 1]
      /\ DOMAIN s = 1 .. n + 1 /\ \A i \in 1 .. n + 1 : s[i] \in Items
    BY <1>1
<1>3. poll \in Items
    BY <1>2 DEF Items, Polls
<1>4. u[1] = poll
    <2>1. u[1] = [s[1] EXCEPT !.ticks = @ + 1]  BY <1>2
    <2>2. PICK m \in Nat, t \in Nat : s[1] = [port |-> "poll", ms |-> m, ticks |-> t]
        BY <1>2 DEF Polls
    <2>3. u[1] = [port |-> "poll", ms |-> m, ticks |-> t + 1]  BY <2>1, <2>2
    <2>4. QED  BY <1>2, <2>2, <2>3
<1>5. \A i \in 2 .. n + 1 : u[i] = s[i]  BY <1>2
<1>6. u \in Seq(Items) /\ Len(u) = n + 1
    <2>1. DOMAIN u = 1 .. n + 1 /\ u = [i \in 1 .. n + 1 |-> u[i]]  BY <1>2
    <2> HIDE DEF u
    <2>2. \A i \in 1 .. n + 1 : u[i] \in Items
        <3> SUFFICES ASSUME NEW i \in 1 .. n + 1 PROVE u[i] \in Items  OBVIOUS
        <3>1. i = 1 \/ i \in 2 .. n + 1  OBVIOUS
        <3>2. QED  BY <1>2, <1>3, <1>4, <1>5, <3>1
    <2>3. QED  BY <2>1, <2>2
<1> DEFINE v == <<poll>> \o Tail(s)
<1> HIDE DEF u
<1>7. v \in Seq(Items) /\ Len(v) = n + 1 /\ v[1] = poll /\ \A i \in 1 .. n : v[i + 1] = Tail(s)[i]
    BY <1>2, <1>3
<1> HIDE DEF v
<1>8. \A i \in 1 .. n + 1 : u[i] = v[i]
    <2> SUFFICES ASSUME NEW i \in 1 .. n + 1 PROVE u[i] = v[i]  OBVIOUS
    <2>1. CASE i = 1  BY <1>4, <1>7, <2>1
    <2>2. CASE i # 1
        <3>1. PICK j \in 1 .. n : i = j + 1
            <4>1. i - 1 \in 1 .. n /\ i = (i - 1) + 1  BY <2>2
            <4>2. QED  BY <4>1
        <3>2. i \in 2 .. n + 1  BY <2>2
        <3>3. QED  BY <1>2, <1>5, <1>7, <3>1, <3>2
    <2>3. QED  BY <2>1, <2>2
<1>9. u = v  BY <1>6, <1>7, <1>8, SeqEqual
<1>10. QED  BY <1>9 DEF u, v

\* The poll at the head: the sleep ends exactly when half a wave is over.
LEMMA HalfAWave ==
    ASSUME SoundInv, HeadIs("poll")
    PROVE  LET ticks == Head(todo).ticks
           IN  /\ Head(todo).ms \in Nat \ {0} /\ ticks \in Nat /\ Head(todo) \in Polls
               /\ (OutHigh(ticks) /\ gate /\ Wave > 1) => ticks + 1 <= (Wave + 1) \div 2
               /\ ~OutHigh(ticks) => Wave > 1 /\ ticks = (Wave + 1) \div 2
<1> DEFINE t == Head(todo).ticks
<1>1. /\ Head(todo).ms \in Nat \ {0} /\ t \in Nat /\ Head(todo) \in Polls
      /\ (Wave > 1 => t <= (Wave + 1) \div 2)
    BY HeadTypes, ItemParts DEF HeadIs, SoundInv, PollCounts
<1>2. Wave \in Nat /\ Wave > 0
    BY Constants DEF Wave, SoundInv, SoundTypes
<1>3. OutHigh(t) <=> (~gate \/ t % Wave < (Wave + 1) \div 2)
    BY DEF OutHigh, Wave
<1>4. PICK w \in Nat, n \in Nat : w = Wave /\ n = t  BY <1>1, <1>2
<1>5. w = 1 => n % w < (w + 1) \div 2
    OBVIOUS
<1>6. w > 1 => /\ n % w < (w + 1) \div 2 => n + 1 <= (w + 1) \div 2
               /\ ~(n % w < (w + 1) \div 2) => n = (w + 1) \div 2
    BY <1>1, <1>4, HighInFirstHalf
<1>7. w > 1 \/ w = 1  BY <1>2, <1>4
<1> HIDE DEF t
<1>8. /\ (OutHigh(t) /\ gate /\ Wave > 1) => t + 1 <= (Wave + 1) \div 2
      /\ ~OutHigh(t) => Wave > 1 /\ t = (Wave + 1) \div 2
    BY <1>3, <1>4, <1>5, <1>6, <1>7
<1>9. QED  BY <1>1, <1>8 DEF t

LEMMA Polled == ASSUME SoundInv, PollTimer PROVE SoundInv'
<1>1. /\ HeadIs("poll") /\ todo # <<>> /\ Head(todo).port = "poll"
      /\ UNCHANGED <<gate, data, pit, present, dsp, dma, kernel, history, lost>>
    BY DEF PollTimer, HeadIs
<1>2. /\ Head(todo).ms \in Nat \ {0} /\ Head(todo).ticks \in Nat /\ Head(todo) \in Polls
    BY <1>1, HalfAWave
<1>3. CASE OutHigh(Head(todo).ticks)
    <2> DEFINE poll == [port |-> "poll", ms |-> Head(todo).ms, ticks |-> Head(todo).ticks + 1]
    <2>1. poll \in Polls /\ poll.ms = Head(todo).ms /\ poll.ticks = Head(todo).ticks + 1
        BY <1>2 DEF Polls
    <2>2. todo' = [todo EXCEPT ![1].ticks = @ + 1] /\ gate
        BY <1>3 DEF PollTimer
    <2>3. todo' = <<poll>> \o Tail(todo)
        <3>1. todo \in Seq(Items)  BY DEF SoundInv, SoundTypes
        <3>2. QED  BY <1>1, <1>2, <2>2, <3>1, CountedOn
    <2> HIDE DEF poll
    <2>4. /\ todo' \in Seq(Items) /\ Tail(todo') \in Seq(Orders) /\ todo' # <<>> /\ Head(todo') = poll
          /\ Foreseen'
        BY <1>1, <2>1, <2>3, PollAtHead DEF kernel, history
    <2>5. SoundTypes'  BY <1>1, <2>4 DEF SoundInv, SoundTypes, kernel, history
    <2>6. CallsOrdered'
        <3>1. call' = call /\ driver' = driver  BY <1>1 DEF kernel
        <3>2. call # "none"  BY <1>1 DEF SoundInv, CallsOrdered
        <3>3. QED  BY <3>1, <3>2 DEF SoundInv, CallsOrdered
    <2>7. ToneKept'  BY <1>1 DEF SoundInv, ToneKept, Sounding, history
    <2>8. BlocksKept'  BY <1>1 DEF SoundInv, BlocksKept, kernel
    <2>9. PollCounts'
        <3>1. Wave' = Wave /\ pit' = pit  BY <1>1 DEF Wave
        <3>2. Wave > 1 => Head(todo).ticks + 1 <= (Wave + 1) \div 2
            BY <1>1, <1>3, <2>2, HalfAWave
        <3>3. pit = Asked(Head(todo).ms) % Word  BY <1>1 DEF SoundInv, PollCounts
        <3>4. Wave' > 1 => Head(todo)'.ticks <= (Wave' + 1) \div 2
            BY <2>1, <2>4, <3>1, <3>2
        <3>5. pit' = Asked(Head(todo)'.ms) % Word
            BY <2>1, <2>4, <3>1, <3>3
        <3>6. QED  BY <3>4, <3>5 DEF PollCounts, Asked
    <2>10. QED  BY <2>4, <2>5, <2>6, <2>7, <2>8, <2>9 DEF SoundInv
<1>4. CASE ~OutHigh(Head(todo).ticks)
    <2>1. todo' = Tail(todo)  BY <1>4 DEF PollTimer
    <2>2. dsp' \in Dsps /\ dma' \in Channels /\ lost' \in BOOLEAN
        BY <1>1 DEF SoundInv, SoundTypes
    <2>3. ASSUME NEW x \in Stations, NEW e \in Stations, Present(x), e = Effect(x, Head(todo))
          PROVE  Present(e)'
        <3>1. e = x  BY <1>1, <2>3, TimerIdle
        <3>2. QED  BY <1>1, <2>3, <3>1 DEF Present
    <2>4. UNCHANGED <<gate, data, pit, present, kernel, history>>  BY <1>1
    <2>5. QED  BY <1>1, <2>1, <2>2, <2>3, <2>4, ItemOutKeeps
<1>5. QED  BY <1>3, <1>4

----------------------------------------------------------------------------
(* The calls.                                                                *)
LEMMA Returned == ASSUME SoundInv, Return PROVE SoundInv'
<1>1. /\ todo = <<>> /\ call' = "none"
      /\ UNCHANGED <<gate, data, pit, present, dsp, dma, driver, blocks, todo, lost, history>>
    BY DEF Return
<1>2. SoundTypes'  BY <1>1 DEF SoundInv, SoundTypes, history
<1>3. CallsOrdered'  BY <1>1 DEF SoundInv, CallsOrdered
<1>4. ToneKept' /\ BlocksKept'  BY <1>1 DEF SoundInv, ToneKept, Sounding, BlocksKept, history
<1>5. PollCounts'  BY <1>1 DEF PollCounts, HeadIs
<1>6. Foreseen'  BY <1>1 DEF SoundInv, Foreseen, Present, Believed, history
<1>7. QED  BY <1>2, <1>3, <1>4, <1>5, <1>6 DEF SoundInv

LEMMA Ended == ASSUME SoundInv, BufferEnds PROVE SoundInv'
<1>1. /\ dma' = [dma EXCEPT !.open = FALSE] /\ dma \in Channels /\ dsp \in Dsps
      /\ UNCHANGED <<gate, data, pit, present, kernel, todo, lost, history>>
    BY DEF BufferEnds, SoundInv, SoundTypes
<1>2. dma' \in Channels /\ dma'.open = FALSE  BY <1>1 DEF Channels
<1>3. /\ dsp' \in Dsps /\ dsp'.left = dsp.left /\ dsp'.command = dsp.command
      /\ dsp'.speaker = dsp.speaker
    <2>1. PICK m \in Byte : dsp' = SetMode(dsp, m)
        <3>1. dsp' = SetMode(dsp, IF dsp.mode = AutoInit THEN dsp.mode ELSE 0)
            BY DEF BufferEnds, SetMode
        <3>2. dsp.mode \in Byte /\ 0 \in Byte  BY <1>1 DEF Dsps, Byte
        <3>3. (IF dsp.mode = AutoInit THEN dsp.mode ELSE 0) \in Byte  BY <3>2
        <3>4. QED  BY <3>1, <3>3
    <2>2. QED  BY <1>1, <2>1 DEF SetMode, Dsps
<1>4. SoundTypes'  BY <1>1, <1>2, <1>3 DEF SoundInv, SoundTypes, kernel, history
<1>5. CallsOrdered' /\ ToneKept' /\ BlocksKept'
    BY <1>1 DEF SoundInv, CallsOrdered, ToneKept, Sounding, BlocksKept, kernel, history
<1>6. PollCounts'  BY <1>1 DEF SoundInv, PollCounts, HeadIs, Wave
<1>7. Foreseen'
    <2>1. PICK x \in Stations, y \in Stations : Present(x) /\ Leads(x, todo, y) /\ Believed(y)
        BY DEF SoundInv, Foreseen
    <2>2. Present(x)'  BY <1>1, <1>2, <1>3, <2>1 DEF Present
    <2>3. Believed(y)'  BY <1>1, <2>1 DEF Believed, kernel, history
    <2>4. Leads(x, todo', y)  BY <1>1, <2>1
    <2>5. QED  BY <2>2, <2>3, <2>4 DEF Foreseen
<1>8. QED  BY <1>4, <1>5, <1>6, <1>7 DEF SoundInv

\* A step of the initialisation, whose output fits what it makes of the driver's variables.
LEMMA InitialisationKeeps ==
    ASSUME SoundInv, todo' \in Seq(Orders), driver' \in Drivers, blocks' \in Nat,
           call' \in {"none", "reset", "detect", "other"}, CallsOrdered', BlocksKept', Foreseen',
           UNCHANGED <<gate, data, pit, present, dsp, dma, lost, history>>
    PROVE  SoundInv'
<1>1. todo' \in Seq(Items) /\ (todo' # <<>> => Tail(todo') \in Seq(Orders)) /\ PollCounts'
    BY OrdersQuiet
<1>2. SoundTypes'  BY <1>1 DEF SoundInv, SoundTypes, history
<1>3. ToneKept'  BY DEF SoundInv, ToneKept, Sounding, history
<1>4. QED  BY <1>1, <1>2, <1>3 DEF SoundInv

LEMMA Inserted == ASSUME SoundInv, audio_init PROVE SoundInv'
<1>1. /\ ~driver.inserted /\ driver' = [driver EXCEPT !.inserted = TRUE] /\ call' = "reset"
      /\ todo' = sb16_reset
      /\ UNCHANGED <<gate, data, pit, present, dsp, dma, blocks, lost, history>>
    BY DEF audio_init
<1>2. driver \in Drivers /\ todo = <<>> /\ blocks \in Nat
    BY <1>1 DEF SoundInv, SoundTypes, CallsOrdered
<1>3. ~driver.playing /\ ~driver.speaker_on /\ driver.buffers = 0 /\ ~driver.beep_buffer
    BY <1>1 DEF SoundInv, CallsOrdered
<1>4. /\ driver' \in Drivers /\ driver'.inserted /\ driver'.playing = driver.playing
      /\ driver'.speaker_on = FALSE /\ driver'.buffers = driver.buffers
      /\ driver'.beep_buffer = driver.beep_buffer
    BY <1>1, <1>2, <1>3 DEF Drivers
<1>5. PICK x \in Stations : Present(x) /\ Believed(x)  BY <1>2, AtRest DEF SoundInv
<1>6. sb16_reset \in Seq(Orders) /\ Ends(x, sb16_reset, FALSE, x.dma)  BY ResetSent
<1>7. ~x.dma.open  BY <1>3, <1>5 DEF Believed
<1>8. Foreseen'  BY <1>1, <1>4, <1>5, <1>6, <1>7, OutputFits
<1>9. CallsOrdered' /\ BlocksKept'
    BY <1>1, <1>3, <1>4 DEF SoundInv, CallsOrdered, BlocksKept
<1>10. QED  BY <1>1, <1>2, <1>4, <1>6, <1>8, <1>9, InitialisationKeeps

LEMMA ResetAnswered == ASSUME SoundInv, AfterReset PROVE SoundInv'
<1>1. /\ call = "reset" /\ todo = <<>> /\ call' \in {"detect", "none"}
      /\ todo' = (IF call' = "detect" THEN <<Dsp(GetVersion)>> ELSE <<>>)
      /\ UNCHANGED <<gate, data, pit, present, dsp, dma, driver, blocks, lost, history>>
    BY DEF AfterReset
<1>2. driver.inserted /\ driver \in Drivers /\ blocks \in Nat
    BY <1>1 DEF SoundInv, SoundTypes, CallsOrdered
<1>3. PICK x \in Stations : Present(x) /\ Believed(x)  BY <1>1, AtRest DEF SoundInv
<1>4. /\ todo' \in Seq(Orders) /\ Ends(x, todo', x.dsp.speaker, x.dma)
    <2>1. CASE call' = "detect"
        <3>1. /\ <<Dsp(GetVersion)>> \in Seq(Orders)
              /\ Ends(x, <<Dsp(GetVersion)>>, x.dsp.speaker, x.dma)
            BY <1>3, VersionAsked DEF Believed
        <3>2. QED  BY <1>1, <2>1, <3>1
    <2>2. CASE call' # "detect"
        <3>1. todo' = <<>> /\ <<>> \in Seq(Orders)  BY <1>1, <2>2
        <3>2. Ends(x, <<>>, x.dsp.speaker, x.dma)
            BY <1>3, LeadsNowhere DEF Believed, Ends
        <3>3. QED  BY <3>1, <3>2
    <2>3. QED  BY <2>1, <2>2
<1>5. Foreseen'
    <2>1. x.dsp.speaker = driver'.speaker_on
          /\ (x.dma.open => x.dma.memory = given' /\ driver'.playing)
        BY <1>1, <1>3 DEF Believed, history
    <2>2. QED  BY <1>1, <1>3, <1>4, <2>1, OutputFits
<1>6. CallsOrdered' /\ BlocksKept'
    BY <1>1, <1>2 DEF SoundInv, CallsOrdered, BlocksKept
<1>7. QED  BY <1>1, <1>2, <1>4, <1>5, <1>6, InitialisationKeeps

LEMMA VersionAnswered == ASSUME SoundInv, AfterDetect PROVE SoundInv'
<1>1. /\ call = "detect" /\ todo = <<>>
      /\ UNCHANGED <<gate, data, pit, present, dsp, dma, lost, history>>
    BY DEF AfterDetect
<1>2. driver.inserted /\ driver \in Drivers /\ blocks \in Nat
    BY <1>1 DEF SoundInv, SoundTypes, CallsOrdered
<1>3. ~driver.playing /\ ~driver.speaker_on /\ driver.buffers = 0 /\ ~driver.beep_buffer
    BY <1>1 DEF SoundInv, CallsOrdered
<1>4. PICK x \in Stations : Present(x) /\ Believed(x)  BY <1>1, AtRest DEF SoundInv
<1>5. ~x.dma.open /\ x.dsp.left = 0 /\ ~x.dsp.speaker /\ x.dsp.speaker = driver.speaker_on
    BY <1>3, <1>4 DEF Believed
<1>6. CASE call' = "none" /\ UNCHANGED <<driver, todo, blocks>>
    <2>1. todo' \in Seq(Orders)  BY <1>1, <1>6
    <2>2. Foreseen'
        <3>1. Ends(x, <<>>, x.dsp.speaker, x.dma)
            BY <1>4, LeadsNowhere DEF Believed, Ends
        <3>2. QED  BY <1>1, <1>4, <1>5, <1>6, <3>1, OutputFits
    <2>3. CallsOrdered' /\ BlocksKept'
        BY <1>1, <1>2, <1>6 DEF SoundInv, CallsOrdered, BlocksKept
    <2>4. QED  BY <1>1, <1>2, <1>6, <2>1, <2>2, <2>3, InitialisationKeeps
<1>7. CASE /\ driver' \in BuffersCreated([driver EXCEPT !.initialized = TRUE, !.speaker_on = TRUE])
           /\ call' = "other" /\ todo' = Speaker(TRUE)
           /\ blocks' = blocks + driver'.buffers
    <2>1. PICK n \in 0 .. Buffers :
            driver' = [[driver EXCEPT !.initialized = TRUE, !.speaker_on = TRUE] EXCEPT !.buffers = n]
        BY <1>7 DEF BuffersCreated
    <2>2. n \in Nat  BY Constants
    <2>3. /\ driver' \in Drivers /\ driver'.inserted = driver.inserted /\ driver'.speaker_on = TRUE
          /\ driver'.buffers = n /\ driver'.beep_buffer = driver.beep_buffer
        BY <1>2, <2>1, <2>2 DEF Drivers
    <2>4. Speaker(TRUE) \in Seq(Orders) /\ Ends(x, Speaker(TRUE), TRUE, x.dma)
        BY <1>5, SpeakerSent
    <2>5. Foreseen'  BY <1>1, <1>4, <1>5, <1>7, <2>3, <2>4, OutputFits
    <2>6. blocks' \in Nat  BY <1>2, <1>7, <2>2, <2>3
    <2>7. CallsOrdered'  BY <1>2, <1>7, <2>3 DEF CallsOrdered
    <2>8. BlocksKept'  BY <1>3, <1>7, <2>2, <2>3 DEF SoundInv, BlocksKept
    <2>9. QED  BY <1>1, <1>7, <2>3, <2>4, <2>5, <2>6, <2>7, <2>8, InitialisationKeeps
<1>8. QED  BY <1>6, <1>7 DEF AfterDetect

\* The driver's variables after a stop.
LEMMA AfterStop ==
    ASSUME driver \in Drivers
    PROVE  /\ Stopped \in Drivers /\ ~Stopped.playing /\ Stopped.inserted = driver.inserted
           /\ Stopped.speaker_on = driver.speaker_on /\ Stopped.initialized = driver.initialized
           /\ Stopped.buffers = driver.buffers /\ Stopped.beep_buffer = driver.beep_buffer
           /\ BeepStopped \in Drivers /\ ~BeepStopped.playing
           /\ BeepStopped.inserted = driver.inserted
           /\ BeepStopped.speaker_on = driver.speaker_on
           /\ BeepStopped.buffers = driver.buffers /\ ~BeepStopped.beep_buffer
<1>1. /\ Stopped \in Drivers /\ ~Stopped.playing /\ Stopped.inserted = driver.inserted
      /\ Stopped.speaker_on = driver.speaker_on /\ Stopped.initialized = driver.initialized
      /\ Stopped.buffers = driver.buffers /\ Stopped.beep_buffer = driver.beep_buffer
    BY DEF Stopped, Drivers
<1>2. /\ BeepStopped \in Drivers /\ BeepStopped.playing = Stopped.playing
      /\ BeepStopped.inserted = Stopped.inserted /\ BeepStopped.speaker_on = Stopped.speaker_on
      /\ BeepStopped.buffers = Stopped.buffers /\ ~BeepStopped.beep_buffer
    <2> HIDE DEF Stopped
    <2>1. QED  BY <1>1 DEF BeepStopped, Drivers
<1>3. QED  BY <1>1, <1>2

\* A call begins with the state at rest, and stopping leaves the channel closed.
LEMMA BeginsAtRest ==
    ASSUME SoundInv, call = "none", driver.inserted
    PROVE  /\ driver \in Drivers /\ todo = <<>> /\ blocks \in Nat
           /\ gate \in BOOLEAN /\ data \in BOOLEAN /\ pit \in Nat /\ tone \in Nat /\ slept \in BOOLEAN
           /\ given \in Sounds \cup {NoMemory} /\ ToneKept
           /\ blocks = driver.buffers + (IF driver.beep_buffer THEN 1 ELSE 0)
           /\ driver.buffers \in Nat /\ driver.beep_buffer \in BOOLEAN
           /\ BlocksWithoutBeep = driver.buffers
           /\ \E x \in Stations :
                /\ Present(x) /\ x.dsp.left = 0 /\ x.dsp.speaker = driver.speaker_on
                /\ x.dma.open => x.dma.memory = given /\ driver.playing
                /\ StopOutput \in Seq(Orders)
                /\ \E m : Ends(x, StopOutput, driver.speaker_on, m) /\ ~m.open
<1>1. /\ driver \in Drivers /\ todo = <<>> /\ blocks \in Nat
      /\ gate \in BOOLEAN /\ data \in BOOLEAN /\ pit \in Nat /\ tone \in Nat /\ slept \in BOOLEAN
      /\ given \in Sounds \cup {NoMemory} /\ ToneKept
      /\ blocks = driver.buffers + (IF driver.beep_buffer THEN 1 ELSE 0)
    BY DEF SoundInv, SoundTypes, CallsOrdered, BlocksKept
<1>2. driver.buffers \in Nat /\ driver.beep_buffer \in BOOLEAN  BY <1>1 DEF Drivers
<1>3. BlocksWithoutBeep = driver.buffers  BY <1>1, <1>2 DEF BlocksWithoutBeep
<1>4. PICK x \in Stations : Present(x) /\ Believed(x)  BY <1>1, AtRest DEF SoundInv
<1>5. /\ x.dsp.left = 0 /\ x.dsp.speaker = driver.speaker_on
      /\ x.dma.open => x.dma.memory = given /\ driver.playing
    BY <1>4 DEF Believed
<1>6. /\ StopOutput \in Seq(Orders)
      /\ Ends(x, StopOutput, driver.speaker_on,
              IF driver.playing THEN [x.dma EXCEPT !.open = FALSE] ELSE x.dma)
    BY <1>5, StopSent
<1>7. \E m : Ends(x, StopOutput, driver.speaker_on, m) /\ ~m.open
    <2>1. CASE driver.playing
        <3>1. x.dma \in Channels  BY DEF Stations
        <3>2. [x.dma EXCEPT !.open = FALSE].open = FALSE  BY <3>1 DEF Channels
        <3>3. QED  BY <1>6, <2>1, <3>2
    <2>2. CASE ~driver.playing
        BY <1>5, <1>6, <2>2
    <2>3. QED  BY <2>1, <2>2
<1>8. QED  BY <1>1, <1>2, <1>3, <1>4, <1>5, <1>6, <1>7

\* The driver with its speaker on.
LEMMA SpeakerSet ==
    ASSUME NEW d \in Drivers
    PROVE  LET e == [d EXCEPT !.speaker_on = TRUE]
           IN  /\ e \in Drivers /\ e.speaker_on = TRUE /\ e.inserted = d.inserted
               /\ e.playing = d.playing /\ e.buffers = d.buffers /\ e.beep_buffer = d.beep_buffer
BY DEF Drivers

LEMMA PlayKeeps == ASSUME SoundInv, Play PROVE SoundInv'
<1> DEFINE d == [driver EXCEPT !.speaker_on = TRUE]
<1>1. /\ Begin(Speaker(TRUE), d) /\ call = "none" /\ driver.inserted
      /\ UNCHANGED <<gate, data, pit, blocks, history>>
    BY DEF Play, Begin
<1>2. driver \in Drivers  BY <1>1, BeginsAtRest
<1>3. d \in Drivers /\ d.speaker_on = TRUE /\ d.inserted = driver.inserted
      /\ d.playing = driver.playing /\ d.buffers = driver.buffers /\ d.beep_buffer = driver.beep_buffer
    BY <1>2, SpeakerSet
<1> HIDE DEF d
<1>4. PICK x \in Stations :
        /\ Present(x) /\ x.dsp.left = 0
        /\ x.dma.open => x.dma.memory = given /\ driver.playing
    BY <1>1, BeginsAtRest
<1>5. Speaker(TRUE) \in Seq(Orders) /\ Ends(x, Speaker(TRUE), TRUE, x.dma)  BY <1>4, SpeakerSent
<1>6. ToneKept'  BY <1>1 DEF SoundInv, ToneKept, Sounding, history
<1>7. /\ gate' \in BOOLEAN /\ data' \in BOOLEAN /\ pit' \in Nat /\ tone' \in Nat /\ slept' \in BOOLEAN
      /\ given' = given /\ given \in Sounds \cup {NoMemory} /\ blocks' \in Nat
      /\ blocks' = d.buffers + (IF d.beep_buffer THEN 1 ELSE 0)
    BY <1>1, <1>3, BeginsAtRest DEF history
<1>8. QED  BY <1>1, <1>3, <1>4, <1>5, <1>6, <1>7, BeginKeeps

LEMMA ResetKeeps == ASSUME SoundInv, ResetDevice PROVE SoundInv'
<1> DEFINE d == [driver EXCEPT !.speaker_on = TRUE]
           out == sb16_reset \o Speaker(TRUE)
<1>1. /\ Begin(out, d) /\ call = "none" /\ driver.inserted
      /\ UNCHANGED <<gate, data, pit, blocks, history>>
    BY DEF ResetDevice, Begin
<1>2. driver \in Drivers  BY <1>1, BeginsAtRest
<1>3. d \in Drivers /\ d.speaker_on = TRUE /\ d.inserted = driver.inserted
      /\ d.playing = driver.playing /\ d.buffers = driver.buffers /\ d.beep_buffer = driver.beep_buffer
    BY <1>2, SpeakerSet
<1> HIDE DEF d
<1>4. PICK x \in Stations :
        /\ Present(x) /\ x.dsp.left = 0
        /\ x.dma.open => x.dma.memory = given /\ driver.playing
    BY <1>1, BeginsAtRest
<1>5. out \in Seq(Orders) /\ Ends(x, out, TRUE, x.dma)
    <2>1. sb16_reset \in Seq(Orders) /\ Ends(x, sb16_reset, FALSE, x.dma)  BY ResetSent
    <2>2. PICK on \in BOOLEAN : on = TRUE  OBVIOUS
    <2>3. /\ sb16_reset \o Speaker(on) \in Seq(Orders)
          /\ Ends(x, sb16_reset \o Speaker(on), on, x.dma)
        BY <2>1, SpeakerSentAfter
    <2>4. QED  BY <2>2, <2>3
<1> HIDE DEF out
<1>6. ToneKept'  BY <1>1 DEF SoundInv, ToneKept, Sounding, history
<1>7. /\ gate' \in BOOLEAN /\ data' \in BOOLEAN /\ pit' \in Nat /\ tone' \in Nat /\ slept' \in BOOLEAN
      /\ given' = given /\ given \in Sounds \cup {NoMemory} /\ blocks' \in Nat
      /\ blocks' = d.buffers + (IF d.beep_buffer THEN 1 ELSE 0)
    BY <1>1, <1>3, BeginsAtRest DEF history
<1>8. QED  BY <1>1, <1>3, <1>4, <1>5, <1>6, <1>7, BeginKeeps

LEMMA PauseKeeps == ASSUME SoundInv, Pause PROVE SoundInv'
<1>1. /\ Begin(StopOutput, Stopped) /\ call = "none" /\ driver.inserted /\ given' = NoMemory
      /\ UNCHANGED <<gate, data, pit, blocks, tone, slept>>
    BY DEF Pause, Begin
<1>2. /\ Stopped \in Drivers /\ Stopped.inserted /\ Stopped.speaker_on = driver.speaker_on
      /\ Stopped.buffers = driver.buffers /\ Stopped.beep_buffer = driver.beep_buffer
    BY <1>1, BeginsAtRest, AfterStop
<1>3. PICK x \in Stations :
        /\ Present(x) /\ StopOutput \in Seq(Orders)
        /\ \E m : Ends(x, StopOutput, driver.speaker_on, m) /\ ~m.open
    BY <1>1, BeginsAtRest
<1>4. PICK m : Ends(x, StopOutput, Stopped.speaker_on, m) /\ ~m.open  BY <1>2, <1>3
<1>5. ToneKept'  BY <1>1 DEF SoundInv, ToneKept, Sounding
<1>6. /\ gate' \in BOOLEAN /\ data' \in BOOLEAN /\ pit' \in Nat /\ tone' \in Nat /\ slept' \in BOOLEAN
      /\ given' \in Sounds \cup {NoMemory} /\ blocks' \in Nat
      /\ blocks' = Stopped.buffers + (IF Stopped.beep_buffer THEN 1 ELSE 0)
    BY <1>1, <1>2, BeginsAtRest
<1>7. QED  BY <1>1, <1>2, <1>3, <1>4, <1>5, <1>6, BeginKeeps

LEMMA StopKeeps == ASSUME SoundInv, Stop PROVE SoundInv'
<1>1. /\ Begin(StopOutput, BeepStopped) /\ call = "none" /\ driver.inserted /\ given' = NoMemory
      /\ gate' = FALSE /\ data' = FALSE /\ tone' = 0 /\ UNCHANGED <<pit, slept>>
      /\ blocks' = BlocksWithoutBeep
    BY DEF Stop, Begin, Silence
<1>2. /\ BeepStopped \in Drivers /\ BeepStopped.inserted /\ BeepStopped.speaker_on = driver.speaker_on
      /\ BeepStopped.buffers = driver.buffers /\ ~BeepStopped.beep_buffer
    BY <1>1, BeginsAtRest, AfterStop
<1>3. PICK x \in Stations :
        /\ Present(x) /\ StopOutput \in Seq(Orders)
        /\ \E m : Ends(x, StopOutput, driver.speaker_on, m) /\ ~m.open
    BY <1>1, BeginsAtRest
<1>4. PICK m : Ends(x, StopOutput, BeepStopped.speaker_on, m) /\ ~m.open  BY <1>2, <1>3
<1>5. ToneKept'  BY <1>1 DEF ToneKept, Sounding, Silence
<1>6. /\ gate' \in BOOLEAN /\ data' \in BOOLEAN /\ pit' \in Nat /\ tone' \in Nat /\ slept' \in BOOLEAN
      /\ given' \in Sounds \cup {NoMemory} /\ blocks' \in Nat
      /\ blocks' = BeepStopped.buffers + (IF BeepStopped.beep_buffer THEN 1 ELSE 0)
    <2>1. /\ pit \in Nat /\ tone' \in Nat /\ slept \in BOOLEAN /\ driver.buffers \in Nat
          /\ BlocksWithoutBeep = driver.buffers
        BY <1>1, BeginsAtRest
    <2>2. gate' \in BOOLEAN /\ data' \in BOOLEAN  BY <1>1
    <2>3. blocks' = driver.buffers  BY <1>1, <2>1
    <2>4. BeepStopped.buffers + (IF BeepStopped.beep_buffer THEN 1 ELSE 0) = driver.buffers
        BY <1>2, <2>1
    <2>5. QED  BY <1>1, <2>1, <2>2, <2>3, <2>4
<1>7. QED  BY <1>1, <1>2, <1>3, <1>4, <1>5, <1>6, BeginKeeps

\* Calls that send nothing, or only sleep, and leave the driver's variables alone.
LEMMA BeepKeeps == ASSUME SoundInv, NEW divisor \in Tones, Beep(divisor) PROVE SoundInv'
<1>1. /\ Begin(<<>>, driver) /\ call = "none" /\ driver.inserted /\ gate' = TRUE /\ data' = TRUE
      /\ pit' = divisor /\ tone' = divisor /\ slept' = FALSE /\ UNCHANGED <<blocks, given>>
    BY DEF Beep, Begin, OpenSpeaker
<1>2. divisor \in Nat /\ divisor # 0  BY Constants
<1>3. PICK x \in Stations :
        /\ Present(x) /\ x.dsp.left = 0 /\ x.dsp.speaker = driver.speaker_on
        /\ x.dma.open => x.dma.memory = given /\ driver.playing
    BY <1>1, BeginsAtRest
<1>4. <<>> \in Seq(Orders) /\ Ends(x, <<>>, driver.speaker_on, x.dma)
    BY <1>3, LeadsNowhere DEF Ends
<1>5. ToneKept'  BY <1>1, <1>2 DEF ToneKept, Sounding, Silence
<1>6. /\ driver \in Drivers /\ given' = given /\ given \in Sounds \cup {NoMemory} /\ blocks' \in Nat
      /\ blocks' = driver.buffers + (IF driver.beep_buffer THEN 1 ELSE 0)
    BY <1>1, BeginsAtRest
<1>7. QED  BY <1>1, <1>2, <1>3, <1>4, <1>5, <1>6, BeginKeeps

LEMMA WaitKeeps == ASSUME SoundInv, NEW ms \in Delays, WaitFrame(ms) PROVE SoundInv'
<1>1. /\ Begin(<<Sleep(ms)>>, driver) /\ call = "none" /\ driver.inserted
      /\ UNCHANGED <<gate, data, pit, blocks, history>>
    BY DEF WaitFrame, Begin
<1>2. Sleep(ms) \in Orders /\ Sleep(ms).port = "timer" /\ ms \in Nat \ {0}
    BY Constants DEF Orders, Sleep
<1>3. PICK x \in Stations :
        /\ Present(x) /\ x.dsp.left = 0 /\ x.dsp.speaker = driver.speaker_on
        /\ x.dma.open => x.dma.memory = given /\ driver.playing
    BY <1>1, BeginsAtRest
<1>4. <<Sleep(ms)>> \in Seq(Orders) /\ Ends(x, <<Sleep(ms)>>, driver.speaker_on, x.dma)
    <2>1. PICK s : s = Sleep(ms)  OBVIOUS
    <2>2. s \in Orders /\ s \in Items /\ s.port = "timer"  BY <1>2, <2>1, OrdersAreItems
    <2>3. Effect(x, s) = x  BY <2>2, TimerIdle
    <2>4. Leads(x, <<s>>, x)  BY <2>2, <2>3, LeadsByOne
    <2>5. <<s>> \in Seq(Orders)  BY <2>2, Pairs
    <2>6. QED  BY <1>3, <2>1, <2>4, <2>5 DEF Ends
<1>5. ToneKept'  BY <1>1 DEF SoundInv, ToneKept, Sounding, history
<1>6. /\ gate' \in BOOLEAN /\ data' \in BOOLEAN /\ pit' \in Nat /\ tone' \in Nat /\ slept' \in BOOLEAN
      /\ driver \in Drivers /\ given' = given /\ given \in Sounds \cup {NoMemory} /\ blocks' \in Nat
      /\ blocks' = driver.buffers + (IF driver.beep_buffer THEN 1 ELSE 0)
    BY <1>1, BeginsAtRest DEF history
<1>7. QED  BY <1>1, <1>3, <1>4, <1>5, <1>6, BeginKeeps

LEMMA StartKeeps ==
    ASSUME SoundInv, NEW sound \in Sounds, NEW loop \in BOOLEAN, sb16_start_playback(sound, loop)
    PROVE  SoundInv'
<1> DEFINE d == [driver EXCEPT !.playing = TRUE]
<1>1. /\ Begin(StartOutput(sound, loop), d) /\ call = "none" /\ driver.inserted /\ given' = sound
      /\ UNCHANGED <<gate, data, pit, blocks, tone, slept>>
    BY DEF sb16_start_playback, Begin, StartOutput
<1>2. driver \in Drivers  BY <1>1, BeginsAtRest
<1>3. /\ d \in Drivers /\ d.speaker_on = driver.speaker_on /\ d.inserted = driver.inserted
      /\ d.playing = TRUE /\ d.buffers = driver.buffers /\ d.beep_buffer = driver.beep_buffer
    BY <1>2 DEF Drivers
<1> HIDE DEF d
<1>4. PICK x \in Stations : Present(x) /\ x.dsp.left = 0 /\ x.dsp.speaker = driver.speaker_on
    BY <1>1, BeginsAtRest
<1>5. PICK m : /\ m.memory = sound
               /\ Ends(x, StartOutput(sound, loop), d.speaker_on, m)
               /\ StartOutput(sound, loop) \in Seq(Orders)
    <2>1. [open |-> TRUE, memory |-> sound].memory = sound  OBVIOUS
    <2>2. QED  BY <1>3, <1>4, <2>1, StartSent
<1>6. ToneKept'  BY <1>1 DEF SoundInv, ToneKept, Sounding
<1>7. /\ gate' \in BOOLEAN /\ data' \in BOOLEAN /\ pit' \in Nat /\ tone' \in Nat /\ slept' \in BOOLEAN
      /\ given' \in Sounds \cup {NoMemory} /\ blocks' \in Nat
      /\ blocks' = d.buffers + (IF d.beep_buffer THEN 1 ELSE 0)
    BY <1>1, <1>3, BeginsAtRest
<1>8. QED  BY <1>1, <1>3, <1>4, <1>5, <1>6, <1>7, BeginKeeps

LEMMA ShutdownKeeps == ASSUME SoundInv, sb16_shutdown PROVE SoundInv'
<1> DEFINE s == [Stopped EXCEPT !.speaker_on = FALSE, !.initialized = FALSE]
           d == BuffersDestroyed(s)
           out == StopOutput \o Speaker(FALSE)
<1>1. /\ Begin(out, d) /\ call = "none" /\ driver.inserted /\ given' = NoMemory
      /\ blocks' = blocks - driver.buffers /\ UNCHANGED <<gate, data, pit, tone, slept>>
    BY DEF sb16_shutdown, Begin
<1>2. /\ Stopped \in Drivers /\ Stopped.inserted /\ Stopped.beep_buffer = driver.beep_buffer
    BY <1>1, BeginsAtRest, AfterStop
<1>3. s \in Drivers /\ s.inserted /\ s.beep_buffer = driver.beep_buffer /\ s.speaker_on = FALSE
    <2> HIDE DEF Stopped
    <2>1. QED  BY <1>2 DEF Drivers
<1> HIDE DEF s
<1>4. d \in Drivers /\ d.inserted /\ d.beep_buffer = driver.beep_buffer /\ d.speaker_on = FALSE
      /\ d.buffers = 0
    BY <1>3 DEF BuffersDestroyed, Drivers
<1> HIDE DEF d
<1>5. PICK x \in Stations :
        /\ Present(x) /\ StopOutput \in Seq(Orders) /\ x.dsp.left = 0
        /\ \E m : Ends(x, StopOutput, driver.speaker_on, m) /\ ~m.open
    BY <1>1, BeginsAtRest
<1>6. PICK m : Ends(x, StopOutput, driver.speaker_on, m) /\ ~m.open  BY <1>5
<1>7. out \in Seq(Orders) /\ Ends(x, out, FALSE, m)
    <2>1. PICK on \in BOOLEAN : on = FALSE  OBVIOUS
    <2>2. /\ StopOutput \o Speaker(on) \in Seq(Orders)
          /\ Ends(x, StopOutput \o Speaker(on), on, m)
        BY <1>5, <1>6, SpeakerSentAfter
    <2>3. QED  BY <2>1, <2>2
<1> HIDE DEF out
<1>8. ToneKept'  BY <1>1 DEF SoundInv, ToneKept, Sounding
<1>9. /\ gate' \in BOOLEAN /\ data' \in BOOLEAN /\ pit' \in Nat /\ tone' \in Nat /\ slept' \in BOOLEAN
      /\ given' \in Sounds \cup {NoMemory} /\ blocks' \in Nat
      /\ blocks' = d.buffers + (IF d.beep_buffer THEN 1 ELSE 0)
    <2>1. /\ gate' \in BOOLEAN /\ data' \in BOOLEAN /\ pit' \in Nat /\ tone' \in Nat
          /\ slept' \in BOOLEAN
        BY <1>1, BeginsAtRest
    <2>2. /\ driver.buffers \in Nat /\ driver.beep_buffer \in BOOLEAN
          /\ blocks = driver.buffers + (IF driver.beep_buffer THEN 1 ELSE 0)
        BY <1>1, BeginsAtRest
    <2>3. blocks' = (IF driver.beep_buffer THEN 1 ELSE 0)  BY <1>1, <2>2
    <2>4. QED  BY <1>1, <1>4, <2>1, <2>2, <2>3
<1>10. QED  BY <1>1, <1>4, <1>5, <1>6, <1>7, <1>8, <1>9, BeginKeeps

LEMMA BeepPlayed == ASSUME SoundInv, sb16_play_beep PROVE SoundInv'
<1>1. /\ given' = NoMemory /\ UNCHANGED <<gate, data, pit, tone, slept>>
      /\ call = "none" /\ driver.inserted
    BY DEF sb16_play_beep, Begin
<1>2. /\ BeepStopped \in Drivers /\ BeepStopped.inserted /\ BeepStopped.speaker_on = driver.speaker_on
      /\ BeepStopped.buffers = driver.buffers /\ ~BeepStopped.beep_buffer
    BY <1>1, BeginsAtRest, AfterStop
<1>3. PICK x \in Stations :
        /\ Present(x) /\ StopOutput \in Seq(Orders) /\ x.dsp.left = 0
        /\ \E m : Ends(x, StopOutput, driver.speaker_on, m) /\ ~m.open
    BY <1>1, BeginsAtRest
<1>4. PICK m : Ends(x, StopOutput, driver.speaker_on, m) /\ ~m.open  BY <1>3
<1>5. ToneKept'  BY <1>1 DEF SoundInv, ToneKept, Sounding
<1>6. /\ gate' \in BOOLEAN /\ data' \in BOOLEAN /\ pit' \in Nat /\ tone' \in Nat /\ slept' \in BOOLEAN
      /\ given' \in Sounds \cup {NoMemory}
    BY <1>1, BeginsAtRest
<1>7. driver.buffers \in Nat /\ BlocksWithoutBeep = driver.buffers
    BY <1>1, BeginsAtRest
<1>8. PICK on \in BOOLEAN : on = TRUE  OBVIOUS
<1> DEFINE up == StopOutput \o Speaker(on)
<1>9. up \in Seq(Orders) /\ Ends(x, up, on, m)  BY <1>3, <1>4, SpeakerSentAfter
<1>10. CASE Begin(StopOutput, BeepStopped) /\ blocks' = BlocksWithoutBeep
    <2>1. Ends(x, StopOutput, BeepStopped.speaker_on, m)  BY <1>2, <1>4
    <2>2. blocks' \in Nat
          /\ blocks' = BeepStopped.buffers + (IF BeepStopped.beep_buffer THEN 1 ELSE 0)
        BY <1>2, <1>7, <1>10
    <2>3. QED  BY <1>2, <1>3, <1>4, <1>5, <1>6, <1>10, <2>1, <2>2, BeginKeeps
<1>11. CASE /\ Begin(StopOutput \o Speaker(TRUE), [BeepStopped EXCEPT !.speaker_on = TRUE])
            /\ blocks' = BlocksWithoutBeep
    <2> DEFINE d == [BeepStopped EXCEPT !.speaker_on = TRUE]
    <2>1. d \in Drivers /\ d.speaker_on = on /\ d.inserted /\ d.buffers = driver.buffers /\ ~d.beep_buffer
        BY <1>2, <1>8, SpeakerSet
    <2>2. Begin(up, d)  BY <1>8, <1>11
    <2> HIDE DEF d, up
    <2>3. Ends(x, up, d.speaker_on, m)  BY <1>9, <2>1
    <2>4. blocks' \in Nat /\ blocks' = d.buffers + (IF d.beep_buffer THEN 1 ELSE 0)
        BY <1>7, <1>11, <2>1
    <2>5. QED  BY <1>3, <1>4, <1>5, <1>6, <1>9, <2>1, <2>2, <2>3, <2>4, BeginKeeps
<1>12. CASE /\ Begin(StopOutput \o Speaker(TRUE) \o sb16_simple_playback(\hFF, \h1F),
                     [BeepStopped EXCEPT !.speaker_on = TRUE, !.beep_buffer = TRUE])
            /\ blocks' = BlocksWithoutBeep + 1
    <2> DEFINE d == [BeepStopped EXCEPT !.speaker_on = TRUE, !.beep_buffer = TRUE]
               out == up \o sb16_simple_playback(\hFF, \h1F)
    <2>1. d \in Drivers /\ d.speaker_on = on /\ d.inserted /\ d.buffers = driver.buffers /\ d.beep_buffer
        <3> HIDE DEF BeepStopped
        <3>1. QED  BY <1>2, <1>8 DEF Drivers
    <2>2. Begin(out, d)  BY <1>8, <1>12
    <2> HIDE DEF d, up
    <2>3. out \in Seq(Orders) /\ Ends(x, out, on, m)
        <3> DEFINE simple == sb16_simple_playback(\hFF, \h1F)
        <3>1. \hFF \in Byte /\ \h1F \in Byte  BY DEF Byte
        <3>2. /\ simple \in Seq(Orders)
              /\ \A y \in Stations : y.dsp.left = 0 => Ends(y, simple, y.dsp.speaker, y.dma)
            <4>1. \A low, high \in Byte : sb16_simple_playback(low, high) \in Seq(Orders)
                BY <1>3, SimpleSent
            <4>2. \A low, high \in Byte : \A y \in Stations : y.dsp.left = 0 =>
                      Ends(y, sb16_simple_playback(low, high), y.dsp.speaker, y.dma)
                BY SimpleSent
            <4>3. QED  BY <3>1, <4>1, <4>2
        <3> HIDE DEF simple
        <3>3. up \in Seq(Items) /\ simple \in Seq(Items)  BY <1>9, <3>2, OrdersAreItems
        <3>4. \A y \in Stations : y.dsp.left = 0 /\ y.dsp.speaker = on /\ y.dma = m =>
                  Ends(y, simple, on, m)
            BY <3>2
        <3>5. Ends(x, up \o simple, on, m)  BY <1>9, <3>3, <3>4, EndsOn
        <3>6. up \o simple \in Seq(Orders)  BY <1>9, <3>2
        <3>7. QED  BY <3>5, <3>6 DEF simple
    <2> HIDE DEF out
    <2>4. Ends(x, out, d.speaker_on, m)  BY <2>1, <2>3
    <2>5. blocks' \in Nat /\ blocks' = d.buffers + (IF d.beep_buffer THEN 1 ELSE 0)
        BY <1>7, <1>12, <2>1
    <2>6. QED  BY <1>3, <1>4, <1>5, <1>6, <2>1, <2>2, <2>3, <2>4, <2>5, BeginKeeps
<1>13. QED  BY <1>10, <1>11, <1>12 DEF sb16_play_beep

----------------------------------------------------------------------------
LEMMA SoundNext == SoundInv /\ [Next]_vars => SoundInv'
<1> SUFFICES ASSUME SoundInv, [Next]_vars PROVE SoundInv'  OBVIOUS
<1>1. CASE Output
    BY <1>1, DspWritten, DmaWritten, ResetWritten, Slept, Polled DEF Output
<1>2. CASE Kernel
    BY <1>1, <1>2, Returned, ResetAnswered, VersionAnswered DEF Kernel
<1>3. CASE Control
    BY <1>3, PlayKeeps, PauseKeeps, StopKeeps, ResetKeeps, BeepKeeps DEF Control
<1>4. CASE Call
    BY <1>3, <1>4, Inserted, BeepPlayed, ShutdownKeeps, StartKeeps, WaitKeeps DEF Call
<1>5. CASE BufferEnds  BY <1>5, Ended
<1>6. CASE UNCHANGED vars
    BY <1>6 DEF SoundInv, SoundTypes, CallsOrdered, ToneKept, Sounding, BlocksKept, PollCounts,
                HeadIs, Wave, Asked, Foreseen, Present, Believed, vars
<1>7. QED  BY <1>2, <1>4, <1>5, <1>6 DEF Next

LEMMA SoundAlways == Spec => []SoundInv
BY SoundStart, SoundNext, PTL DEF Spec

\* Between calls the DSP waits for a command and its speaker is as the driver believes,
\* whatever calls were made, unless it missed a byte.
THEOREM DriverInStep == Spec => []InStep
<1>1. SoundInv => InStep
    <2> SUFFICES ASSUME SoundInv, call = "none", present, ~lost
                 PROVE  dsp.left = 0 /\ dsp.speaker = driver.speaker_on
        BY DEF InStep
    <2>1. todo = <<>>  BY DEF SoundInv, CallsOrdered
    <2>2. PICK x \in Stations : Present(x) /\ Believed(x)  BY <2>1, AtRest DEF SoundInv
    <2>3. QED  BY <2>2 DEF Present, Believed
<1>2. QED  BY <1>1, SoundAlways, PTL

\* The PC speaker sounds from a beep to a stop, and at the tone of the beep unless the
\* kernel slept.
THEOREM SpeakerAsAsked == Spec => []ToneAsAsked
<1>1. SoundInv => ToneAsAsked  BY DEF SoundInv, ToneKept, ToneAsAsked
<1>2. QED  BY <1>1, SoundAlways, PTL

\* The device reads no memory but that of the sound started last and not stopped, and the
\* driver's blocks are those it can reach.
THEOREM BuffersAreKept == Spec => []BuffersKept
<1>1. SoundInv => BuffersKept
    <2> SUFFICES ASSUME SoundInv
                 PROVE  /\ call = "none" /\ dma.open => dma.memory = given
                        /\ BlocksKept
        BY DEF BuffersKept, BlocksKept
    <2>1. ASSUME call = "none", dma.open PROVE dma.memory = given
        <3>1. todo = <<>>  BY <2>1 DEF SoundInv, CallsOrdered
        <3>2. PICK x \in Stations : Present(x) /\ Believed(x)  BY <3>1, AtRest DEF SoundInv
        <3>3. QED  BY <2>1, <3>2 DEF Present, Believed
    <2>2. QED  BY <2>1 DEF SoundInv
<1>2. QED  BY <1>1, SoundAlways, PTL

\* Half a wave of a count that was cut to the channel's width is less than the count.
LEMMA HalfOfAsked ==
    ASSUME NEW asked \in Nat, asked > 0, NEW width \in Nat, width > 0,
           NEW wave \in Nat, wave = IF asked % width = 0 THEN width ELSE asked % width, wave > 1
    PROVE  (wave + 1) \div 2 < asked
<1>1. asked < width => asked % width = asked
    <2>1. \A c \in Nat, n \in Nat : n < c => n % c = n  OBVIOUS
    <2>2. QED  BY <2>1
<1>2. asked % width \in Nat /\ asked % width < width  OBVIOUS
<1>3. wave <= asked  BY <1>1, <1>2
<1>4. (wave + 1) \div 2 < wave  OBVIOUS
<1>5. (wave + 1) \div 2 \in Nat  OBVIOUS
<1>6. QED  BY <1>3, <1>4, <1>5

\* The poll is over when the channel's output has fallen.
LEMMA PollEnds ==
    ASSUME SoundInv, [Next]_vars, HeadIs("poll"), todo' = Tail(todo)
    PROVE  ~OutHigh(Head(todo).ticks)
<1>1. todo # <<>> /\ call # "none" /\ driver.inserted /\ Head(todo).port = "poll"
    BY DEF HeadIs, SoundInv, CallsOrdered
<1>2. todo' # todo
    <2>1. todo \in Seq(Items)  BY DEF SoundInv, SoundTypes
    <2>2. Len(Tail(todo)) = Len(todo) - 1 /\ Len(todo) \in Nat  BY <1>1, <2>1
    <2>3. QED  BY <2>2
<1>3. PollTimer
    <2>1. ~Call  BY <1>1 DEF Call, audio_init, Control, Play, Pause, Stop, Beep, ResetDevice,
                          sb16_play_beep, sb16_shutdown, sb16_start_playback, WaitFrame, Begin
    <2>2. ~BufferEnds /\ ~(UNCHANGED vars)  BY <1>2 DEF BufferEnds, vars
    <2>3. ~Return /\ ~AfterReset /\ ~AfterDetect  BY <1>1 DEF Return, AfterReset, AfterDetect
    <2>4. ~sb16_write_dsp /\ ~WriteDma /\ ~WriteResetPort /\ ~sleep_ms
        BY <1>1 DEF sb16_write_dsp, WriteDma, WriteResetPort, sleep_ms, HeadIs
    <2>5. QED  BY <2>1, <2>2, <2>3, <2>4 DEF Next, Kernel, Output
<1>4. ~OutHigh(Head(todo).ticks)
    <2> SUFFICES ASSUME OutHigh(Head(todo).ticks) PROVE FALSE  OBVIOUS
    <2>1. todo' = [todo EXCEPT ![1].ticks = @ + 1]  BY <1>3 DEF PollTimer
    <2>2. todo \in Seq(Items)  BY DEF SoundInv, SoundTypes
    <2>3. Len(todo') = Len(todo)
        BY <2>1, <2>2
    <2>4. Len(Tail(todo)) = Len(todo) - 1 /\ Len(todo) \in Nat  BY <1>1, <2>2
    <2>5. QED  BY <2>3, <2>4
<1>5. QED  BY <1>4

\* A sleep that returns has waited for half a wave of what its count is in Word.
SleepsHalfAWave ==
    [][(HeadIs("poll") /\ todo' = Tail(todo)) =>
          LET count == (Head(todo).ms * TicksPerMs) % Word
          IN  Head(todo).ticks = ((IF count = 0 THEN Word ELSE count) + 1) \div 2]_vars

\* Whatever was asked for, a sleep that returns has waited for exactly half a wave of its
\* count, cut to the channel's width (rtc.c:99-112).
THEOREM HalfTheSleep == Spec => SleepsHalfAWave
<1>1. SoundInv /\ [Next]_vars =>
        [(HeadIs("poll") /\ todo' = Tail(todo)) =>
            LET count == (Head(todo).ms * TicksPerMs) % Word
            IN  Head(todo).ticks = ((IF count = 0 THEN Word ELSE count) + 1) \div 2]_vars
    <2> SUFFICES ASSUME SoundInv, [Next]_vars, HeadIs("poll"), todo' = Tail(todo)
                 PROVE  LET count == (Head(todo).ms * TicksPerMs) % Word
                        IN  Head(todo).ticks = ((IF count = 0 THEN Word ELSE count) + 1) \div 2
        OBVIOUS
    <2>1. Head(todo).ticks = (Wave + 1) \div 2 /\ pit = (Head(todo).ms * TicksPerMs) % Word
        BY PollEnds, HalfAWave DEF SoundInv, PollCounts, Asked
    <2>2. QED  BY <2>1 DEF Wave
<1>2. QED  BY <1>1, SoundAlways, PTL DEF Spec, SleepsHalfAWave

\* and no sleep that returns has waited for as long as it was asked, whatever the timer and
\* the delays: SleepsAsAsked fails each time, not in one instance.
THEOREM NoSleepIsWhole ==
    Spec => [][(HeadIs("poll") /\ todo' = Tail(todo)) =>
                  Head(todo).ticks < Head(todo).ms * TicksPerMs]_vars
<1>1. SoundInv /\ [Next]_vars =>
        [(HeadIs("poll") /\ todo' = Tail(todo)) =>
            Head(todo).ticks < Head(todo).ms * TicksPerMs]_vars
    <2> SUFFICES ASSUME SoundInv, [Next]_vars, HeadIs("poll"), todo' = Tail(todo)
                 PROVE  Head(todo).ticks < Head(todo).ms * TicksPerMs
        OBVIOUS
    <2>1. /\ Head(todo).ms \in Nat \ {0} /\ Head(todo).ticks \in Nat
          /\ Wave > 1 /\ Head(todo).ticks = (Wave + 1) \div 2
        BY PollEnds, HalfAWave
    <2>2. PICK m \in Nat \ {0}, t \in Nat : m = Head(todo).ms /\ t = Head(todo).ticks  BY <2>1
    <2>3. PICK asked \in Nat : asked = m * TicksPerMs /\ asked > 0
        BY Constants
    <2>4. /\ pit = asked % Word /\ Wave = (IF asked % Word = 0 THEN Word ELSE asked % Word)
          /\ Wave \in Nat
        <3>1. pit = asked % Word  BY <2>2, <2>3 DEF HeadIs, SoundInv, PollCounts, Asked
        <3>2. pit \in Nat  BY DEF SoundInv, SoundTypes
        <3>3. QED  BY <3>1, <3>2, Constants DEF Wave
    <2>5. (Wave + 1) \div 2 < asked
        <3>1. PICK width \in Nat : width = Word /\ width > 0  BY Constants
        <3>2. PICK wave \in Nat : wave = Wave /\ wave > 1  BY <2>1, <2>4
        <3>3. wave = IF asked % width = 0 THEN width ELSE asked % width  BY <2>4, <3>1, <3>2, Zenon
        <3>4. (wave + 1) \div 2 < asked  BY <2>3, <3>1, <3>2, <3>3, HalfOfAsked
        <3>5. QED  BY <3>2, <3>4
    <2>6. QED  BY <2>1, <2>2, <2>3, <2>5
<1>2. QED  BY <1>1, SoundAlways, PTL DEF Spec

----------------------------------------------------------------------------
(* The clock.  What a sleep measures is how far the clock is from the time   *)
(* the call read first, whole or torn; an update during a read leaves the    *)
(* registers a second behind.  First, the arithmetic of the time of day.     *)
\* Quotient and remainder are unique.
LEMMA Division ==
    ASSUME NEW c \in Nat \ {0}, NEW n \in Nat
    PROVE  /\ n \div c \in Nat /\ n % c \in 0 .. c - 1 /\ n = c * (n \div c) + (n % c)
           /\ \A q \in Nat, r \in 0 .. c - 1 : n = c * q + r => n \div c = q /\ n % c = r
<1>1. n \div c \in Nat /\ n % c \in 0 .. c - 1 /\ n = c * (n \div c) + (n % c)  OBVIOUS
<1>2. PICK k \in Nat, s \in 0 .. c - 1 : k = n \div c /\ s = n % c  BY <1>1
<1>3. ASSUME NEW q \in Nat, NEW r \in 0 .. c - 1, n = c * q + r
      PROVE  q = k /\ r = s
    <2>1. c * q + r = c * k + s  BY <1>1, <1>2, <1>3
    <2>2. \A d \in Nat : d >= 1 => c * d >= c  OBVIOUS
    <2>3. ASSUME NEW a \in Nat, NEW b \in Nat, a < b PROVE c * b >= c * a + c
        <3>1. PICK d \in Nat : d = b - a /\ d >= 1  BY <2>3
        <3>2. b = a + d  BY <3>1
        <3>3. c * b = c * a + c * d  BY <3>2
        <3>4. c * a \in Nat /\ c * d \in Nat  OBVIOUS
        <3>5. QED  BY <2>2, <3>1, <3>3, <3>4
    <2>4. c * q \in Nat /\ c * k \in Nat  OBVIOUS
    <2>5. ~(q < k) /\ ~(k < q)  BY <2>1, <2>3, <2>4
    <2>6. q = k  BY <2>5
    <2>7. QED  BY <2>1, <2>4, <2>6
<1>4. QED  BY <1>1, <1>2, <1>3

LEMMA Remainder ==
    ASSUME NEW c \in Nat \ {0}, NEW n \in Nat, NEW q \in Nat, NEW r \in 0 .. c - 1, n = c * q + r
    PROVE  n % c = r
BY Division

LEMMA Clocks ==
    /\ Hours \in 1 .. 99 /\ Minutes \in 1 .. 99 /\ Seconds \in 2 .. 99
    /\ Minutes * Seconds \in Nat \ {0} /\ Hours * Minutes \in Nat \ {0}
    /\ Day \in Nat /\ Day >= Seconds /\ Day >= 2 /\ Day = Seconds * (Hours * Minutes)
    /\ IntMax \in Nat /\ Day <= IntMax /\ Requests \subseteq -IntMax - 1 .. IntMax
    /\ MaxElapsed = Day + 2
<1>1. /\ Hours \in 1 .. 99 /\ Minutes \in 1 .. 99 /\ Seconds \in 2 .. 99
      /\ IntMax \in Nat /\ Day <= IntMax /\ Requests \subseteq -IntMax - 1 .. IntMax
    BY RtcConstants
<1>2. \A a, b \in Nat \ {0} : a * b \in Nat \ {0} /\ a * b >= b  OBVIOUS
<1>3. Minutes * Seconds \in Nat \ {0} /\ Hours * Minutes \in Nat \ {0}  BY <1>1, <1>2
<1>4. PICK n \in Nat \ {0} : n = Hours * Minutes  BY <1>3
<1>5. Day = n * Seconds  BY <1>4 DEF Day
<1>6. n * Seconds \in Nat /\ n * Seconds >= Seconds /\ n * Seconds = Seconds * n  BY <1>1, <1>2
<1>7. QED  BY <1>1, <1>3, <1>4, <1>5, <1>6 DEF MaxElapsed

\* A time of day put together from an hour, a minute and a second.
Together(h, m, s) == (h * Minutes + m) * Seconds + s

LEMMA TogetherInDay ==
    ASSUME NEW h \in 0 .. Hours - 1, NEW m \in 0 .. Minutes - 1, NEW s \in 0 .. Seconds - 1
    PROVE  Together(h, m, s) \in 0 .. Day - 1 /\ Together(h, m, s) % Seconds = s
<1>0. /\ Hours \in Nat /\ Minutes \in Nat /\ Seconds \in Nat \ {0}
      /\ h \in Nat /\ h < Hours /\ m \in Nat /\ m < Minutes /\ s \in Nat /\ s < Seconds
    BY Clocks
<1>1. PICK a \in Nat : a = h * Minutes + m /\ a + 1 <= Hours * Minutes
    <2>1. PICK u \in Nat : u = h * Minutes  BY <1>0
    <2>2. PICK d \in Nat : Hours = h + 1 + d
        <3>1. Hours - 1 - h \in Nat /\ Hours = h + 1 + (Hours - 1 - h)  BY <1>0
        <3>2. QED  BY <3>1
    <2>3. Hours * Minutes = h * Minutes + Minutes + d * Minutes  BY <1>0, <2>2
    <2>4. PICK v \in Nat : v = d * Minutes  BY <1>0
    <2>5. Hours * Minutes = u + Minutes + v  BY <2>1, <2>3, <2>4
    <2>6. u + m \in Nat /\ u + m + 1 <= u + Minutes + v  BY <1>0
    <2>7. QED  BY <2>1, <2>5, <2>6
<1>2. PICK n \in Nat : n = Hours * Minutes  BY <1>0
<1>3. PICK d \in Nat : n = a + 1 + d
    <2>1. n - a - 1 \in Nat  BY <1>1, <1>2
    <2>2. QED  BY <2>1
<1>4. Day = Seconds * n  BY <1>2, Clocks
<1>5. PICK u \in Nat, v \in Nat : u = Seconds * a /\ v = Seconds * d  BY <1>0
<1>6. Seconds * n = Seconds * a + Seconds + Seconds * d  BY <1>0, <1>3
<1>7. Day = u + Seconds + v  BY <1>4, <1>5, <1>6
<1>8. Together(h, m, s) = a * Seconds + s /\ a * Seconds = Seconds * a
    BY <1>0, <1>1 DEF Together
<1>9. PICK t \in Nat : t = Together(h, m, s) /\ t = u + s  BY <1>0, <1>5, <1>8
<1>10. t <= Day - 1  BY <1>0, <1>7, <1>9
<1>11. t % Seconds = s
    <2>1. s \in 0 .. Seconds - 1 /\ t = Seconds * a + s  BY <1>5, <1>9
    <2>2. QED  BY <1>0, <2>1, Division
<1>12. Day \in Nat  BY <1>0, <1>7
<1>13. QED  BY <1>9, <1>10, <1>11, <1>12

\* The registers of a time give the time back.
LEMMA HmsIs ==
    ASSUME NEW t \in 0 .. Day - 1
    PROVE  /\ Hms(t)[1] = t % Seconds
           /\ Hms(t)[1] \in 0 .. Seconds - 1 /\ Hms(t)[2] \in 0 .. Minutes - 1
           /\ Hms(t)[3] \in 0 .. Hours - 1
           /\ Together(Hms(t)[3], Hms(t)[2], Hms(t)[1]) = t
<1>0. /\ Seconds \in Nat \ {0} /\ Minutes \in Nat \ {0} /\ Hours \in Nat \ {0} /\ t \in Nat
      /\ Seconds * Minutes \in Nat \ {0}
    <2>1. Seconds \in Nat \ {0} /\ Minutes \in Nat \ {0} /\ Hours \in Nat \ {0} /\ t \in Nat
        BY Clocks
    <2>2. Seconds * Minutes = Minutes * Seconds  BY <2>1
    <2>3. QED  BY <2>1, <2>2, Clocks
<1>1. PICK a \in Nat, s \in 0 .. Seconds - 1 : a = t \div Seconds /\ s = t % Seconds /\ t = Seconds * a + s
    <2>1. /\ t \div Seconds \in Nat /\ t % Seconds \in 0 .. Seconds - 1
          /\ t = Seconds * (t \div Seconds) + (t % Seconds)
        BY <1>0, Division
    <2>2. QED  BY <2>1
<1>2. PICK b \in Nat, m \in 0 .. Minutes - 1 : b = a \div Minutes /\ m = a % Minutes /\ a = Minutes * b + m
    <2>1. /\ a \div Minutes \in Nat /\ a % Minutes \in 0 .. Minutes - 1
          /\ a = Minutes * (a \div Minutes) + (a % Minutes)
        BY <1>0, Division
    <2>2. QED  BY <2>1
<1>3. PICK c \in Nat \ {0} : c = Seconds * Minutes  BY <1>0
<1>4. PICK r \in Nat : r = Seconds * m + s /\ r <= c - 1
    <2>1. PICK d \in Nat : Minutes = m + 1 + d
        <3>1. Minutes - 1 - m \in Nat  BY <1>0
        <3>2. QED  BY <3>1, <1>0
    <2>2. PICK u \in Nat, v \in Nat : u = Seconds * m /\ v = Seconds * d  BY <1>0
    <2>3. Seconds * Minutes = Seconds * m + Seconds + Seconds * d  BY <1>0, <2>1
    <2>4. c = u + Seconds + v  BY <1>3, <2>2, <2>3
    <2>5. u + s \in Nat /\ u + s <= c - 1  BY <1>0, <2>4
    <2>6. QED  BY <2>2, <2>5
<1>5. t = c * b + r
    <2>1. PICK u \in Nat : u = Minutes * b  BY <1>0
    <2>2. a = u + m  BY <1>2, <2>1
    <2>3. Seconds * a = Seconds * u + Seconds * m  BY <1>0, <2>1, <2>2
    <2>4. Seconds * (Minutes * b) = (Seconds * Minutes) * b  BY <1>0
    <2>5. Seconds * u = c * b  BY <1>3, <2>1, <2>4
    <2>6. PICK v \in Nat, w \in Nat, z \in Nat : v = c * b /\ w = Seconds * m /\ z = Seconds * a
        BY <1>0
    <2>7. z = v + w  BY <2>3, <2>5, <2>6
    <2>8. t = z + s /\ r = w + s  BY <1>1, <1>4, <2>6
    <2>9. t = v + r  BY <2>6, <2>7, <2>8
    <2>10. QED  BY <2>6, <2>9
<1>6. r \in 0 .. c - 1  BY <1>4
<1>7. t \div c = b
    <2>1. t \in Nat /\ c \in Nat \ {0}  BY <1>0
    <2>2. QED  BY <2>1, <1>5, <1>6, Division
<1>8. Minutes * Seconds = c  BY <1>0, <1>3
<1>9. Hms(t) = <<s, m, b>>  BY <1>1, <1>2, <1>7, <1>8 DEF Hms
<1>10. b <= Hours - 1
    <2>1. SUFFICES ASSUME b >= Hours PROVE FALSE  BY <1>0
    <2>2. PICK d \in Nat : b = Hours + d
        <3>1. b - Hours \in Nat  BY <1>0, <2>1
        <3>2. QED  BY <3>1, <1>0
    <2>3. c * b = c * Hours + c * d  BY <1>0, <2>2
    <2>4. c * Hours = Day
        <3>1. (Seconds * Minutes) * Hours = Hours * Minutes * Seconds  BY <1>0
        <3>2. QED  BY <1>3, <3>1 DEF Day
    <2>5. PICK v \in Nat : v = c * d  OBVIOUS
    <2>6. Day \in Nat  BY Clocks
    <2>7. t = Day + v + r  BY <1>5, <2>3, <2>4, <2>5
    <2>8. t <= Day - 1  BY <2>6
    <2>9. QED  BY <2>5, <2>6, <2>7, <2>8
<1>11. Together(b, m, s) = t
    <2>1. b * Minutes + m = a
        <3>1. b * Minutes = Minutes * b  BY <1>0
        <3>2. QED  BY <1>2, <3>1
    <2>2. a * Seconds = Seconds * a  BY <1>0
    <2>3. QED  BY <1>1, <2>1, <2>2 DEF Together
<1>12. QED  BY <1>0, <1>1, <1>9, <1>10, <1>11

\* The time before an update.
Before(t) == (t + Day - 1) % Day

LEMMA BeforeAndAfter ==
    ASSUME NEW t \in 0 .. Day - 1
    PROVE  /\ (t + 1) % Day \in 0 .. Day - 1 /\ Before((t + 1) % Day) = t
           /\ (t + 1) % Day = IF t + 1 < Day THEN t + 1 ELSE 0
           /\ Before(t) \in 0 .. Day - 1 /\ Before(t) = IF t = 0 THEN Day - 1 ELSE t - 1
<1>0. Day \in Nat /\ Day >= 2 /\ Day \in Nat \ {0}  BY Clocks
<1> HIDE DEF Day
<1>1. \A n \in Nat : n < Day => n % Day = n  BY <1>0
<1>2. Day % Day = 0  BY <1>0
<1>3. \A n \in Nat : n < Day => (n + Day) % Day = n
    <2>1. ASSUME NEW n \in Nat, n < Day PROVE (n + Day) % Day = n
        <3>1. PICK k \in Nat : k = n + Day  BY <1>0
        <3>2. k = Day * 1 + n  BY <1>0, <3>1
        <3>3. n \in 0 .. Day - 1 /\ 1 \in Nat  BY <1>0, <2>1
        <3>4. k % Day = n  BY <1>0, <3>2, <3>3, Division
        <3>5. QED  BY <3>1, <3>4
    <2>2. QED  BY <2>1
<1>4. \A u \in 0 .. Day - 1 : Before(u) = IF u = 0 THEN Day - 1 ELSE u - 1
    <2>1. TAKE u \in 0 .. Day - 1
    <2>2. CASE u = 0
        <3>1. u + Day - 1 = Day - 1 /\ Day - 1 \in Nat /\ Day - 1 < Day  BY <1>0, <2>2
        <3>2. QED  BY <1>1, <2>2, <3>1 DEF Before
    <2>3. CASE u # 0
        <3>1. u - 1 \in Nat /\ u - 1 < Day /\ u + Day - 1 = (u - 1) + Day  BY <1>0, <2>3
        <3>2. ((u - 1) + Day) % Day = u - 1  BY <1>3, <3>1
        <3>3. QED  BY <2>3, <3>1, <3>2 DEF Before
    <2>4. QED  BY <2>2, <2>3
<1>5. (t + 1) % Day = IF t + 1 < Day THEN t + 1 ELSE 0
    <2>1. CASE t + 1 < Day  BY <1>0, <1>1, <2>1
    <2>2. CASE ~(t + 1 < Day)
        <3>1. t + 1 = Day  BY <1>0, <2>2
        <3>2. QED  BY <1>2, <2>2, <3>1
    <2>3. QED  BY <2>1, <2>2
<1>6. QED  BY <1>0, <1>4, <1>5

\* An update changes the second.
LEMMA NextSecond ==
    ASSUME NEW t \in 0 .. Day - 1
    PROVE  Hms(Before(t))[1] # Hms(t)[1]
<1>0. Seconds \in Nat \ {0} /\ Seconds >= 2 /\ Day \in Nat /\ Day >= 2 /\ Day = Seconds * (Hours * Minutes)
    BY Clocks
<1>1. Before(t) \in 0 .. Day - 1 /\ Before(t) = IF t = 0 THEN Day - 1 ELSE t - 1  BY BeforeAndAfter
<1>2. Hms(t)[1] = t % Seconds /\ Hms(Before(t))[1] = Before(t) % Seconds  BY <1>1, HmsIs
<1>3. CASE t = 0
    <2>1. PICK n \in Nat : n = Hours * Minutes - 1 /\ Day = Seconds * n + Seconds
        <3>1. PICK k \in Nat \ {0} : k = Hours * Minutes  BY Clocks
        <3>2. PICK n \in Nat : k = n + 1
            <4>1. k - 1 \in Nat  OBVIOUS
            <4>2. QED  BY <4>1
        <3>3. Day = Seconds * (n + 1)  BY <1>0, <3>1, <3>2
        <3>4. QED  BY <1>0, <3>1, <3>2, <3>3
    <2>2. PICK b \in Nat : b = Day - 1  BY <1>0
    <2>3. Seconds * n \in Nat  BY <1>0
    <2>4. b = Seconds * n + (Seconds - 1)  BY <1>0, <2>1, <2>2, <2>3
    <2>5. b % Seconds = Seconds - 1
        <3>1. Seconds - 1 \in 0 .. Seconds - 1  BY <1>0
        <3>2. b % Seconds = Seconds - 1
            <4>1. Seconds \in Nat \ {0}  BY <1>0
            <4>2. QED  BY <2>4, <3>1, <4>1, Remainder
        <3>3. QED  BY <3>2
    <2>6. 0 % Seconds = 0  BY <1>0
    <2>7. QED  BY <1>0, <1>1, <1>2, <1>3, <2>2, <2>5, <2>6
<1>4. CASE t # 0
    <2>1. PICK b \in Nat : b = t - 1 /\ t = b + 1  BY <1>4
    <2>2. PICK q \in Nat, r \in 0 .. Seconds - 1 : b = Seconds * q + r /\ b % Seconds = r
        <3>1. b \div Seconds \in Nat /\ b % Seconds \in 0 .. Seconds - 1
              /\ b = Seconds * (b \div Seconds) + (b % Seconds)
            BY <1>0, Division
        <3>2. QED  BY <3>1
    <2>3. Seconds * q \in Nat /\ Seconds * (q + 1) = Seconds * q + Seconds  BY <1>0
    <2>4. CASE r + 1 < Seconds
        <3>1. t \in Nat /\ t = Seconds * q + (r + 1)  BY <2>1, <2>2, <2>3
        <3>2. r + 1 \in 0 .. Seconds - 1  BY <1>0, <2>4
        <3>3. t % Seconds = r + 1
            <4>1. Seconds \in Nat \ {0}  BY <1>0
            <4>2. QED  BY <3>1, <3>2, <4>1, Remainder
        <3>4. QED  BY <1>1, <1>2, <1>4, <2>1, <2>2, <3>3
    <2>5. CASE r + 1 = Seconds
        <3>1. PICK k \in Nat : k = q + 1  OBVIOUS
        <3>2. PICK u \in Nat : u = Seconds * q  BY <1>0
        <3>3. Seconds * k = u + Seconds /\ t = u + r + 1  BY <2>1, <2>2, <2>3, <3>1, <3>2
        <3>4. t \in Nat /\ t = Seconds * k + 0  BY <1>0, <2>5, <3>2, <3>3
        <3>5. 0 \in 0 .. Seconds - 1  BY <1>0
        <3>6. t % Seconds = 0
            <4>1. Seconds \in Nat \ {0}  BY <1>0
            <4>2. QED  BY <3>4, <3>5, <4>1, Remainder
        <3>7. QED  BY <1>0, <1>1, <1>2, <1>4, <2>1, <2>2, <2>5, <3>6
    <2>6. QED  BY <1>0, <2>4, <2>5
<1>5. QED  BY <1>3, <1>4

\* The driver undoes what the chip does to a number, in either data mode.
LEMMA Decodes ==
    ASSUME NEW n \in 0 .. 98
    PROVE  Register(n) \in Nat /\ Decoded(Register(n)) = n
<1>1. CASE binary  BY <1>1 DEF Register, Decoded
<1>2. CASE ~binary
    <2>1. PICK q \in 0 .. 9, r \in 0 .. 9 : n = 10 * q + r /\ n \div 10 = q /\ n % 10 = r  OBVIOUS
    <2>2. Register(n) = 16 * q + r  BY <1>2, <2>1 DEF Register
    <2>3. (16 * q + r) % 16 = r /\ (16 * q + r) \div 16 = q  OBVIOUS
    <2>4. QED  BY <1>2, <2>1, <2>2, <2>3 DEF Decoded, bcd_to_bin
<1>3. QED  BY <1>1, <1>2

----------------------------------------------------------------------------
(* The invariant: how far a sleep is, and what the registers read so far     *)
(* have to do with the clock.                                                *)
Reads(t) == \A i \in 1 .. Len(regs) : Decoded(regs[i]) = Hms(t)[i]
Since(t) == IF t < start THEN t + Day ELSE t
SleepCalls == [at : {"poll", "read"}, seconds : {n \in Requests : n > 0}]

ClockTypes == RtcTypeOK /\ regs \in Seq(Nat) /\ sleep \in {Awake} \cup SleepCalls

Rested == sleep = Awake => start = Unread /\ whole /\ ~torn

\* At most one update comes while a read goes on, and the registers are of before it.
ReadStands ==
    /\ sleep.at # "read" => regs = <<>>
    /\ regs = <<>> => ~met
    /\ (updating /\ sleep # Awake) => whole
    /\ ~met => Reads(time)
    /\ met => /\ ~whole /\ elapsed >= 1
              /\ Decoded(regs[1]) = Hms(Before(time))[1]
              /\ ~torn => Len(regs) = 3 /\ Reads(Before(time))

FirstRead ==
    (sleep # Awake /\ start = Unread) =>
        /\ regs # <<>> => elapsed = IF met THEN 1 ELSE 0
        /\ ~met => ~torn

\* A torn starting time is ahead of the clock, so no sleep is longer than it should be.
Kept ==
    (start # Unread /\ sleep.seconds < Day) =>
        /\ elapsed <= Since(time) - start /\ elapsed <= sleep.seconds
        /\ whole => Since(time) - start < sleep.seconds
        /\ ~torn => elapsed = Since(time) - start

ClockInv == ClockTypes /\ Rested /\ ReadStands /\ FirstRead /\ Kept

LEMMA Days == /\ Day \in Nat /\ Day >= 2 /\ Day <= IntMax /\ IntMax \in Nat /\ MaxElapsed = Day + 2
              /\ \A n \in Requests : n \in Int /\ n <= IntMax
<1>1. Day \in Nat /\ Day >= 2 /\ MaxElapsed = Day + 2  BY Clocks
<1>2. /\ IntMax \in Nat /\ Day <= IntMax /\ Requests \subseteq -IntMax - 1 .. IntMax  BY RtcConstants
<1>3. QED  BY <1>1, <1>2

LEMMA TheSleep ==
    ASSUME ClockTypes, sleep # Awake
    PROVE  /\ sleep \in SleepCalls /\ sleep.at \in {"poll", "read"}
           /\ sleep.seconds \in Nat /\ sleep.seconds >= 1 /\ sleep.seconds <= IntMax
           /\ \A a \in {"poll", "read"} :
                /\ [sleep EXCEPT !.at = a] \in SleepCalls /\ [sleep EXCEPT !.at = a] # Awake
                /\ [sleep EXCEPT !.at = a].at = a /\ [sleep EXCEPT !.at = a].seconds = sleep.seconds
<1>1. sleep \in SleepCalls  BY DEF ClockTypes
<1>2. sleep.at \in {"poll", "read"} /\ sleep.seconds \in Requests /\ sleep.seconds > 0
    BY <1>1 DEF SleepCalls
<1>3. sleep.seconds \in Int /\ sleep.seconds <= IntMax  BY <1>2, Days
<1>4. ASSUME NEW a \in {"poll", "read"}
      PROVE  /\ [sleep EXCEPT !.at = a] \in SleepCalls
             /\ [sleep EXCEPT !.at = a].at = a /\ [sleep EXCEPT !.at = a].seconds = sleep.seconds
    BY <1>1 DEF SleepCalls
<1>5. \A a \in {"poll", "read"} : [sleep EXCEPT !.at = a] # Awake
    <2>1. Awake.at = "awake"  BY DEF Awake
    <2>2. QED  BY <2>1, <1>4
<1>6. QED  BY <1>1, <1>2, <1>3, <1>4, <1>5

\* A sleep reads the time: the state of the call, from any of its fields.
LEMMA AwakeAt == Awake.at = "awake"
BY DEF Awake

\* Seconds from a time of day to the next one.
LEMMA SinceGrows ==
    ASSUME NEW t \in 0 .. Day - 1, start \in 0 .. Day - 1
    PROVE  /\ Since(t) - start \in 0 .. Day - 1
           /\ Since(t) - start <= Day - 2 => Since((t + 1) % Day) - start = Since(t) - start + 1
           /\ Since(t) - start >= 1 => Since(Before(t)) = Since(t) - 1
<1>0. Day \in Nat /\ Day >= 2  BY Days
<1>1. (t + 1) % Day = IF t + 1 < Day THEN t + 1 ELSE 0  BY BeforeAndAfter
<1>2. Before(t) = IF t = 0 THEN Day - 1 ELSE t - 1  BY BeforeAndAfter
<1>3. PICK u \in Int : u = (t + 1) % Day /\ u = IF t + 1 < Day THEN t + 1 ELSE 0  BY <1>0, <1>1
<1>4. PICK v \in Int : v = Before(t) /\ v = IF t = 0 THEN Day - 1 ELSE t - 1  BY <1>0, <1>2
<1> HIDE DEF Day
<1>5. Since(t) - start \in 0 .. Day - 1  BY <1>0 DEF Since
<1>6. Since(t) - start <= Day - 2 => Since(u) - start = Since(t) - start + 1  BY <1>0, <1>3 DEF Since
<1>7. Since(t) - start >= 1 => Since(v) = Since(t) - 1  BY <1>0, <1>4 DEF Since
<1>8. QED  BY <1>3, <1>4, <1>5, <1>6, <1>7

LEMMA WrapIs ==
    ASSUME NEW a \in 0 .. Day - 1, NEW n \in Nat, n <= IntMax
    PROVE  Wrap(a + n) \in Int /\ (IF a + n <= IntMax THEN Wrap(a + n) = a + n ELSE Wrap(a + n) < 0)
<1>0. Day \in Nat /\ Day >= 2 /\ IntMax \in Nat /\ Day <= IntMax  BY Days
<1>1. PICK c \in Nat \ {0} : c = 2 * IntMax + 2  BY <1>0
<1>2. PICK k \in Nat : k = a + n  BY <1>0
<1>3. CASE k <= IntMax
    <2>1. k + IntMax + 1 \in Nat /\ k + IntMax + 1 \in 0 .. c - 1 /\ k + IntMax + 1 = c * 0 + (k + IntMax + 1)
        BY <1>0, <1>1, <1>3
    <2>2. (k + IntMax + 1) % c = k + IntMax + 1  BY <2>1, Remainder
    <2>3. Wrap(a + n) = k  BY <1>0, <1>1, <1>2, <2>2 DEF Wrap
    <2>4. QED  BY <1>2, <1>3, <2>3
<1>4. CASE ~(k <= IntMax)
    <2>1. k < 2 * IntMax  BY <1>0, <1>2
    <2>2. PICK r \in 0 .. c - 1 : r = k - IntMax - 1 /\ r < IntMax  BY <1>0, <1>1, <1>4, <2>1
    <2>3. k + IntMax + 1 \in Nat /\ k + IntMax + 1 = c * 1 + r  BY <1>0, <1>1, <2>2
    <2>4. (k + IntMax + 1) % c = r  BY <2>3, Remainder
    <2>5. Wrap(a + n) = r - IntMax - 1  BY <1>1, <1>2, <2>4 DEF Wrap
    <2>6. QED  BY <1>0, <1>2, <1>4, <2>2, <2>5
<1>5. QED  BY <1>3, <1>4

----------------------------------------------------------------------------
(* A complete read.                                                          *)
LEMMA ReadIsOfADay ==
    ASSUME ClockTypes, Len(regs) = 3
    PROVE  SecondsOfDay \in 0 .. Day - 1 /\ SecondsOfDay % Seconds = Decoded(regs[1])
<1>1. DOMAIN regs = 1 .. 3  BY DEF ClockTypes
<1>2. /\ Decoded(regs[1]) \in 0 .. Seconds - 1 /\ Decoded(regs[2]) \in 0 .. Minutes - 1
      /\ Decoded(regs[3]) \in 0 .. Hours - 1
    <2>1. \A i \in 1 .. 3 : Decoded(regs[i]) \in 0 .. <<Seconds, Minutes, Hours>>[i] - 1
        BY <1>1 DEF ClockTypes, RtcTypeOK
    <2>2. QED  BY <2>1
<1>3. SecondsOfDay = Together(Decoded(regs[3]), Decoded(regs[2]), Decoded(regs[1]))
    BY DEF SecondsOfDay, Together
<1>4. QED  BY <1>2, <1>3, TogetherInDay

LEMMA ReadIsTheTime ==
    ASSUME NEW t \in 0 .. Day - 1, Len(regs) = 3, Reads(t)
    PROVE  SecondsOfDay = t
<1>1. Decoded(regs[1]) = Hms(t)[1] /\ Decoded(regs[2]) = Hms(t)[2] /\ Decoded(regs[3]) = Hms(t)[3]
    BY DEF Reads
<1>2. SecondsOfDay = Together(Hms(t)[3], Hms(t)[2], Hms(t)[1])
    BY <1>1 DEF SecondsOfDay, Together
<1>3. QED  BY <1>2, HmsIs

LEMMA InitClock == RtcInit => ClockInv
<1> SUFFICES ASSUME RtcInit PROVE ClockInv  OBVIOUS
<1>1. Len(regs) = 0 /\ DOMAIN regs = {} /\ regs \in Seq(Nat)  BY DEF RtcInit
<1>2. RtcTypeOK
    <2>1. elapsed \in 0 .. MaxElapsed /\ start \in Unread .. Day - 1
        BY Days DEF RtcInit, Unread
    <2>2. {updating, binary, met, whole, torn} \subseteq BOOLEAN  BY DEF RtcInit
    <2>3. /\ Len(regs) \in 0 .. 3
          /\ \A i \in DOMAIN regs : Decoded(regs[i]) \in 0 .. <<Seconds, Minutes, Hours>>[i] - 1
        BY <1>1
    <2>4. time \in 0 .. Day - 1 /\ result \in {-1, 0}  BY DEF RtcInit
    <2>5. QED  BY <2>1, <2>2, <2>3, <2>4 DEF RtcTypeOK
<1>3. Reads(time)  BY <1>1 DEF Reads
<1>4. QED  BY <1>1, <1>2, <1>3, AwakeAt DEF RtcInit, ClockInv, ClockTypes, Rested, ReadStands, FirstRead, Kept

----------------------------------------------------------------------------
(* The actions.                                                              *)
LEMMA KeptByUpdateBegins == ASSUME ClockInv, UpdateBegins PROVE ClockInv'
<1> USE DEF UpdateBegins
<1>1. ClockTypes'
    <2>1. RtcTypeOK'  BY DEF ClockInv, ClockTypes, RtcTypeOK, Decoded, bcd_to_bin
    <2>2. QED  BY <2>1 DEF ClockInv, ClockTypes
<1>2. Reads(time)' = Reads(time) /\ Reads(Before(time))' = Reads(Before(time))
    BY DEF Reads, Hms, Decoded, bcd_to_bin, Before
<1>3. Decoded(regs[1])' = Decoded(regs[1]) /\ Hms(Before(time))' = Hms(Before(time))
    BY DEF Hms, Decoded, bcd_to_bin, Before
<1>4. ReadStands'  BY <1>2, <1>3 DEF ClockInv, ReadStands
<1>5. Rested' /\ FirstRead'  BY DEF ClockInv, Rested, FirstRead
<1>6. Kept'  BY DEF ClockInv, Kept, Since
<1>7. QED  BY <1>1, <1>4, <1>5, <1>6 DEF ClockInv

LEMMA KeptByUpdateEnds == ASSUME ClockInv, UpdateEnds PROVE ClockInv'
<1>0. time \in 0 .. Day - 1 /\ elapsed \in 0 .. Day + 2 /\ Day \in Nat /\ Day >= 2
    BY Days DEF ClockInv, ClockTypes, RtcTypeOK
<1>1. /\ (time + 1) % Day \in 0 .. Day - 1 /\ Before((time + 1) % Day) = time
    BY <1>0, BeforeAndAfter
<1>2. PICK now \in 0 .. Day - 1 : now = (time + 1) % Day  BY <1>1
<1>3. time' = now /\ Before(time') = time  BY <1>1, <1>2 DEF UpdateEnds
<1>4. /\ updating /\ ~updating' /\ sleep' = sleep /\ regs' = regs /\ start' = start /\ binary' = binary
      /\ result' = result /\ met' = (regs # <<>>) /\ whole' = (sleep = Awake)
      /\ torn' = (torn \/ Len(regs) \in 1 .. 2)
      /\ elapsed' = IF sleep = Awake \/ elapsed = Day + 2 THEN elapsed ELSE elapsed + 1
    BY Days DEF UpdateEnds
<1>5. elapsed' \in 0 .. Day + 2 /\ elapsed' >= elapsed  BY <1>0, <1>4
<1>20. /\ met' \in BOOLEAN /\ whole' \in BOOLEAN /\ torn' \in BOOLEAN
       /\ updating' \in BOOLEAN /\ binary' \in BOOLEAN
    <2>1. binary \in BOOLEAN  BY DEF ClockInv, ClockTypes, RtcTypeOK
    <2>2. met' \in BOOLEAN
        <3>1. met' = (regs # <<>>)  BY <1>4
        <3>2. QED  BY <3>1
    <2>4. whole' \in BOOLEAN
        <3>1. whole' = (sleep = Awake)  BY <1>4
        <3>2. QED  BY <3>1
    <2>5. torn' \in BOOLEAN
        <3>1. torn' = (torn \/ Len(regs) \in 1 .. 2)  BY <1>4
        <3>2. QED  BY <3>1
    <2>3. updating' = FALSE /\ binary' = binary  BY DEF UpdateEnds
    <2>6. QED  BY <2>1, <2>2, <2>3, <2>4, <2>5
<1>21. (met' <=> regs # <<>>) /\ (whole' <=> sleep = Awake) /\ (torn' <=> torn \/ Len(regs) \in 1 .. 2)
    BY ZenonT(20) DEF UpdateEnds
<1>6. \A x : Decoded(x)' = Decoded(x)  BY <1>4 DEF Decoded, bcd_to_bin
<1>7. ClockTypes'
    <2>1. \A i \in DOMAIN regs' : Decoded(regs[i])' \in 0 .. <<Seconds, Minutes, Hours>>[i] - 1
        BY <1>4 DEF ClockInv, ClockTypes, RtcTypeOK, Decoded, bcd_to_bin
    <2>2. {updating, binary, met, whole, torn}' \subseteq BOOLEAN
        BY <1>20
    <2>3. RtcTypeOK'  BY <1>3, <1>4, <1>5, <2>1, <2>2, Days DEF ClockInv, ClockTypes, RtcTypeOK
    <2>4. QED  BY <1>4, <2>3 DEF ClockInv, ClockTypes
<1>8. regs = <<>> <=> Len(regs) = 0  BY DEF ClockInv, ClockTypes
<1>9. Len(regs) \in 0 .. 3  BY DEF ClockInv, ClockTypes, RtcTypeOK
<1>10. sleep = Awake => regs = <<>>  BY AwakeAt DEF ClockInv, ReadStands
<1>11. Rested'
    <2>1. SUFFICES ASSUME sleep = Awake PROVE start = Unread /\ whole' /\ ~torn'  BY <1>4 DEF Rested
    <2>2. start = Unread /\ ~torn /\ regs = <<>>  BY <1>10, <2>1 DEF ClockInv, Rested
    <2>3. Len(regs) \notin 1 .. 2  BY <2>2
    <2>4. QED  BY <1>21, <2>1, <2>2, <2>3
<1>12. sleep # Awake => whole /\ ~met /\ Reads(time)  BY <1>4 DEF ClockInv, ReadStands
<1>13. ReadStands'
    <2>1. CASE regs = <<>>
        <3>1. Reads(time)'  BY <1>4, <1>8, <2>1 DEF Reads
        <3>2. QED  BY <1>4, <2>1, <3>1 DEF ClockInv, ReadStands
    <2>2. CASE regs # <<>>
        <3>1. sleep # Awake /\ Reads(time)  BY <1>10, <1>12, <2>2
        <3>2. Len(regs) \in 1 .. 3  BY <1>8, <1>9, <2>2
        <3>3. Decoded(regs[1])' = Hms(Before(time'))[1]
            BY <1>3, <1>4, <3>1, <3>2 DEF Reads, Decoded, bcd_to_bin
        <3>4. Reads(Before(time))'  BY <1>3, <1>4, <3>1 DEF Reads, Decoded, bcd_to_bin, Hms
        <3>5. Hms(Before(time))' = Hms(Before(time'))  BY DEF Hms, Before
        <3>6. ~torn' => Len(regs') = 3  BY <1>4, <1>21, <3>2
        <3>7. elapsed' >= 1  BY <1>0, <1>4, <3>1
        <3>8. QED  BY <1>4, <2>2, <3>1, <3>3, <3>4, <3>5, <3>6, <3>7 DEF ClockInv, ReadStands
    <2>3. QED  BY <2>1, <2>2
<1>14. FirstRead'
    <2>1. SUFFICES ASSUME sleep # Awake, start = Unread
                   PROVE  /\ regs # <<>> => elapsed' = IF met' THEN 1 ELSE 0
                          /\ ~met' => ~torn'
        BY <1>4 DEF FirstRead
    <2>2. regs # <<>> => elapsed = 0  BY <1>12, <2>1 DEF ClockInv, FirstRead
    <2>3. ~torn  BY <1>12, <2>1 DEF ClockInv, FirstRead
    <2>4. regs # <<>> => met' /\ elapsed' = 1  BY <1>0, <1>4, <1>21, <2>1, <2>2
    <2>5. ~met' => ~torn'
        <3>1. SUFFICES ASSUME ~met' PROVE ~torn'  OBVIOUS
        <3>2. Len(regs) \notin 1 .. 2  BY <1>8, <1>21, <3>1
        <3>3. QED  BY <1>21, <2>3, <3>2
    <2>6. QED  BY <2>4, <2>5
<1>15. Kept'
    <2>1. SUFFICES ASSUME start # Unread, sleep.seconds < Day
                   PROVE  /\ elapsed' <= Since(now) - start /\ elapsed' <= sleep.seconds
                          /\ ~whole'
                          /\ ~torn' => elapsed' = Since(now) - start
        BY <1>3, <1>4 DEF Kept, Since
    <2>2. sleep # Awake  BY <2>1 DEF ClockInv, Rested
    <2>3. start \in 0 .. Day - 1 /\ sleep.seconds \in Nat
        <3>1. start \in -1 .. Day - 1 /\ start # -1
            BY <2>1 DEF ClockInv, ClockTypes, RtcTypeOK, Unread
        <3>2. sleep.seconds \in Nat  BY <2>2, TheSleep DEF ClockInv
        <3>3. QED  BY <1>0, <3>1, <3>2
    <2>4. PICK off \in 0 .. Day - 1 : off = Since(time) - start  BY <1>0, <2>3, SinceGrows
    <2>5. elapsed <= off /\ elapsed <= sleep.seconds /\ off < sleep.seconds /\ (~torn => elapsed = off)
        BY <1>12, <2>1, <2>2, <2>4 DEF ClockInv, Kept
    <2>6. off <= Day - 2  BY <1>0, <2>1, <2>3, <2>5
    <2>7. Since(now) - start = off + 1  BY <1>0, <1>2, <2>3, <2>4, <2>6, SinceGrows
    <2>8. elapsed' = elapsed + 1  BY <1>0, <1>4, <2>2, <2>5, <2>6
    <2>9. ~whole'  BY <1>21, <2>2
    <2>10. ~torn' => ~torn  BY <1>21
    <2>11. elapsed' <= off + 1 /\ elapsed' <= sleep.seconds /\ (~torn => elapsed' = off + 1)
        BY <1>0, <2>3, <2>5, <2>8
    <2>12. QED  BY <2>7, <2>9, <2>10, <2>11
<1>16. QED  BY <1>7, <1>11, <1>13, <1>14, <1>15 DEF ClockInv

LEMMA KeptBySleepCommand ==
    ASSUME ClockInv, NEW n \in Requests, isr80h_command9_sleep(n) PROVE ClockInv'
<1>1. /\ sleep = Awake
      /\ \/ n > 0 /\ sleep' = [at |-> "poll", seconds |-> n] /\ result' = result
         \/ sleep' = Awake /\ result' \in {-1, 0}
    BY Days DEF isr80h_command9_sleep
<1>2. UNCHANGED <<time, updating, binary, regs, start, elapsed, met, whole, torn>>
    BY DEF isr80h_command9_sleep
<1>3. start = Unread /\ whole /\ ~torn /\ regs = <<>> /\ ~met
    BY <1>1, AwakeAt DEF ClockInv, Rested, ReadStands
<1>4. ClockTypes'
    <2>1. RtcTypeOK'  BY <1>1, <1>2 DEF ClockInv, ClockTypes, RtcTypeOK, Decoded, bcd_to_bin
    <2>2. [at |-> "poll", seconds |-> n] \in SleepCalls \/ sleep' = Awake  BY <1>1 DEF SleepCalls
    <2>3. QED  BY <1>1, <1>2, <2>1, <2>2 DEF ClockInv, ClockTypes
<1>5. Rested' /\ FirstRead' /\ Kept'  BY <1>2, <1>3 DEF Rested, FirstRead, Kept
<1>6. Reads(time)'  BY <1>2, <1>3 DEF Reads
<1>7. ReadStands'  BY <1>2, <1>3, <1>6 DEF ReadStands
<1>8. QED  BY <1>4, <1>5, <1>7 DEF ClockInv

LEMMA KeptByPoll == ASSUME ClockInv, is_update_in_progress PROVE ClockInv'
<1>1. /\ sleep.at = "poll" /\ sleep' = [sleep EXCEPT !.at = "read"]
      /\ UNCHANGED <<time, updating, binary, regs, start, elapsed, met, whole, torn, result>>
    BY DEF is_update_in_progress
<1>2. sleep # Awake  BY <1>1, AwakeAt
<1>3. sleep' \in SleepCalls /\ sleep' # Awake /\ sleep'.at = "read" /\ sleep'.seconds = sleep.seconds
    BY <1>1, <1>2, TheSleep DEF ClockInv
<1>4. ClockTypes'
    <2>1. RtcTypeOK'  BY <1>1 DEF ClockInv, ClockTypes, RtcTypeOK, Decoded, bcd_to_bin
    <2>2. QED  BY <1>1, <1>3, <2>1 DEF ClockInv, ClockTypes
<1>5. Rested' /\ FirstRead'  BY <1>1, <1>2, <1>3 DEF ClockInv, Rested, FirstRead
<1>6. Kept'  BY <1>1, <1>2, <1>3 DEF ClockInv, Kept, Since
<1>7. Reads(time)' = Reads(time) /\ Reads(Before(time))' = Reads(Before(time))
    BY <1>1 DEF Reads, Hms, Decoded, bcd_to_bin, Before
<1>8. regs = <<>> /\ ~met  BY <1>1 DEF ClockInv, ReadStands
<1>9. ReadStands'  BY <1>1, <1>2, <1>3, <1>7, <1>8 DEF ClockInv, ReadStands
<1>10. QED  BY <1>4, <1>5, <1>6, <1>9 DEF ClockInv

LEMMA KeptByReadRegister == ASSUME ClockInv, rtc_read_register PROVE ClockInv'
<1>1. /\ sleep.at = "read" /\ Len(regs) < 3
      /\ regs' = Append(regs, Register(Hms(time)[Len(regs) + 1]))
      /\ elapsed' = IF start = Unread /\ regs = <<>> THEN 0 ELSE elapsed
      /\ UNCHANGED <<time, updating, binary, sleep, start, met, whole, torn, result>>
    BY DEF rtc_read_register
<1>2. sleep # Awake  BY <1>1, AwakeAt
<1>3. regs \in Seq(Nat) /\ Len(regs) \in 0 .. 2 /\ time \in 0 .. Day - 1
    BY <1>1 DEF ClockInv, ClockTypes, RtcTypeOK
<1>4. PICK k \in 1 .. 3 : k = Len(regs) + 1
    <2>1. Len(regs) \in 0 .. 2  BY <1>3
    <2>2. PICK n \in 0 .. 2 : n = Len(regs)  BY <2>1
    <2>3. n + 1 \in 1 .. 3  OBVIOUS
    <2>4. QED  BY <2>2, <2>3
<1>5. /\ Hms(time)[k] \in 0 .. <<Seconds, Minutes, Hours>>[k] - 1 /\ Hms(time)[k] \in 0 .. 98
    <2>1. /\ Hms(time)[1] \in 0 .. Seconds - 1 /\ Hms(time)[2] \in 0 .. Minutes - 1
          /\ Hms(time)[3] \in 0 .. Hours - 1
        BY <1>3, HmsIs
    <2>2. Hours \in 1 .. 99 /\ Minutes \in 1 .. 99 /\ Seconds \in 1 .. 99  BY RtcConstants
    <2>3. k = 1 \/ k = 2 \/ k = 3  OBVIOUS
    <2>4. QED  BY <2>1, <2>2, <2>3
<1>6. PICK val \in Nat : val = Register(Hms(time)[k]) /\ Decoded(val) = Hms(time)[k]
    BY <1>5, Decodes
<1>7. regs' = Append(regs, val)  BY <1>1, <1>4, <1>6
<1>8. /\ regs' \in Seq(Nat) /\ Len(regs') = k /\ regs' # <<>> /\ regs'[k] = val
      /\ \A i \in 1 .. k - 1 : regs'[i] = regs[i]
    BY <1>3, <1>4, <1>7
<1>9. \A i \in 1 .. k : Decoded(regs[i])' = IF i = k THEN Hms(time)[k] ELSE Decoded(regs[i])
    BY <1>1, <1>4, <1>6, <1>8 DEF Decoded, bcd_to_bin
<1>10. ClockTypes'
    <2>1. \A i \in DOMAIN regs' : Decoded(regs[i])' \in 0 .. <<Seconds, Minutes, Hours>>[i] - 1
        <3>1. DOMAIN regs = 1 .. k - 1 /\ DOMAIN regs' = 1 .. k  BY <1>3, <1>4, <1>8
        <3>2. \A i \in 1 .. k - 1 : Decoded(regs[i]) \in 0 .. <<Seconds, Minutes, Hours>>[i] - 1
            BY <3>1 DEF ClockInv, ClockTypes, RtcTypeOK
        <3>3. QED  BY <1>5, <1>9, <3>1, <3>2
    <2>2. elapsed' \in 0 .. MaxElapsed  BY <1>1, Days DEF ClockInv, ClockTypes, RtcTypeOK
    <2>3. RtcTypeOK'  BY <1>1, <1>8, <2>1, <2>2 DEF ClockInv, ClockTypes, RtcTypeOK
    <2>4. QED  BY <1>1, <1>8, <2>3 DEF ClockInv, ClockTypes
<1>11. regs = <<>> <=> k = 1  BY <1>3, <1>4
<1>12. Rested'  BY <1>1, <1>2 DEF Rested
<1>13. ~met => Reads(time)'
    <2>1. SUFFICES ASSUME ~met PROVE \A i \in 1 .. k : Decoded(regs[i])' = Hms(time)[i]
        BY <1>1, <1>8 DEF Reads, Hms
    <2>2. \A i \in 1 .. k - 1 : Decoded(regs[i]) = Hms(time)[i]
        BY <1>3, <1>4, <2>1 DEF ClockInv, ReadStands, Reads
    <2>3. QED  BY <1>9, <2>2
<1>14. met => k # 1 /\ torn /\ elapsed' = elapsed /\ Decoded(regs[1])' = Decoded(regs[1])
    <2>1. SUFFICES ASSUME met
                   PROVE  k # 1 /\ torn /\ elapsed' = elapsed /\ Decoded(regs[1])' = Decoded(regs[1])
        OBVIOUS
    <2>2. k # 1 /\ torn
        <3>1. regs # <<>> /\ (~torn => Len(regs) = 3)  BY <2>1 DEF ClockInv, ReadStands
        <3>2. Len(regs) \in 0 .. 2  BY <1>3
        <3>3. Len(regs) # 3  BY <3>2
        <3>4. QED  BY <1>11, <3>1, <3>3
    <2>3. 1 \in 1 .. k /\ 1 # k  BY <2>2
    <2>4. QED  BY <1>1, <1>9, <1>11, <2>2, <2>3
<1>15. Hms(Before(time))' = Hms(Before(time))  BY <1>1 DEF Hms, Before
<1>16. ReadStands'  BY <1>1, <1>2, <1>8, <1>13, <1>14, <1>15 DEF ClockInv, ReadStands
<1>17. FirstRead'  BY <1>1, <1>8, <1>11, <1>14 DEF ClockInv, FirstRead, ReadStands
<1>18. Kept'  BY <1>1 DEF ClockInv, Kept, Since
<1>19. QED  BY <1>10, <1>12, <1>16, <1>17, <1>18 DEF ClockInv

\* The loop reads the time again; Since(time) is where the clock is.
LEMMA KeptBySleepLoop ==
    ASSUME ClockInv, SleepLoop
    PROVE  /\ ClockInv'
           /\ (sleep' = Awake /\ start + sleep.seconds <= IntMax) =>
                  elapsed <= sleep.seconds /\ (~torn => elapsed = sleep.seconds)
<1>0. /\ time \in 0 .. Day - 1 /\ elapsed \in 0 .. Day + 2 /\ Day \in Nat /\ Day >= 2 /\ IntMax \in Nat
      /\ Day <= IntMax
    BY Days DEF ClockInv, ClockTypes, RtcTypeOK
<1>1. /\ sleep.at = "read" /\ Len(regs) = 3 /\ regs' = <<>> /\ met' = FALSE
      /\ UNCHANGED <<time, updating, binary>>
    BY DEF SleepLoop
<1>2. sleep # Awake  BY <1>1, AwakeAt
<1>3. /\ sleep.seconds \in Nat /\ sleep.seconds >= 1 /\ sleep.seconds <= IntMax
      /\ [sleep EXCEPT !.at = "poll"] \in SleepCalls /\ [sleep EXCEPT !.at = "poll"] # Awake
      /\ [sleep EXCEPT !.at = "poll"].at = "poll" /\ [sleep EXCEPT !.at = "poll"].seconds = sleep.seconds
    BY <1>2, TheSleep DEF ClockInv
<1>4. PICK n \in 0 .. Day - 1 : n = SecondsOfDay /\ n % Seconds = Decoded(regs[1])
    BY <1>1, ReadIsOfADay DEF ClockInv
<1>5. ~met => n = time
    <2>1. ~met => Reads(time)  BY DEF ClockInv, ReadStands
    <2>2. QED  BY <1>0, <1>1, <1>4, <2>1, ReadIsTheTime
<1>6. PICK was \in 0 .. Day - 1 : was = Before(time) /\ was = IF time = 0 THEN Day - 1 ELSE time - 1
    BY <1>0, BeforeAndAfter
<1>7. met => /\ ~whole /\ elapsed >= 1 /\ n # time
             /\ ~torn => n = was
    <2>1. SUFFICES ASSUME met
                   PROVE  ~whole /\ elapsed >= 1 /\ n # time /\ (~torn => n = was)
        OBVIOUS
    <2>2. /\ ~whole /\ elapsed >= 1 /\ Decoded(regs[1]) = Hms(Before(time))[1]
          /\ ~torn => Reads(was)
        BY <1>6, <2>1 DEF ClockInv, ReadStands
    <2>3. n # time
        <3>1. Hms(Before(time))[1] # Hms(time)[1]  BY <1>0, NextSecond
        <3>2. Hms(time)[1] = time % Seconds  BY <1>0, HmsIs
        <3>3. n % Seconds # time % Seconds  BY <1>4, <2>2, <3>1, <3>2
        <3>4. QED  BY <3>3
    <2>4. ~torn => n = was  BY <1>1, <1>4, <2>2, ReadIsTheTime
    <2>5. QED  BY <2>2, <2>3, <2>4
<1>8. {updating, binary, met, whole, torn} \subseteq BOOLEAN /\ start \in -1 .. Day - 1 /\ result \in {-1, 0}
    BY DEF ClockInv, ClockTypes, RtcTypeOK, Unread
\* What every outcome has in common.
<1>9. ASSUME sleep' = Awake \/ sleep' = [sleep EXCEPT !.at = "poll"],
             start' \in -1 .. Day - 1, elapsed' \in 0 .. Day + 2,
             whole' \in BOOLEAN, torn' \in BOOLEAN, result' \in {-1, 0},
             updating /\ sleep' # Awake => whole'
      PROVE  ClockTypes' /\ ReadStands'
    <2>1. Len(regs') = 0 /\ DOMAIN regs' = {} /\ regs' \in Seq(Nat)  BY <1>1
    <2>2. {updating, binary, met, whole, torn}' \subseteq BOOLEAN  BY <1>1, <1>8, <1>9
    <2>3. elapsed' \in 0 .. MaxElapsed /\ time' \in 0 .. Day - 1  BY <1>0, <1>1, <1>9, Days
    <2>4. RtcTypeOK'  BY <1>9, <2>1, <2>2, <2>3 DEF RtcTypeOK, Unread
    <2>5. ClockTypes'  BY <1>3, <1>9, <2>1, <2>4 DEF ClockTypes
    <2>6. Reads(time)'  BY <2>1 DEF Reads
    <2>7. ReadStands'  BY <1>1, <1>9, <2>6 DEF ReadStands
    <2>8. QED  BY <2>5, <2>7
<1>10. updating => whole  BY <1>2 DEF ClockInv, ReadStands
<1>11. CASE /\ start = Unread /\ start' = SecondsOfDay /\ sleep' = [sleep EXCEPT !.at = "poll"]
            /\ whole' = (whole \/ ~met) /\ UNCHANGED <<elapsed, torn, result>>
    <2>1. whole' \in BOOLEAN /\ (whole' <=> whole \/ ~met)  BY <1>11, Zenon
    <2>2. ClockTypes' /\ ReadStands'
        <3>1. start' \in -1 .. Day - 1  BY <1>0, <1>4, <1>11
        <3>2. torn' \in BOOLEAN  BY <1>8, <1>11
        <3>3. elapsed' \in 0 .. Day + 2 /\ result' \in {-1, 0}  BY <1>0, <1>8, <1>11
        <3>4. QED  BY <1>9, <1>10, <1>11, <2>1, <3>1, <3>2, <3>3
    <2>3. start' = n /\ n # Unread /\ elapsed' = elapsed /\ torn' = torn /\ time' = time
          /\ sleep' # Awake /\ sleep'.seconds = sleep.seconds
        BY <1>1, <1>3, <1>4, <1>11 DEF Unread
    <2>4. elapsed = (IF met THEN 1 ELSE 0) /\ (~met => ~torn)
        <3>1. regs # <<>>  BY <1>1
        <3>2. QED  BY <1>2, <1>11, <3>1 DEF ClockInv, FirstRead
    <2>5. Kept'
        <3>1. PICK off \in Int : off = (IF time < n THEN time + Day ELSE time) - n  BY <1>0, <1>4
        <3>2. Since(time)' - start' = off  BY <2>3, <3>1 DEF Since
        <3>3. elapsed <= sleep.seconds  BY <1>3, <2>4
        <3>4. elapsed <= off  BY <1>0, <1>5, <1>7, <2>4, <3>1
        <3>5. whole' => off < sleep.seconds
            <4>1. whole' => ~met  BY <1>7, <2>1
            <4>2. ~met => off = 0  BY <1>0, <1>5, <3>1
            <4>3. QED  BY <1>3, <4>1, <4>2
        <3>6. ~torn => elapsed = off
            <4>1. met /\ ~torn => off = 1  BY <1>0, <1>6, <1>7, <3>1
            <4>2. ~met => off = 0  BY <1>0, <1>5, <3>1
            <4>3. QED  BY <2>4, <4>1, <4>2
        <3>7. QED  BY <2>3, <3>2, <3>3, <3>4, <3>5, <3>6 DEF Kept
    <2>6. Rested' /\ FirstRead'  BY <2>3 DEF Rested, FirstRead
    <2>7. QED  BY <2>2, <2>3, <2>5, <2>6 DEF ClockInv
<1>12. ASSUME start # Unread
       PROVE  /\ start \in 0 .. Day - 1 /\ Since(n) \in Nat /\ Since(n) < start + Day
              /\ TooSoon(SinceStart, sleep.seconds) <=>
                     (start + sleep.seconds <= IntMax /\ Since(n) < start + sleep.seconds)
    <2>1. start \in 0 .. Day - 1  BY <1>0, <1>8, <1>12 DEF Unread
    <2>2. SinceStart = Since(n)  BY <1>4 DEF SinceStart, Since
    <2>3. Since(n) \in Nat /\ Since(n) < start + Day /\ Since(n) >= start  BY <1>0, <2>1 DEF Since
    <2>4. PICK w \in Int : /\ w = Wrap(start + sleep.seconds)
                           /\ IF start + sleep.seconds <= IntMax THEN w = start + sleep.seconds ELSE w < 0
        BY <1>3, <2>1, WrapIs
    <2>5. TooSoon(SinceStart, sleep.seconds) <=> Since(n) < w  BY <2>2, <2>4 DEF TooSoon
    <2>6. Since(n) < w <=> (start + sleep.seconds <= IntMax /\ Since(n) < start + sleep.seconds)
        BY <1>0, <1>3, <2>1, <2>3, <2>4
    <2>7. QED  BY <2>1, <2>3, <2>5, <2>6
<1>13. CASE /\ start # Unread /\ TooSoon(SinceStart, sleep.seconds)
            /\ sleep' = [sleep EXCEPT !.at = "poll"] /\ whole' = (whole \/ ~met)
            /\ UNCHANGED <<start, elapsed, torn, result>>
    <2>1. whole' \in BOOLEAN /\ (whole' <=> whole \/ ~met)  BY <1>13, Zenon
    <2>2. ClockTypes' /\ ReadStands'
        <3>1. start' \in -1 .. Day - 1  BY <1>8, <1>13
        <3>2. torn' \in BOOLEAN  BY <1>8, <1>13
        <3>3. elapsed' \in 0 .. Day + 2 /\ result' \in {-1, 0}  BY <1>0, <1>8, <1>13
        <3>4. QED  BY <1>9, <1>10, <1>13, <2>1, <3>1, <3>2, <3>3
    <2>3. start' = start /\ start # Unread /\ elapsed' = elapsed /\ torn' = torn /\ time' = time
          /\ sleep' # Awake /\ sleep'.seconds = sleep.seconds
        BY <1>1, <1>3, <1>13
    <2>4. Rested' /\ FirstRead'  BY <2>3 DEF Rested, FirstRead
    <2>5. Kept'
        <3>1. SUFFICES ASSUME sleep.seconds < Day
                       PROVE  /\ elapsed <= Since(time) - start /\ elapsed <= sleep.seconds
                              /\ whole' => Since(time) - start < sleep.seconds
                              /\ ~torn => elapsed = Since(time) - start
            BY <2>3 DEF Kept, Since
        <3>2. /\ elapsed <= Since(time) - start /\ elapsed <= sleep.seconds
              /\ whole => Since(time) - start < sleep.seconds
              /\ ~torn => elapsed = Since(time) - start
            BY <2>3, <3>1 DEF ClockInv, Kept
        <3>3. ~met => Since(time) - start < sleep.seconds
            <4>1. start \in 0 .. Day - 1 /\ Since(n) \in Nat /\ Since(n) < start + sleep.seconds
                BY <1>12, <1>13
            <4>2. ~met => Since(time) = Since(n)  BY <1>5
            <4>3. Since(n) - start < sleep.seconds  BY <1>0, <1>3, <4>1
            <4>4. QED  BY <4>2, <4>3
        <3>4. QED  BY <2>1, <3>2, <3>3
    <2>6. QED  BY <2>2, <2>3, <2>4, <2>5 DEF ClockInv
<1>14. CASE /\ start # Unread /\ ~TooSoon(SinceStart, sleep.seconds)
            /\ sleep' = Awake /\ start' = Unread /\ elapsed' = 0 /\ whole' = TRUE /\ torn' = FALSE
            /\ result' = 0
    <2>1. ClockTypes' /\ ReadStands'
        <3>1. start' \in -1 .. Day - 1 /\ elapsed' \in 0 .. Day + 2  BY <1>0, <1>14 DEF Unread
        <3>2. QED  BY <1>9, <1>14, <3>1
    <2>2. Rested' /\ FirstRead' /\ Kept'  BY <1>14 DEF Rested, FirstRead, Kept
    <2>3. SUFFICES ASSUME start + sleep.seconds <= IntMax
                   PROVE  elapsed <= sleep.seconds /\ (~torn => elapsed = sleep.seconds)
        BY <2>1, <2>2 DEF ClockInv
    <2>4. start \in 0 .. Day - 1 /\ Since(n) \in Nat /\ Since(n) < start + Day
          /\ Since(n) >= start + sleep.seconds
        BY <1>0, <1>3, <1>12, <1>14, <2>3
    <2>5. sleep.seconds < Day  BY <1>0, <1>3, <2>4
    <2>6. PICK off \in 0 .. Day - 1 : off = Since(time) - start  BY <1>0, <2>4, SinceGrows
    <2>7. elapsed <= off /\ elapsed <= sleep.seconds /\ (~torn => elapsed = off)
        BY <1>14, <2>5, <2>6 DEF ClockInv, Kept
    <2>8. ~met => off >= sleep.seconds
        <3>1. ~met => Since(time) = Since(n)  BY <1>5
        <3>2. Since(n) - start >= sleep.seconds  BY <1>0, <1>3, <2>4
        <3>3. QED  BY <2>6, <3>1, <3>2
    <2>9. met /\ ~torn => off >= sleep.seconds + 1
        <3>1. SUFFICES ASSUME met, ~torn PROVE off >= sleep.seconds + 1  OBVIOUS
        <3>2. n = was /\ elapsed >= 1 /\ elapsed = off  BY <1>7, <2>7, <3>1
        <3>3. Since(Before(time)) = Since(time) - 1  BY <1>0, <2>4, <2>6, <3>2, SinceGrows
        <3>4. Since(n) = off + start - 1
            <4>1. Since(n) = Since(time) - 1  BY <1>6, <3>2, <3>3
            <4>2. Since(time) \in Int  BY <1>0, <2>4 DEF Since
            <4>3. QED  BY <2>4, <2>6, <4>1, <4>2
        <3>5. QED  BY <1>0, <1>3, <2>4, <3>4
    <2>10. QED  BY <1>0, <1>3, <2>7, <2>8, <2>9
<1>15. QED  BY <1>11, <1>13, <1>14 DEF SleepLoop

----------------------------------------------------------------------------
InTime ==
    (sleep # Awake /\ sleep' = Awake /\ start + sleep.seconds <= IntMax) =>
        elapsed <= sleep.seconds /\ (~torn => elapsed = sleep.seconds)

LEMMA ClockSteps == ASSUME ClockInv, [RtcNext]_rtcVars PROVE ClockInv' /\ (InTime \/ UNCHANGED rtcVars)
<1>1. CASE UpdateBegins
    <2>1. sleep' = sleep  BY <1>1 DEF UpdateBegins
    <2>2. QED  BY <1>1, <2>1, KeptByUpdateBegins DEF InTime
<1>2. CASE UpdateEnds
    <2>1. sleep' = sleep  BY <1>2 DEF UpdateEnds
    <2>2. QED  BY <1>2, <2>1, KeptByUpdateEnds DEF InTime
<1>3. ASSUME NEW n \in Requests, isr80h_command9_sleep(n) PROVE ClockInv' /\ InTime
    <2>1. sleep = Awake  BY <1>3 DEF isr80h_command9_sleep
    <2>2. QED  BY <1>3, <2>1, KeptBySleepCommand DEF InTime
<1>4. CASE is_update_in_progress
    <2>1. sleep.at = "poll" /\ sleep' = [sleep EXCEPT !.at = "read"]  BY <1>4 DEF is_update_in_progress
    <2>2. sleep' # Awake  BY <2>1, AwakeAt, TheSleep DEF ClockInv
    <2>3. QED  BY <1>4, <2>2, KeptByPoll DEF InTime
<1>5. CASE rtc_read_register
    <2>1. sleep' = sleep  BY <1>5 DEF rtc_read_register
    <2>2. QED  BY <1>5, <2>1, KeptByReadRegister DEF InTime
<1>6. CASE SleepLoop
    <2>1. InTime  BY <1>6, KeptBySleepLoop DEF InTime
    <2>2. QED  BY <1>6, <2>1, KeptBySleepLoop
<1>7. CASE UNCHANGED rtcVars
    <2>1. \A x : Decoded(x)' = Decoded(x)  BY <1>7 DEF rtcVars, Decoded, bcd_to_bin
    <2>2. RtcTypeOK'  BY <1>7 DEF rtcVars, ClockInv, ClockTypes, RtcTypeOK, Decoded, bcd_to_bin
    <2>3. ClockTypes'  BY <1>7, <2>2 DEF rtcVars, ClockInv, ClockTypes
    <2>4. Rested' /\ FirstRead' /\ Kept'  BY <1>7 DEF rtcVars, ClockInv, Rested, FirstRead, Kept, Since
    <2>5. Reads(time)' = Reads(time) /\ Reads(Before(time))' = Reads(Before(time))
        BY <1>7 DEF rtcVars, Reads, Hms, Decoded, bcd_to_bin, Before
    <2>6. Decoded(regs[1])' = Decoded(regs[1]) /\ Hms(Before(time))' = Hms(Before(time))
        BY <1>7 DEF rtcVars, Hms, Decoded, bcd_to_bin, Before
    <2>7. ReadStands'  BY <1>7, <2>5, <2>6 DEF rtcVars, ClockInv, ReadStands
    <2>8. QED  BY <1>7, <2>3, <2>4, <2>7 DEF ClockInv
<1>8. QED  BY <1>1, <1>2, <1>3, <1>4, <1>5, <1>6, <1>7 DEF RtcNext, Clock, Sleeping

(* A sleep of any length below the largest int, in either data mode, with    *)
(* updates wherever they may come: it is never longer than asked for, and    *)
(* exact unless an update tore a read (rtc.c:34-88).                         *)
THEOREM SleepsWakeOnTime == RtcSpec => WakesOnTime
<1>1. RtcInit => ClockInv  BY InitClock
<1>2. ClockInv /\ [RtcNext]_rtcVars => ClockInv'  BY ClockSteps
<1>3. ClockInv => RtcTypeOK  BY DEF ClockInv, ClockTypes
<1>4. ClockInv /\ [RtcNext]_rtcVars =>
         [(sleep # Awake /\ sleep' = Awake /\ start + sleep.seconds <= IntMax) =>
             /\ elapsed <= sleep.seconds
             /\ ~torn => elapsed = sleep.seconds]_rtcVars
    BY ClockSteps DEF InTime
<1>5. QED  BY <1>1, <1>2, <1>3, <1>4, PTL DEF RtcSpec, WakesOnTime
=============================================================================
