------------------------------- MODULE Sound -------------------------------
(* audio/audio.c and audio/sb16.c with the millisecond sleep of rtc/rtc.c:   *)
(* the PC speaker, which sounds at the rate of channel 2 of the timer while  *)
(* both low bits of port 0x61 are set, and a Sound Blaster, whose DSP takes  *)
(* commands and their parameters byte by byte through one port.  A call puts *)
(* the bytes it sends in `todo`, and nothing else of the kernel runs until   *)
(* they are sent; a byte the DSP does not take in time is given up, which    *)
(* sb16_write_dsp reports and nobody looks at.  Volumes are left out.        *)
EXTENDS Integers, Sequences

CONSTANTS Word,       \* the counts of a timer channel, 2^16
          TicksPerMs, \* of the timer, 1193
          Delays,     \* bound: the milliseconds the kernel sleeps (3 in a reset)
          Tones,      \* the divisors of the three beeps
          Buffers,    \* SB16_MAX_BUFFERS
          Sounds      \* bound: the sounds played, named by the two bytes of their length

ASSUME SoundConstants ==
    /\ {Word, TicksPerMs} \subseteq Nat \ {0} /\ Delays \subseteq Nat \ {0}
    /\ \A ms \in Delays : (ms * TicksPerMs) % Word # 1  \* a wave has two halves
    /\ Tones \subseteq 1 .. Word - 1 /\ Buffers \in Nat
    /\ Sounds \subseteq (0 .. 255) \X (0 .. 255)

VARIABLES gate,    \* bit 0 of port 0x61: the timer's channel 2 counts
          data,    \* bit 1 of port 0x61: and drives the speaker
          pit,     \* the count loaded into channel 2
          present, \* there is a Sound Blaster
          dsp,     \* its DSP
          dma,     \* channel 1 of the DMA controller: unmasked or not, and the memory it reads
          driver,  \* the variables of audio.c and sb16.c
          blocks,  \* what the driver holds of the kernel heap
          call,    \* the call in progress: "none", a part of "init", or any "other"
          todo,    \* what is left of its output
          tone,    \* the tone last asked for, or Silence
          slept,   \* the kernel has used channel 2 to sleep since
          lost,    \* the DSP has missed a byte since its last reset
          given    \* the memory of the last sound started and not stopped, or Nobody's

vars == <<gate, data, pit, present, dsp, dma, driver, blocks, call, todo, tone, slept, lost, given>>
kernel == <<driver, blocks, call>>
history == <<tone, slept, given>>

Silence == 0
NoMemory == "none"
Sounding == gate /\ data

----------------------------------------------------------------------------
(* The DSP: a command byte, then as many parameters as the command has.      *)
SetTimeConstant == \h40
SetOutputRate == \h41
SingleCycle == \h14
AutoInit == \h1C
PauseDma == \hD0
SpeakerOn == \hD1
SpeakerOff == \hD3
GetVersion == \hE1
TimeConstant == 256 - 1000000 \div 22050  \* as it happens, SpeakerOff

Parameters(command) ==
    CASE command = SetTimeConstant -> 1
      [] command \in {SetOutputRate, SingleCycle, AutoInit} -> 2
      [] OTHER -> 0

\* `left` parameters of `command` are still to come.
Reset == [command |-> 0, left |-> 0, speaker |-> FALSE, mode |-> 0]

\* d after a command with its parameters; one it does not know it ignores.
Obey(d, command) ==
    CASE command \in {SpeakerOn, SpeakerOff} -> [d EXCEPT !.speaker = command = SpeakerOn]
      [] command \in {SingleCycle, AutoInit} -> [d EXCEPT !.mode = command]
      [] command = PauseDma                  -> [d EXCEPT !.mode = 0]
      [] OTHER                               -> d

\* d after a byte: a parameter of the command before, or a command.
Take(d, byte) ==
    LET command == IF d.left = 0 THEN byte ELSE d.command
        left == IF d.left = 0 THEN Parameters(byte) ELSE d.left - 1
    IN  IF left > 0 THEN [d EXCEPT !.command = command, !.left = left]
        ELSE Obey([d EXCEPT !.command = 0, !.left = 0], command)

----------------------------------------------------------------------------
Init ==
    /\ gate \in BOOLEAN /\ data = FALSE /\ pit = 0
    /\ present \in BOOLEAN
    /\ dsp = Reset
    /\ dma = [open |-> FALSE, memory |-> NoMemory]
    /\ driver = [inserted |-> FALSE, initialized |-> FALSE, playing |-> FALSE, speaker_on |-> FALSE,
                 beep_buffer |-> FALSE, buffers |-> 0]
    /\ blocks = 0
    /\ call = "none"
    /\ todo = <<>>
    /\ tone = Silence /\ slept = FALSE /\ lost = FALSE /\ given = NoMemory

----------------------------------------------------------------------------
(* Output, one item at a time.                                               *)
Dsp(byte) == [port |-> "dsp", byte |-> byte]
MaskDma == [port |-> "dma", open |-> FALSE]
UnmaskDma(sound) == [port |-> "dma", open |-> TRUE, memory |-> sound]
ResetPort == [port |-> "reset"]
Sleep(ms) == [port |-> "timer", ms |-> ms]
sb16_reset == <<ResetPort, Sleep(3)>>
Speaker(on) == <<Dsp(IF on THEN SpeakerOn ELSE SpeakerOff)>>
SampleRate == <<Dsp(SetOutputRate), Dsp(\h56), Dsp(\h22)>>    \* 22050

HeadIs(port) == todo # <<>> /\ Head(todo).port = port

\* Seeded fault: the wait for the DSP has no end.
WriteForever ==
    /\ HeadIs("dsp")
    /\ present /\ dsp' = Take(dsp, Head(todo).byte) /\ UNCHANGED lost /\ todo' = Tail(todo)
    /\ UNCHANGED <<gate, data, pit, present, dma, kernel, history>>

\* The DSP takes the byte, or stays busy (always, if there is none) for a hundred polls.
sb16_write_dsp ==
    /\ HeadIs("dsp")
    /\ \/ present /\ dsp' = Take(dsp, Head(todo).byte) /\ UNCHANGED lost
       \/ lost' = TRUE /\ UNCHANGED dsp
    /\ todo' = Tail(todo)
    /\ UNCHANGED <<gate, data, pit, present, dma, kernel, history>>

WriteResetPort ==
    /\ HeadIs("reset")
    /\ dsp' = Reset
    /\ lost' = FALSE
    /\ todo' = Tail(todo)
    /\ UNCHANGED <<gate, data, pit, present, dma, kernel, history>>

WriteDma ==
    /\ HeadIs("dma")
    /\ dma' = IF Head(todo).open THEN [open |-> TRUE, memory |-> Head(todo).memory]
                                ELSE [dma EXCEPT !.open = FALSE]
    /\ todo' = Tail(todo)
    /\ UNCHANGED <<gate, data, pit, present, dsp, lost, kernel, history>>

\* The count is cut to sixteen bits; the mode byte 0xB6 selects a square wave.
sleep_ms ==
    /\ HeadIs("timer")
    /\ pit' = (Head(todo).ms * TicksPerMs) % Word
    /\ slept' = TRUE
    /\ todo' = <<[port |-> "poll", ms |-> Head(todo).ms, ticks |-> 0]>> \o Tail(todo)
    /\ UNCHANGED <<gate, data, present, dsp, dma, kernel, tone, lost, given>>

\* Channel 2's output: high in the first half of the wave, and always without the gate.
OutHigh(ticks) ==
    LET count == IF pit = 0 THEN Word ELSE pit
    IN  ~gate \/ ticks % count < (count + 1) \div 2

\* A reading of port 0x61 for each tick; with the gate closed every later one is the same.
PollTimer ==
    /\ HeadIs("poll")
    /\ OutHigh(Head(todo).ticks) => gate
    /\ todo' = IF OutHigh(Head(todo).ticks) THEN [todo EXCEPT ![1].ticks = @ + 1] ELSE Tail(todo)
    /\ UNCHANGED <<gate, data, pit, present, dsp, dma, kernel, history, lost>>

Output == sb16_write_dsp \/ WriteDma \/ WriteResetPort \/ sleep_ms \/ PollTimer

----------------------------------------------------------------------------
(* Calls.  One begins; its output is out, the driver's variables become d.   *)
Begin(out, d) ==
    /\ call = "none" /\ driver.inserted
    /\ call' = "other" /\ todo' = out /\ driver' = d
    /\ UNCHANGED <<present, dsp, dma, lost>>

Return ==
    /\ call = "other" /\ todo = <<>>
    /\ call' = "none"
    /\ UNCHANGED <<gate, data, pit, present, dsp, dma, driver, blocks, todo, lost, history>>

\* The device is in the list before it is initialised, and stays there if that fails.
audio_init ==
    /\ ~driver.inserted
    /\ driver' = [driver EXCEPT !.inserted = TRUE]
    /\ call' = "reset"
    /\ todo' = sb16_reset
    /\ UNCHANGED <<gate, data, pit, present, dsp, dma, blocks, lost, history>>

\* sb16_init: the DSP answers the reset in time or not,
AfterReset ==
    /\ call = "reset" /\ todo = <<>>
    /\ \/ present /\ call' = "detect" /\ todo' = <<Dsp(GetVersion)>>
       \/ call' = "none" /\ UNCHANGED todo
    /\ UNCHANGED <<gate, data, pit, present, dsp, dma, driver, blocks, lost, history>>

\* A buffer there is no memory for is left out.
BuffersCreated(d) == {[d EXCEPT !.buffers = n] : n \in 0 .. Buffers}
BuffersDestroyed(d) == [d EXCEPT !.buffers = 0]

\* A version came, which it does not when a byte was lost.
Detected == present /\ ~lost

\* and the version or not.
AfterDetect ==
    /\ call = "detect" /\ todo = <<>>
    /\ \/ /\ Detected
          /\ driver' \in BuffersCreated([driver EXCEPT !.initialized = TRUE, !.speaker_on = TRUE])
          /\ call' = "other" /\ todo' = Speaker(TRUE)
          /\ blocks' = blocks + driver'.buffers
       \/ /\ call' = "none"
          /\ UNCHANGED <<driver, todo, blocks>>
    /\ UNCHANGED <<gate, data, pit, present, dsp, dma, lost, history>>

\* Seeded fault: the DMA channel is left open.
StopByDspOnly == IF driver.playing THEN <<Dsp(PauseDma)>> ELSE <<>>
\* sb16_stop_playback acts on what sb16_start_playback started only.
StopOutput == IF driver.playing THEN <<Dsp(PauseDma), MaskDma>> ELSE <<>>
Stopped == [driver EXCEPT !.playing = FALSE]

\* sb16_stop_beep: the same, and the buffer of the beep is freed.
BeepStopped == [Stopped EXCEPT !.beep_buffer = FALSE]
BlocksWithoutBeep == blocks - (IF driver.beep_buffer THEN 1 ELSE 0)

Play ==
    /\ Begin(Speaker(TRUE), [driver EXCEPT !.speaker_on = TRUE])
    /\ UNCHANGED <<gate, data, pit, blocks, history>>

Pause ==
    /\ Begin(StopOutput, Stopped)
    /\ given' = NoMemory
    /\ UNCHANGED <<gate, data, pit, blocks, tone, slept>>

Stop ==
    /\ Begin(StopOutput, BeepStopped)
    /\ blocks' = BlocksWithoutBeep
    /\ gate' = FALSE /\ data' = FALSE
    /\ given' = NoMemory /\ tone' = Silence
    /\ UNCHANGED <<pit, slept>>

\* Seeded fault: the channel is connected but not opened.
DataOnly == gate' = gate /\ data' = TRUE
\* port61 | 3
OpenSpeaker == gate' = TRUE /\ data' = TRUE

Beep(divisor) ==
    /\ Begin(<<>>, driver)
    /\ OpenSpeaker
    /\ pit' = divisor
    /\ tone' = divisor /\ slept' = FALSE
    /\ UNCHANGED <<blocks, given>>

ResetDevice ==
    /\ Begin(sb16_reset \o Speaker(TRUE), [driver EXCEPT !.speaker_on = TRUE])
    /\ UNCHANGED <<gate, data, pit, blocks, history>>

\* virtual_audio_control.
Control == Play \/ Pause \/ Stop \/ ResetDevice \/ \E divisor \in Tones : Beep(divisor)

\* Seeded fault: the length has one byte.
SimplePlaybackShort(low, high) ==
    <<Dsp(SetTimeConstant), Dsp(TimeConstant), Dsp(SingleCycle), Dsp(low)>>
\* The size less one; no DMA is programmed, and device.playing is not set.
sb16_simple_playback(low, high) ==
    <<Dsp(SetTimeConstant), Dsp(TimeConstant), Dsp(SingleCycle), Dsp(low), Dsp(high)>>

\* The beep before is stopped; then the new one's buffer is allocated, or there is no memory.
sb16_play_beep ==
    /\ \/ ~driver.initialized /\ Begin(StopOutput, BeepStopped) /\ blocks' = BlocksWithoutBeep
       \/ /\ driver.initialized
          /\ Begin(StopOutput \o Speaker(TRUE), [BeepStopped EXCEPT !.speaker_on = TRUE])
          /\ blocks' = BlocksWithoutBeep
       \/ /\ driver.initialized
          /\ Begin(StopOutput \o Speaker(TRUE) \o sb16_simple_playback(\hFF, \h1F),
                   [BeepStopped EXCEPT !.speaker_on = TRUE, !.beep_buffer = TRUE])
          /\ blocks' = BlocksWithoutBeep + 1
    /\ given' = NoMemory
    /\ UNCHANGED <<gate, data, pit, tone, slept>>

sb16_start_playback(sound, loop) ==
    /\ driver.initialized
    /\ Begin(<<UnmaskDma(sound)>> \o SampleRate \o
                <<Dsp(IF loop THEN AutoInit ELSE SingleCycle), Dsp(sound[1]), Dsp(sound[2])>>,
              [driver EXCEPT !.playing = TRUE])
    /\ given' = sound
    /\ UNCHANGED <<gate, data, pit, blocks, tone, slept>>

\* The buffer of a beep is kept.
sb16_shutdown ==
    /\ Begin(StopOutput \o Speaker(FALSE),
             BuffersDestroyed([Stopped EXCEPT !.speaker_on = FALSE, !.initialized = FALSE]))
    /\ blocks' = blocks - driver.buffers
    /\ given' = NoMemory
    /\ UNCHANGED <<gate, data, pit, tone, slept>>

WaitFrame(ms) ==
    /\ Begin(<<Sleep(ms)>>, driver)
    /\ UNCHANGED <<gate, data, pit, blocks, history>>

----------------------------------------------------------------------------
\* The controller has moved the whole buffer and masks the channel; the DSP interrupts,
\* and the handler acknowledges and does no more.
BufferEnds ==
    /\ dma.open /\ dsp.mode # 0
    /\ dma' = [dma EXCEPT !.open = FALSE]
    /\ dsp' = [dsp EXCEPT !.mode = IF @ = AutoInit THEN @ ELSE 0]
    /\ UNCHANGED <<gate, data, pit, present, kernel, todo, lost, history>>

Kernel == Output \/ Return \/ AfterReset \/ AfterDetect
Call ==
    \/ audio_init \/ Control \/ sb16_play_beep \/ sb16_shutdown
    \/ \E sound \in Sounds, loop \in BOOLEAN : sb16_start_playback(sound, loop)
    \/ \E ms \in Delays : WaitFrame(ms)

Next == Kernel \/ Call \/ BufferEnds

\* A call has the processor to itself until it returns.
Spec == Init /\ [][Next]_vars /\ WF_vars(Kernel)
----------------------------------------------------------------------------
(* Between calls a DSP that missed no byte since its last reset waits for a  *)
(* command and has its speaker as the driver believes, after any calls: no   *)
(* handler leaves a parameter out, which the DSP would take from the next    *)
(* one's command (sb16.c:286-305, 338-352, 437-464).                         *)
InStep ==
    (call = "none" /\ present /\ ~lost) =>
        /\ dsp.left = 0
        /\ dsp.speaker = driver.speaker_on

(* The PC speaker sounds from a beep until the stop and at no other time,    *)
(* and has the tone of the last beep unless the kernel slept since: a sleep  *)
(* and a reset of the other device load the same channel (audio.c:136-187,   *)
(* rtc.c:99-112).                                                            *)
ToneAsAsked ==
    call = "none" =>
        /\ Sounding <=> tone # Silence
        /\ (tone # Silence /\ ~slept) => pit = tone

(* What the device reads between calls is the memory of the last sound that  *)
(* was started and not stopped, even when it misses bytes: a sound that was  *)
(* stopped can be freed, and a beep, which programs no DMA, reads nothing.   *)
(* And the driver's blocks are those its variables point to: none is lost    *)
(* and none is freed twice (sb16.c:307-366, 405-479).                        *)
BuffersKept ==
    /\ (call = "none" /\ dma.open /\ dsp.mode # 0) => dma.memory = given
    /\ blocks = driver.buffers + (IF driver.beep_buffer THEN 1 ELSE 0)

(* What sleep_ms says of itself: "Setup PIT channel 2 in mode 0 (one-shot)"  *)
(* with "counts = ms * 1193", "Wait until counter reaches zero" (rtc.c:100,  *)
(* 103, 110): a sleep that returns has waited for as long as it was asked.   *)
SleepsAsAsked ==
    [][(HeadIs("poll") /\ todo' = Tail(todo)) =>
          Head(todo).ticks >= Head(todo).ms * TicksPerMs]_vars

(* Every call returns, with a device, without one and with one that is       *)
(* always busy, unless it waits for the timer with the gate closed, as it is *)
(* after a stop: the output then never falls (rtc.c:111, audio.c:136-144).   *)
CallsReturn == (call # "none") ~> (call = "none" \/ (HeadIs("poll") /\ ~gate))
=============================================================================
