-------------------------------- MODULE Rtc --------------------------------
(* The sleep system call (isr80h/io.c) and the clock it reads, register by   *)
(* register, from rtc/rtc.c.  A call waits in the kernel with interrupts     *)
(* off, so nothing else of the kernel happens meanwhile; the clock goes on.  *)
(* The numbers of hours, minutes and seconds are small, and int has the      *)
(* range -IntMax-1..IntMax.                                                  *)
EXTENDS Integers, Sequences

CONSTANTS Hours, Minutes, Seconds,  \* in a day, an hour, a minute: 24, 60, 60
          IntMax,                   \* the largest int
          Requests                  \* bound: the seconds programs ask to sleep

Day == Hours * Minutes * Seconds

ASSUME RtcConstants ==
    /\ {Hours, Minutes, Seconds} \subseteq 1 .. 99
    /\ Seconds > 1  \* an update changes the second
    /\ IntMax \in Nat /\ Day <= IntMax
    /\ Requests \subseteq -IntMax - 1 .. IntMax

VARIABLES time,      \* of day, in seconds, as the clock has it
          updating,  \* the clock's update-in-progress bit
          binary,    \* the data mode bit of register B
          sleep,     \* the call in progress, or Awake
          regs,      \* the registers rtc_read has read so far: second, minute, hour
          start,     \* total_start_seconds, or Unread
          elapsed,   \* the updates since the starting time was read, up to MaxElapsed
          met,       \* the clock was updated since the read in progress began
          whole,     \* a read was complete since the last update
          torn,      \* an update came between two registers of one read of this call
          result     \* eax as the last call left it

rtcVars == <<time, updating, binary, sleep, regs, start, elapsed, met, whole, torn, result>>

Awake == [at |-> "awake"]
Unread == -1
MaxElapsed == Day + 2    \* bound

Wrap(n) == ((n + IntMax + 1) % (2 * IntMax + 2)) - IntMax - 1

----------------------------------------------------------------------------
(* What the clock's registers hold, and how the driver turns it back.        *)
Hms(t) == <<t % Seconds, (t \div Seconds) % Minutes, t \div (Minutes * Seconds)>>
Register(n) == IF binary THEN n ELSE 16 * (n \div 10) + (n % 10)

bcd_to_bin(val) == (val % 16) + (val \div 16) * 10
Decoded(val) == IF binary THEN val ELSE bcd_to_bin(val)

\* total_start_seconds and, before it is corrected, total_current_seconds.
SecondsOfDay == (Decoded(regs[3]) * Minutes + Decoded(regs[2])) * Seconds + Decoded(regs[1])

----------------------------------------------------------------------------
RtcInit ==
    /\ time \in 0 .. Day - 1
    /\ updating = FALSE
    /\ binary \in BOOLEAN
    /\ sleep = Awake
    /\ regs = <<>>
    /\ start = Unread
    /\ elapsed = 0
    /\ met = FALSE
    /\ whole = TRUE
    /\ torn = FALSE
    /\ result = 0

(* The clock.  It announces an update before it makes it.  A second is       *)
(* longer than a read of the registers, so that a sleeping kernel completes  *)
(* one from an update to the next; but what delays it (a host, the firmware) *)
(* may let an update come between two registers.                             *)
UpdateBegins ==
    /\ ~updating
    /\ sleep # Awake => whole
    /\ updating' = TRUE
    /\ UNCHANGED <<time, binary, sleep, regs, start, elapsed, met, whole, torn, result>>

UpdateEnds ==
    /\ updating
    /\ updating' = FALSE
    /\ time' = (time + 1) % Day
    /\ elapsed' = IF sleep = Awake \/ elapsed = MaxElapsed THEN elapsed ELSE elapsed + 1
    /\ met' = (regs # <<>>)
    /\ whole' = (sleep = Awake)
    /\ torn' = (torn \/ Len(regs) \in 1 .. 2)
    /\ UNCHANGED <<binary, sleep, regs, start, result>>

----------------------------------------------------------------------------
\* The call refuses a negative time; sleep_seconds returns at once from none.
isr80h_command9_sleep(seconds) ==
    /\ sleep = Awake
    /\ IF seconds <= 0
       THEN /\ result' = IF seconds < 0 THEN -1 ELSE 0
            /\ UNCHANGED sleep
       ELSE /\ sleep' = [at |-> "poll", seconds |-> seconds]
            /\ UNCHANGED result
    /\ UNCHANGED <<time, updating, binary, regs, start, elapsed, met, whole, torn>>

\* rtc_read waits for the end of an update,
is_update_in_progress ==
    /\ sleep.at = "poll"
    /\ ~updating
    /\ sleep' = [sleep EXCEPT !.at = "read"]
    /\ UNCHANGED <<time, updating, binary, regs, start, elapsed, met, whole, torn, result>>

\* and takes one register after the other.
rtc_read_register ==
    /\ sleep.at = "read"
    /\ Len(regs) < 3
    /\ regs' = Append(regs, Register(Hms(time)[Len(regs) + 1]))
    /\ elapsed' = IF start = Unread /\ regs = <<>> THEN 0 ELSE elapsed
    /\ UNCHANGED <<time, updating, binary, sleep, start, met, whole, torn, result>>

\* Seeded fault: midnight is not noticed.
SinceStartSameDay == SecondsOfDay
\* A time before the starting time is one of the next day.
SinceStart == IF SecondsOfDay < start THEN SecondsOfDay + Day ELSE SecondsOfDay

\* Seeded fault: the loop goes on in the second it waits for.
TooSoonOrExact(now, seconds) == now <= Wrap(start + seconds)
TooSoon(now, seconds) == now < Wrap(start + seconds)

\* The read is complete: it was the starting time, or the loop goes on, or the call returns.
SleepLoop ==
    /\ sleep.at = "read"
    /\ Len(regs) = 3
    /\ regs' = <<>>
    /\ met' = FALSE
    /\ \/ /\ start = Unread
          /\ start' = SecondsOfDay
          /\ sleep' = [sleep EXCEPT !.at = "poll"]
          /\ whole' = (whole \/ ~met)
          /\ UNCHANGED <<elapsed, torn, result>>
       \/ /\ start # Unread
          /\ TooSoon(SinceStart, sleep.seconds)
          /\ sleep' = [sleep EXCEPT !.at = "poll"]
          /\ whole' = (whole \/ ~met)
          /\ UNCHANGED <<start, elapsed, torn, result>>
       \/ /\ start # Unread
          /\ ~TooSoon(SinceStart, sleep.seconds)
          /\ sleep' = Awake
          /\ start' = Unread
          /\ elapsed' = 0
          /\ whole' = TRUE
          /\ torn' = FALSE
          /\ result' = 0
    /\ UNCHANGED <<time, updating, binary>>

Clock == UpdateBegins \/ UpdateEnds
Sleeping == is_update_in_progress \/ rtc_read_register \/ SleepLoop
RtcNext == Clock \/ Sleeping \/ \E seconds \in Requests : isr80h_command9_sleep(seconds)

\* The clock runs, and nothing can take the processor from the call.
RtcSpec == RtcInit /\ [][RtcNext]_rtcVars /\ WF_rtcVars(Clock) /\ WF_rtcVars(Sleeping)
----------------------------------------------------------------------------
(* Every register read is one the clock has, in whichever data mode, and the *)
(* starting time is a time of day, even when put together from two times     *)
(* (rtc.c:34-58).                                                            *)
RtcTypeOK ==
    /\ time \in 0 .. Day - 1
    /\ {updating, binary, met, whole, torn} \subseteq BOOLEAN
    /\ Len(regs) \in 0 .. 3
    /\ \A i \in DOMAIN regs : Decoded(regs[i]) \in 0 .. <<Seconds, Minutes, Hours>>[i] - 1
    /\ start \in Unread .. Day - 1
    /\ elapsed \in 0 .. MaxElapsed
    /\ result \in {-1, 0}

(* A sleep returns in the second it asked for, over midnight and in both     *)
(* data modes, if no update tore one of its reads; a torn time is up to an   *)
(* hour ahead, and the call then returns early, never late (rtc.c:34-40,     *)
(* 74-88).  A target past the largest int is before the starting time, and   *)
(* the call returns at once.                                                 *)
WakesOnTime ==
    /\ []RtcTypeOK
    /\ [][(sleep # Awake /\ sleep' = Awake /\ start + sleep.seconds <= IntMax) =>
            /\ elapsed <= sleep.seconds
            /\ ~torn => elapsed = sleep.seconds]_rtcVars

(* A sleep of less than a day returns, whatever its reads met: of the times  *)
(* after the target there is at least one second, and the loop sees it.  A   *)
(* longer one has a target no time of day ever reaches (rtc.c:79-88).        *)
SleepReturns == (sleep # Awake /\ sleep.seconds < Day) ~> (sleep = Awake)
=============================================================================
