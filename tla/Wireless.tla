------------------------------ MODULE Wireless ------------------------------
(***************************************************************************)
(* wireless_control_task and wifi_event_handler: the Wi-Fi driver is       *)
(* started in the mode of the register wifi_setting, stopped on request,   *)
(* for good or for a while, and a lost router is tried again: at once as   *)
(* long as sta_fast_retries allows, then every SlowPeriod rounds.          *)
(*                                                                         *)
(* The driver belongs to the IDF; Reached, Lost and LeaveEvent are what it *)
(* reports to the handler, in the task of the event loop.                  *)
(***************************************************************************)
EXTENDS Integers, FiniteSets

CONSTANTS
  Settings,     \* values of wifi_setting: "off", "ap", "client", "both"
  FastMax,      \* STA_FAST_RETRY_MAX
  SlowPeriod,   \* rounds between two slow retries: 20000 / wireless_control_TASK_PERIOD
  StopTime,     \* TEMPORAL_DISACTIVATION_TIME
  LiveMod,      \* live_time is a u32: 2^32 in the code
  MaxStations,  \* bound on ap_connections_number
  MaxNotified   \* bound on the notifications

ASSUME Modes == "none" \notin Settings

VARIABLES
  setting,      \* wifi_setting
  state, turn,  \* wifi_state; where the task is in its loop
  notified,     \* pending bits of its notification value
  asks,         \* number of notifications so far
  tick,         \* task_counter, as far as the slow retry needs it
  live, resetAt,   \* live_time, start_reset_time
  setups,       \* wifi_common_setup calls since wifi_full_stop (2 means more than one)
  mode,         \* the mode the driver was started in, "none" without driver
  trying,       \* a connect is under way in the driver
  linked,       \* sta_connect
  fast,         \* sta_fast_retries
  leaving,      \* the event of esp_wifi_stop is not handled yet
  apLeft,       \* history: the last connection was ended by the router with ASSOC_LEAVE
  wasOff,       \* history: wifi_setting was "off" when the driver was set up
  stations      \* ap_connections_number

driver == <<setups, mode, trying, leaving, apLeft, wasOff>>
wirelessVars == <<setting, state, turn, notified, asks, tick, live, resetAt, linked, fast, stations, driver>>

ClientModes == {"client", "both"}
Signals == {"stop", "start", "reset120", "end"}

WirelessTypeOK ==
  /\ state \in {"not_activated", "activated", "stopped", "temporal"}
  /\ turn \in {"handle", "wait", "gone"} /\ notified \subseteq Signals
  /\ fast \in 0 .. FastMax /\ tick \in 0 .. SlowPeriod - 1 /\ setups \in 0 .. 2
  /\ mode \in Settings \cup {"none"} /\ live \in 0 .. LiveMod - 1 /\ stations \in 0 .. MaxStations

WirelessInit ==
  /\ setting \in Settings /\ state = "not_activated" /\ turn = "handle" /\ notified = {} /\ asks = 0
  /\ tick = 0 /\ live = 0 /\ resetAt = 0 /\ setups = 0 /\ mode = "none"
  /\ trying = FALSE /\ linked = FALSE /\ fast = 0 /\ leaving = FALSE /\ apLeft = FALSE /\ wasOff = FALSE
  /\ stations = 0

-----------------------------------------------------------------------------
(* wifi_state_handle                                                        *)

\* wifi_init: initialized is never set, so wifi_common_setup runs every time.
SetUp ==
  /\ setups' = IF setups = 2 THEN 2 ELSE setups + 1
  /\ wasOff' = (wasOff \/ setting = "off")
  /\ mode' = setting
  /\ trying' = (setting \in ClientModes)
  /\ apLeft' = FALSE
  /\ state' = IF setting = "off" THEN "not_activated" ELSE "activated"
  /\ UNCHANGED <<leaving, linked>>

\* The slow retry waits until the fast ones are used up.
Retry == fast >= FastMax

SlowRetry ==
  /\ trying' = (trying \/ (tick = 0 /\ setting \in ClientModes /\ mode \in ClientModes /\ ~linked /\ Retry))
  /\ UNCHANGED <<setups, mode, leaving, apLeft, wasOff, state, linked>>

\* current_live_time < start_reset_time: the counter has wrapped.
Elapsed == live < resetAt \/ live - resetAt > StopTime

WifiStateHandle ==
  /\ turn = "handle" /\ turn' = "wait"
  /\ CASE state = "not_activated" -> SetUp
       [] state = "activated" -> SlowRetry
       [] state = "stopped" -> UNCHANGED <<driver, state, linked>>
       [] state = "temporal" -> /\ state' = IF Elapsed THEN "not_activated" ELSE state
                                /\ UNCHANGED <<driver, linked>>
  /\ UNCHANGED <<setting, notified, asks, tick, live, resetAt, fast, stations>>

-----------------------------------------------------------------------------
(* The rest of the loop                                                     *)

\* A round takes a fraction of a second: common_duty_task may have counted one meanwhile.
NextRound == tick' = (tick + 1) % SlowPeriod /\ live' \in {live, (live + 1) % LiveMod}

\* task_notify_wait ends after wireless_control_TASK_PERIOD.
WaitTimeout ==
  /\ turn = "wait" /\ notified = {} /\ turn' = "handle" /\ NextRound
  /\ UNCHANGED <<setting, state, notified, asks, resetAt, linked, fast, stations, driver>>

\* The state after the bits, in the order of the ifs: "stop", "start", "reset120".
AfterStop(bits) == IF "stop" \in bits THEN "stopped" ELSE state
AfterStart(bits) ==
  IF "start" \in bits /\ AfterStop(bits) # "activated" THEN "not_activated" ELSE AfterStop(bits)
AfterReset(bits) == IF "reset120" \in bits THEN "temporal" ELSE AfterStart(bits)

\* wifi_full_stop runs in whichever if finds the driver activated, so at most once.
FullyStopped(bits) == state = "activated" /\ bits \cap {"stop", "reset120", "end"} # {}

WaitSignals ==
  /\ turn = "wait" /\ notified # {} /\ notified' = {}
  /\ state' = AfterReset(notified)
  /\ resetAt' = IF "reset120" \in notified THEN live ELSE resetAt
  /\ turn' = IF "end" \in notified THEN "gone" ELSE "handle"
  /\ NextRound
  /\ IF FullyStopped(notified)
       THEN /\ setups' = 0 /\ mode' = "none" /\ trying' = FALSE
            /\ leaving' = (linked \/ trying) /\ UNCHANGED <<apLeft, wasOff>>
       ELSE UNCHANGED driver
  /\ UNCHANGED <<setting, asks, linked, fast, stations>>

\* task_notify_send of sleep_control, of the os commands and of the user tasks
Signal(s) ==
  /\ asks < MaxNotified /\ turn # "gone" /\ asks' = asks + 1
  /\ notified' = notified \cup {s}
  /\ UNCHANGED <<setting, state, turn, tick, live, resetAt, linked, fast, stations, driver>>

\* A client of the register interface writes wifi_setting: the driver keeps its mode.
ChangeSetting(s) ==
  /\ asks < MaxNotified /\ s # setting /\ asks' = asks + 1 /\ setting' = s
  /\ UNCHANGED <<state, turn, notified, tick, live, resetAt, linked, fast, stations, driver>>

-----------------------------------------------------------------------------
(* wifi_event_handler                                                       *)

\* IP_EVENT_STA_GOT_IP
Reached ==
  /\ trying /\ mode \in ClientModes /\ ~leaving
  /\ trying' = FALSE /\ linked' = TRUE /\ fast' = 0
  /\ UNCHANGED <<setting, state, turn, notified, asks, tick, live, resetAt, stations, setups, mode, leaving, apLeft, wasOff>>

\* WIFI_EVENT_STA_DISCONNECTED of a connection or of an attempt
Lost(assocLeave) ==
  /\ mode \in ClientModes /\ (trying \/ linked) /\ ~leaving
  /\ linked' = FALSE /\ apLeft' = assocLeave
  /\ IF ~assocLeave /\ fast < FastMax THEN fast' = fast + 1 /\ trying' = TRUE
                                      ELSE UNCHANGED fast /\ trying' = FALSE
  /\ UNCHANGED <<setting, state, turn, notified, asks, tick, live, resetAt, stations, setups, mode, leaving, wasOff>>

\* The same event, with ASSOC_LEAVE, that esp_wifi_stop has queued
LeaveEvent ==
  /\ leaving /\ leaving' = FALSE /\ linked' = FALSE
  /\ UNCHANGED <<setting, state, turn, notified, asks, tick, live, resetAt, fast, stations, setups, mode, trying, apLeft, wasOff>>

\* WIFI_EVENT_AP_STACONNECTED and _STADISCONNECTED
Station(n) ==
  /\ mode \in {"ap", "both"} /\ n \in 0 .. MaxStations
  /\ stations' = n /\ n \in {stations - 1, stations + 1}
  /\ UNCHANGED <<setting, state, turn, notified, asks, tick, live, resetAt, linked, fast, driver>>

TaskRound == WifiStateHandle \/ WaitTimeout \/ WaitSignals
Second == TaskRound /\ live' # live

WirelessNext ==
  \/ TaskRound \/ Reached \/ LeaveEvent
  \/ \E b \in BOOLEAN : Lost(b)
  \/ \E s \in Signals : Signal(s)
  \/ \E s \in Settings : ChangeSetting(s)
  \/ \E n \in 0 .. MaxStations : Station(n)

WirelessSpec == WirelessInit /\ [][WirelessNext]_wirelessVars

-----------------------------------------------------------------------------
(* Properties                                                               *)

\* As long as Wi-Fi was never set up with the setting "off" (wifi_common_setup then runs
\* again every round), the driver is set up exactly while it is in use: the bits of the
\* notification never leave one behind or set one up twice.
DriverBalanced ==
  ~wasOff =>
    /\ setups = IF state = "activated" /\ turn # "gone" THEN 1 ELSE 0
    /\ (mode = "none") = (setups = 0)

\* A station that has lost its router, by anything but ASSOC_LEAVE from the router,
\* tries it again, fast or slow, until it is reached, Wi-Fi is stopped or set to no client.
RouterTried ==
  (mode \in ClientModes /\ ~linked /\ ~trying) ~>
    (trying \/ linked \/ apLeft \/ mode \notin ClientModes \/ setting \notin ClientModes)

\* A stop for StopTime ends by itself, also when live_time wraps in between.
StopEnds == (state = "temporal" /\ turn # "gone") ~> (state # "temporal" \/ turn = "gone")

\* Why it is balanced: the task leaves the state of use only where it stops the driver, or ends.
WirelessIInv ==
  /\ state \in {"not_activated", "activated", "stopped", "temporal"} /\ setting \in Settings
  /\ DriverBalanced
=============================================================================
