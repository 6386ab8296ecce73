----------------------------- MODULE MCDevice -----------------------------
(* The services of the device, each on its own: part says which one runs.   *)
EXTENDS Wireless, Updater, Sequences

VARIABLES
  part,
  phase, pin, alive, bits, inProcess, sleepTime, behind, quiet, stopWifi, powerAsks, \* PowerControl
  duty, notes, now, prepare, dtick, udp, shown, saveAsked, zeroAsk,
  active, node, keyed, cells, pointer, position, blink, light, told, count,        \* Morse
  letters, typed, whole, sent,
  pcb, net, hmac, text, mdb, keyedTexts, lines, counter, found, received, heard,   \* UdpBroadcast
  accepted, newest, allFit,
  page, at, hdrIndex, hdrPos, sentTo, parsed, tag, out                             \* HttpPages

powerV == <<phase, pin, alive, bits, inProcess, sleepTime, behind, quiet, stopWifi, powerAsks,
            duty, notes, now, prepare, dtick, udp, shown, saveAsked, zeroAsk>>
morseV == <<active, node, keyed, cells, pointer, position, blink, light, told, count, letters, typed, whole, sent>>
udpV == <<pcb, net, hmac, text, mdb, keyedTexts, lines, counter, found, received, heard, accepted, newest, allFit>>
pagesV == <<page, at, hdrIndex, hdrPos, sentTo, parsed, tag, out>>
vars == <<part, wirelessVars, powerV, morseV, udpV, updaterVars, pagesV>>

Power == INSTANCE PowerControl WITH
  AliveInit <- 2, AliveLong <- 3, Seconds <- {0, 2}, Morse <- TRUE, PrepareTime <- 1, TimeMod <- 4,
  SecondRounds <- 2, MaxAsks <- 3, asks <- powerAsks

Key == INSTANCE Morse WITH
  RegLen <- 3, MessageLen <- 3, MaxLetters <- 4,
  Again <- {"E", "Ut", "remove_last", "broadcast"},
  Later <- {"E", "I", "U", "Ut", "T", "M", "O", "Ot", "remove_last", "chapter", "d0", "broadcast"}

Udp == INSTANCE UdpBroadcast WITH
  Self <- "me", Peers <- {"h1"}, Ids <- {"3", "4"}, Texts <- {<<"a">>, <<"a", "b">>},
  Drawn <- {<<>>, <<"x", "x", "x", "x", "_">>}, MacLen <- 8,
  LinesNum <- 2, LineLen <- 6, Memory <- 24, ByteMod <- 32, CounterMod <- 4, MaxKeyed <- 3, MaxNet <- 3, MaxPackets <- 3

\* Shorter markers with the letters of "<!--#", "-->", "/*#" and "*/".
LeadIn == <<<<"<", "#">>, <<"/", "#">>>>
LeadOut == <<<<"-", ">">>, <<"*", "/">>>>
Text(chars) == [tag |-> FALSE, chars |-> chars]
Tag(kind, name, inner) ==
  [tag |-> TRUE, name |-> name, chars |-> LeadIn[kind] \o inner \o name \o inner \o LeadOut[kind]]
P(pieces, ssi, persistent) ==
  [pieces |-> pieces, status |-> <<"200", "ok">>, type |-> <<"type">>, persistent |-> persistent, ssi |-> ssi]
Pages == INSTANCE HttpPages WITH
  MaxName <- 2, Inserts <- [x \in {<<"r">>} |-> <<"4", "2">>],
  Pages <- {P(<<>>, FALSE, FALSE), P(<<Text(<<"a", "b">>)>>, FALSE, TRUE),
            P(<<Text(<<"a", "<", "b">>), Tag(1, <<"r">>, <<>>), Text(<<"<", "#", "-", ">", "z">>)>>, TRUE, TRUE),
            P(<<Tag(1, <<"r">>, <<" ">>), Tag(2, <<"q", "q">>, <<" ">>),
                Text(<<"<", "#", "a", "b", "c", "-", ">">>)>>, TRUE, FALSE),
            P(<<Text(<<"<", "#", "r", "-", "-", "z">>), Tag(2, <<"r">>, <<>>)>>, TRUE, FALSE)}

\* The parts that do not run start in one state.
Init ==
  /\ part \in {"wifi", "power", "morse", "udp", "updater", "pages"}
  /\ WirelessInit /\ (part = "wifi" \/ setting = "off")
  /\ Power!PowerInit /\ (part = "power" \/ (~pin /\ now = 0))
  /\ Key!MorseInit
  /\ Udp!UdpInit /\ mdb = [d \in {"h1", "me"} |-> IF d = "h1" THEN "3" ELSE "4"]
  /\ (part = "udp" \/ \A d \in {"h1", "me"} : hmac[d])
  /\ UpdaterInit /\ (part = "updater" \/ updaterOk)
  /\ Pages!PagesInit /\ (part = "pages" \/ page.pieces = <<>>)

only(p, others) == part = p /\ UNCHANGED <<part, others>>
WifiRuns == only("wifi", <<powerV, morseV, udpV, updaterVars, pagesV>>)
PowerRuns == only("power", <<wirelessVars, morseV, udpV, updaterVars, pagesV>>)

Next ==
  \/ WifiRuns /\ WirelessNext
  \/ PowerRuns /\ Power!PowerNext
  \/ only("morse", <<wirelessVars, powerV, udpV, updaterVars, pagesV>>) /\ Key!MorseNext
  \/ only("udp", <<wirelessVars, powerV, morseV, updaterVars, pagesV>>) /\ Udp!UdpNext
  \/ only("updater", <<wirelessVars, powerV, morseV, udpV, pagesV>>) /\ UpdaterNext
  \/ only("pages", <<wirelessVars, powerV, morseV, udpV, updaterVars>>) /\ Pages!PagesNext

\* The tasks keep running; live_time, which common_duty_task counts, does not stand still.
WifiTurn == WifiRuns /\ TaskRound
WifiSecond == WifiRuns /\ Second
SleepTurn == PowerRuns /\ duty # "restarted" /\ Power!SleepTurn
DutyTurn == PowerRuns /\ Power!DutyTurn
Fairness == WF_vars(WifiTurn) /\ SF_vars(WifiSecond) /\ WF_vars(SleepTurn) /\ WF_vars(DutyTurn)
Spec == Init /\ [][Next]_vars /\ Fairness

\* What a part says of itself is looked at while it runs: the others stand still.
(* The wireless driver is started and stopped in pairs, a router that was  *)
(* lost is tried again and a stop is obeyed.  A sleep asked for is quiet   *)
(* for its whole time and comes, and so does a reset, after its save; a    *)
(* message of the network is shown.                                        *)
ServicesAnswer ==
  /\ [](part = "wifi" => WirelessTypeOK /\ DriverBalanced)
  /\ [](part = "power" => Power!PowerTypeOK)
  /\ Power!TimedSleepQuiet
  /\ part = "wifi" => RouterTried /\ StopEnds
  /\ part = "power" => Power!SleepComes /\ Power!ResetComes /\ Power!UdpShown

(* What is keyed is read as the standard code of a letter and is sent as   *)
(* keyed, with a cursor that is drawn meanwhile; a line of the display     *)
(* shows whole the text of the network, or the own one, that was put there *)
(* last, a text of the network once; and a device found is one that spoke. *)
TextsKept ==
  /\ [](part = "morse" => Key!MorseTypeOK /\ Key!KeyedIsStandard /\ Key!SentAsKeyed)
  /\ [](part = "udp" => Udp!UdpTypeOK /\ Udp!LinesWhole /\ Udp!NoTwinLines /\ Udp!FoundIsTrue)

(* The updater starts an image only when all of it is there.  A page       *)
(* reaches the client in order, with the inserts of its tags in their      *)
(* places, and when it is closed it was sent as far as it goes.            *)
TransfersWhole ==
  /\ part = "updater" => UpdaterTypeOK /\ BootsWhole
  /\ part = "pages" => Pages!PagesTypeOK /\ Pages!PageInOrder /\ Pages!PageWhole
============================================================================
