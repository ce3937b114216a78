------------------------------- MODULE MCData -------------------------------
(* Model values for the modules about a call and its data: the call in the  *)
(* threads of a client and in those of a server; and what becomes of data   *)
(* in buffers, tables, files, messages and settings.  They have no          *)
(* variables in common; the first state of a behaviour chooses one, and the *)
(* others stay as they are.                                                 *)
EXTENDS Fml32, FieldTable, ViewFile, AtmiBuffers, Messages, ViewAdjust, Settings,
        Scanning, Exchange, ServerCall, Serving, TLC

CONSTANTS t1, t2, a1, a2

VARIABLE tool

MCThread == {t1, t2}
MCAddr == {a1, a2}
Symmetric == Permutations(MCThread) \cup Permutations(MCAddr)

MCFields == {"s", "l", "t"}
MCTypes == [s |-> "short", l |-> "long", t |-> "string"]
MCSmalls == {<<"0">>, <<"1">>}
MCTexts == {<<>>, <<"x", "y">>}
MCLeast == [CARRAY |-> 0, VIEW32 |-> 1]
MCSizeOfView == [v |-> 2, w |-> 1]
MCWidths == [long |-> 2, string |-> 1]
MCMsgTexts == {<<>>, <<6, 7>>}
MCAddresses == {<<10, 0, 0, 1>>, <<1, 2, 3, 4>>}
MCGiven == {-2, 300}
MCGivenValues == {-2, 0, 5, 8}

Tools == {"client", "server", "fml", "mkfldhdr", "viewc", "atmi", "messages", "views",
          "settings", "scanning", "exchange"}
dataVars == <<tool, vars, tableVars, viewVars, atmiVars, messagesVars, adjustVars, settingsVars,
              scanVars, exchangeVars, callVars, servingVars>>

\* Those that begin with any input begin with one of them when they are not
\* the one that is chosen.
MessagesRest == sent = [type |-> "PING_PANG", record |-> <<>>] /\ hosts = [from |-> "big", to |-> "big"]
SettingsRest == /\ setting = CHOOSE s \in Settings : TRUE
                /\ environment = <<>> /\ missing = {}
                /\ tuxconfig = <<>> /\ cfgFile = <<>> /\ cmdDefs = <<>>
ScanRest == written = [kind |-> "list", parts |-> <<<<"a">>>>]
AdjustRest == /\ view = <<CHOOSE i \in ViewItem : TRUE>>
              /\ clientSide = (CHOOSE h \in Host : TRUE) /\ serverSide = clientSide
              /\ values = [e \in Elements(view) |-> CHOOSE v \in GivenCount : TRUE]

DataInit ==
  /\ tool \in Tools
  /\ Init /\ TableInit /\ ViewInit /\ AtmiInit /\ ExchangeInit /\ CallInit /\ ServingInit
  /\ (IF tool = "messages" THEN TRUE ELSE MessagesRest) /\ MessagesInit
  /\ (IF tool = "settings" THEN TRUE ELSE SettingsRest) /\ SettingsInit
  /\ (IF tool = "scanning" THEN TRUE ELSE ScanRest) /\ ScanInit
  /\ (IF tool = "views" THEN TRUE ELSE AdjustRest) /\ AdjustInit

\* The others stay as they are.
Only(t) ==
  /\ tool = t /\ UNCHANGED tool
  /\ IF t = "client" THEN TRUE ELSE UNCHANGED callVars
  /\ IF t = "server" THEN TRUE ELSE UNCHANGED servingVars
  /\ IF t = "fml" THEN TRUE ELSE UNCHANGED vars
  /\ IF t = "mkfldhdr" THEN TRUE ELSE UNCHANGED tableVars
  /\ IF t = "viewc" THEN TRUE ELSE UNCHANGED viewVars
  /\ IF t = "atmi" THEN TRUE ELSE UNCHANGED atmiVars
  /\ IF t = "messages" THEN TRUE ELSE UNCHANGED messagesVars
  /\ IF t = "views" THEN TRUE ELSE UNCHANGED adjustVars
  /\ IF t = "settings" THEN TRUE ELSE UNCHANGED settingsVars
  /\ IF t = "scanning" THEN TRUE ELSE UNCHANGED scanVars
  /\ IF t = "exchange" THEN TRUE ELSE UNCHANGED exchangeVars

DataNext ==
  \/ Only("client") /\ CallNext
  \/ Only("server") /\ ServingNext
  \/ Only("fml") /\ Next
  \/ Only("mkfldhdr") /\ TableNext
  \/ Only("viewc") /\ ViewNext
  \/ Only("atmi") /\ AtmiNext
  \/ Only("messages") /\ MessagesNext
  \/ Only("views") /\ AdjustNext
  \/ Only("settings") /\ SettingsNext
  \/ Only("scanning") /\ ScanNext
  \/ Only("exchange") /\ ExchangeNext

DataSpec == DataInit /\ [][DataNext]_dataVars
=============================================================================
