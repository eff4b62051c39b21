------------------------------- MODULE Serial -------------------------------
(***************************************************************************)
(* The serial interface: the receive ring of libmaple/usart.c, filled by   *)
(* an interrupt; serial_eventloop and the command stack of                 *)
(* serialinterface/serialinterface.cpp; the transfer of the log            *)
(* (log_read/log_read.cpp); and flashstorage_keyval_set, which switches    *)
(* the port off while it rewrites the settings page (module Settings).     *)
(*                                                                         *)
(* A byte is a line end or another one; what a complete line says is       *)
(* chosen when it is processed.                                            *)
(***************************************************************************)
EXTENDS Settings, Sequences

CONSTANTS
  OwnKeys,      \* the keys the program names, all short; a KEYVALSET may name any
  DeviceTag,    \* the key DEVICETAG
  RxSize,       \* bytes the receive ring holds
  LineSize,     \* bytes currentline holds
  LogSizes      \* numbers of records in a log that is transferred

ASSUME SerialAssumption ==
  /\ OwnKeys \subseteq Keys /\ DeviceTag \in OwnKeys
  /\ \A k \in OwnKeys : Stored[k] = k
  /\ RxSize \in Nat \ {0} /\ LineSize \in Nat /\ RxSize <= LineSize
  /\ LogSizes \subseteq Nat

VARIABLES
  rx,             \* the receive ring
  chunk,          \* buf of serial_eventloop, what is left of it
  currentline_position,
  at,             \* what the main loop is doing
  then,           \* where keyval_set or log_clear returns to
  command_stack,
  page,           \* the settings in flash
  pagedata,       \* the new page, in RAM
  overrun,        \* something was written behind an array on the stack
  jsonset,        \* the keys a JSON line is still to set
  log_pause,
  transfer,       \* the log transfer: format, records, log_position, output
  typed,          \* history: bytes of the line the host is typing
  sent,           \* history: bytes of the line it sent last
  owing,          \* history: what the host is to expect of the line it sent
  excused,        \* history: bytes may have been lost since the port was quiet
  asked           \* history: LOGPAUSE is in force

host == <<typed, sent>>
line == <<chunk, currentline_position>>
port == <<rx, line, host, excused>>
keys == <<page, pagedata, overrun, then>>
logs == <<log_pause, transfer, asked>>
vars == <<port, owing, keys, jsonset, logs, at, command_stack>>

NoTransfer == [format |-> "none", records |-> 0, log_position |-> 0, out |-> <<>>]

\* Second parts of commands; "numbers" stands for those of SETRTC,
\* DISPLAYPARAMS and CAPTOUCHTEST, which read one line of numbers.
Parts == {"numbers", "setdevicetag", "setkeyval", "morse"}

Bytes == {"eol", "char"}

-----------------------------------------------------------------------------
(* The receiver *)

\* rb_push_insert: a full ring loses its oldest byte.
PushInsert(ring, b) ==
  IF Len(ring) < RxSize THEN Append(ring, b) ELSE Tail(Append(ring, b))

\* While a line is owing an answer the host waits for it; some lines have none
\* ("silence"), and nothing tells the host when they are done.
Owing == {"nothing", "answer", "silence"}

\* Of a host that is excused nothing more is recorded.
HostTypes(b) ==
  IF excused'
  THEN typed' = 0 /\ sent' = 0 /\ owing' = "nothing"
  ELSE /\ typed' = IF b = "eol" THEN 0 ELSE IF typed < RxSize THEN typed + 1 ELSE typed
       /\ sent' = IF b = "eol" THEN typed ELSE sent
       /\ owing' = IF b = "eol" THEN "answer" ELSE owing

\* A host is patient if it sends a line of at most RxSize bytes, and nothing
\* while the line before is not answered.  The answer comes before the ring is
\* emptied: what the host sends at once may be lost with it.
Patient == owing = "nothing" /\ typed < RxSize

\* The port is off while flash is erased and written.
PortOff == at \in {"erase", "write", "clear"}

usart_irq ==
  /\ ~ PortOff /\ at # "fault"
  /\ excused' = (excused \/ ~ Patient \/ at = "reset")
  /\ \E b \in Bytes : HostTypes(b) /\ rx' = PushInsert(rx, b)
  /\ UNCHANGED <<line, keys, jsonset, logs, at, command_stack>>

\* usart_disable: nothing is received.
Unheard ==
  /\ PortOff
  /\ excused' = TRUE
  /\ \E b \in Bytes : HostTypes(b)
  /\ UNCHANGED <<rx, line, keys, jsonset, logs, at, command_stack>>

\* The host waits until the port is quiet, then begins a new line.
HostSettles ==
  /\ at = "loop" /\ rx = <<>> /\ currentline_position = 0
  /\ typed' = 0 /\ sent' = 0 /\ owing' = "nothing" /\ excused' = FALSE
  /\ UNCHANGED <<rx, line, keys, jsonset, logs, at, command_stack>>

-----------------------------------------------------------------------------
(* serial_eventloop *)

\* All bytes are read.
ReadChunk ==
  /\ at = "loop" /\ rx # <<>>
  /\ chunk' = rx /\ rx' = <<>> /\ at' = "chunk"
  /\ UNCHANGED <<currentline_position, host, excused, owing, keys, jsonset, logs, command_stack>>

\* The line buffer two bytes too long.
Overflows_Late(length) == length > LineSize + 1

\* The test comes after the store: a byte, or the terminator of the line, is
\* stored behind a currentline that is full.
Overflows(length) == length > LineSize

TakeByte ==
  /\ at = "chunk" /\ chunk # <<>> /\ Head(chunk) = "char"
  /\ chunk' = Tail(chunk)
  /\ currentline_position' =
       IF Overflows(currentline_position + 1) THEN 0 ELSE currentline_position + 1
  /\ UNCHANGED <<rx, host, excused, owing, keys, jsonset, logs, at, command_stack>>

TakeLineEnd ==
  /\ at = "chunk" /\ chunk # <<>> /\ Head(chunk) = "eol"
  /\ chunk' = Tail(chunk) /\ at' = "line"
  /\ UNCHANGED <<rx, currentline_position, host, excused, owing, keys, jsonset, logs, command_stack>>

\* The ring emptied at the end of every chunk.
ChunkDone_Resets ==
  /\ at = "chunk" /\ chunk = <<>>
  /\ at' = "loop" /\ rx' = <<>>
  /\ UNCHANGED <<line, host, excused, owing, keys, jsonset, logs, command_stack>>

ChunkDone ==
  /\ at = "chunk" /\ chunk = <<>>
  /\ at' = "loop"
  /\ UNCHANGED <<port, owing, keys, jsonset, logs, command_stack>>

\* After a line: currentline_position = 0 and usart_reset_rx.
LineDone ==
  /\ at = "reset" /\ at' = "chunk"
  /\ currentline_position' = 0 /\ rx' = <<>>
  /\ UNCHANGED <<chunk, host, excused, owing, keys, jsonset, logs, command_stack>>

\* rb_reset is tail = head: a byte received between the load and the store,
\* when the ring is full, moves both and so leaves the ring full.
LineDoneRaced ==
  /\ at = "reset" /\ at' = "chunk" /\ Len(rx) = RxSize
  /\ currentline_position' = 0 /\ excused' = TRUE
  /\ \E b \in Bytes : HostTypes(b) /\ rx' = PushInsert(rx, b)
  /\ UNCHANGED <<chunk, keys, jsonset, logs, command_stack>>

-----------------------------------------------------------------------------
(* flashstorage_keyval_set, flashstorage_log_clear *)

\* The flash work begins with usart_disable, which also empties the ring.
usart_disable ==
  rx' = <<>> /\ excused' = (excused \/ rx # <<>>)

\* Up to usart_disable; nothing if there is no room for a new key.
keyval_set(k, v, return) ==
  IF SetAddress(page, k) = {}
  THEN /\ at' \in {return} \cup IF Overruns(page, k, v) THEN {"fault"} ELSE {}
       /\ UNCHANGED <<keys, rx, excused>>
  ELSE /\ at' = "erase" /\ then' = return
       /\ pagedata' = PageData(page, k, v) /\ overrun' = Overruns(page, k, v)
       /\ usart_disable
       /\ UNCHANGED page

Erase ==
  /\ at = "erase" /\ at' = "write"
  /\ page' = ErasedPage
  /\ UNCHANGED <<pagedata, overrun, then, port, owing, jsonset, logs, command_stack>>

\* If something was written behind an array, the program may not survive the
\* return.
Write ==
  /\ at = "write" /\ at' \in {then} \cup IF overrun THEN {"fault"} ELSE {}
  /\ page' = pagedata /\ pagedata' = ErasedPage /\ overrun' = FALSE /\ then' = "loop"
  /\ UNCHANGED <<port, owing, jsonset, logs, command_stack>>

\* A menu entry of the device stores a setting, a short one.
PanelSaves ==
  /\ at = "loop"
  /\ \E k \in OwnKeys, v \in Values : Stored[v] = v /\ keyval_set(k, v, "loop")
  /\ UNCHANGED <<line, host, owing, jsonset, logs, command_stack>>

\* All pages of the log are erased (module FlashLog).
log_clear(return) ==
  /\ at' = "clear" /\ then' = return
  /\ usart_disable
  /\ UNCHANGED <<page, pagedata, overrun, line, host, owing, jsonset, logs, command_stack>>

\* The menu entry Clear Log.
PanelClears == at = "loop" /\ log_clear("loop")

\* A LOGCLEAR answers when it returns.
ClearDone ==
  /\ at = "clear" /\ at' = then /\ then' = "loop"
  /\ owing' = IF then = "loop" THEN owing ELSE "nothing"
  /\ UNCHANGED <<page, pagedata, overrun, port, jsonset, logs, command_stack>>

-----------------------------------------------------------------------------
(* Commands: serial_process_command with the function on top of the stack *)

Top == command_stack[Len(command_stack)]

\* The line is done; its answer, often a prompt, is sent before the ring is
\* emptied.
Answers == at' = "reset" /\ owing' = "nothing"
Silent  == at' = "reset" /\ owing' = "silence"

\* An unknown command, or one that prints something, or LOGSTRESS, whose work
\* is in module FlashLog; a JSON line that gets something or is not understood.
Other ==
  /\ at = "line" /\ Answers
  /\ Top = "main" \/ currentline_position > 0
  /\ UNCHANGED <<port, keys, jsonset, logs, command_stack>>

\* No "=" in a line of KEYVALSET, a line of MORSE, or a JSON line that sets the
\* clock to 0.
Ignored ==
  /\ at = "line" /\ Silent
  /\ Top \in {"setkeyval", "morse"} \/ currentline_position > 0
  /\ UNCHANGED <<port, keys, jsonset, logs, command_stack>>

\* The first part of a command with two: a prompt of its own.
Asks ==
  /\ at = "line" /\ Answers /\ Top = "main" /\ currentline_position > 0
  /\ \E c \in Parts : command_stack' = Append(command_stack, c)
  /\ UNCHANGED <<port, keys, jsonset, logs>>

\* The second part, done with its line; a "_" or "=" to end the other two.
Answered ==
  /\ at = "line" /\ Answers
  /\ \/ Top = "numbers"
     \/ Top \in {"morse", "setkeyval"} /\ currentline_position > 0
  /\ command_stack' = SubSeq(command_stack, 1, Len(command_stack) - 1)
  /\ UNCHANGED <<port, keys, jsonset, logs>>

\* sscanf leaves the tag as it was, uninitialised, if the line is empty or all
\* blanks.
serial_setdevicetag_run ==
  /\ at = "line" /\ Top = "setdevicetag"
  /\ \E v \in {Torn} \cup IF currentline_position = 0 THEN {} ELSE Values :
       keyval_set(DeviceTag, v, "pop")
  /\ UNCHANGED <<line, host, owing, jsonset, logs, command_stack>>

command_stack_pop ==
  /\ at = "pop" /\ Answers
  /\ command_stack' = SubSeq(command_stack, 1, Len(command_stack) - 1)
  /\ UNCHANGED <<port, keys, jsonset, logs>>

\* KEY=VAL in a KEYVALSET is stored without an answer.
serial_setkeyval_run ==
  /\ at = "line" /\ Top = "setkeyval" /\ currentline_position > 0
  /\ \E k \in Keys, v \in Values : keyval_set(k, v, "reset")
  /\ owing' = "silence"
  /\ UNCHANGED <<line, host, jsonset, logs, command_stack>>

\* A JSON "set" of one key or several, which leaves the stack alone.
JsonSet ==
  /\ at = "line" /\ currentline_position > 0
  /\ at' = "json" /\ jsonset' \in SUBSET OwnKeys \ {{}}
  /\ UNCHANGED <<port, owing, keys, logs, command_stack>>

\* They are stored one after another, in any order here; each says "ok".
JsonStores ==
  /\ at = "json"
  /\ \E k \in OwnKeys, v \in Values :
       k \in jsonset /\ keyval_set(k, v, "json") /\ jsonset' = jsonset \ {k}
  /\ UNCHANGED <<line, host, owing, logs, command_stack>>

JsonDone ==
  /\ at = "json" /\ jsonset = {} /\ Answers
  /\ UNCHANGED <<port, keys, jsonset, logs, command_stack>>

MainCommand == at = "line" /\ Top = "main" /\ currentline_position > 0

\* LOGCLEAR
cmd_logclear == MainCommand /\ log_clear("reset")

cmd_logpause ==
  /\ MainCommand /\ Answers
  /\ log_pause' = TRUE /\ asked' = TRUE
  /\ UNCHANGED <<transfer, port, keys, jsonset, command_stack>>

cmd_logresume ==
  /\ MainCommand /\ Answers
  /\ log_pause' = FALSE /\ asked' = FALSE
  /\ UNCHANGED <<transfer, port, keys, jsonset, command_stack>>

-----------------------------------------------------------------------------
(* cmd_logxfer, cmd_logcsv *)

StartTransfer ==
  /\ MainCommand
  /\ at' = "xfer" /\ log_pause' = TRUE
  /\ \E f \in {"json", "csv"}, n \in LogSizes :
       transfer' = [NoTransfer EXCEPT !.format = f, !.records = n]
  /\ UNCHANGED <<asked, port, owing, keys, jsonset, command_stack>>

\* No end for an empty log.
Footer_NotEmpty(position, n) == position + 1 = n

\* After the last record, or alone if there is none.
Footer(position, n) == position + 1 = n \/ (position = 0 /\ n = 0)

\* log_read_block, log_read_csv: what one call puts into the buffer.
Block ==
  LET p == transfer.log_position
      n == transfer.records
      json == transfer.format = "json"
      If(cond, text) == IF cond THEN <<text>> ELSE <<>>
  IN If(p = 0, <<"header", 0>>) \o If(p < n, <<"record", p + 1>>)
     \o If(json /\ p < n /\ p # n - 1, <<"comma", 0>>)
     \o If(json /\ Footer(p, n), <<"footer", 0>>)

log_read_block ==
  /\ at = "xfer" /\ Block # <<>>
  /\ transfer' = [transfer EXCEPT !.log_position = @ + 1, !.out = @ \o Block]
  /\ UNCHANGED <<log_pause, asked, port, owing, keys, jsonset, at, command_stack>>

\* The log left paused.
EndTransfer_Kept ==
  /\ at = "xfer" /\ Block = <<>>
  /\ Answers /\ asked' = FALSE
  /\ transfer' = NoTransfer
  /\ UNCHANGED <<log_pause, port, keys, jsonset, command_stack>>

\* log_position set back when all is read, for the next transfer.
EndTransfer_Rewinds ==
  /\ at = "xfer" /\ Block = <<>>
  /\ transfer' = [transfer EXCEPT !.log_position = 0, !.out = <<>>]
  /\ UNCHANGED <<log_pause, asked, port, owing, keys, jsonset, at, command_stack>>

\* The transfer "pauses logging, and then resumes" (doc/serial.md), also when
\* it was paused before.  log_position is not read again before it is reset.
EndTransfer ==
  /\ at = "xfer" /\ Block = <<>>
  /\ Answers /\ log_pause' = FALSE /\ asked' = FALSE
  /\ transfer' = NoTransfer
  /\ UNCHANGED <<port, keys, jsonset, command_stack>>

-----------------------------------------------------------------------------
Init ==
  /\ rx = <<>> /\ chunk = <<>> /\ currentline_position = 0
  /\ at = "loop" /\ then = "loop" /\ command_stack = <<"main">>
  /\ page = ErasedPage /\ pagedata = ErasedPage /\ overrun = FALSE /\ jsonset = {}
  /\ log_pause = FALSE /\ transfer = NoTransfer
  /\ typed = 0 /\ sent = 0 /\ owing = "nothing" /\ excused = FALSE
  /\ asked = FALSE

\* Power is lost at any time, or a JSON line resets the device; the page is
\* then what it was, erased, or written in part.
Restart ==
  /\ rx' = <<>> /\ chunk' = <<>> /\ currentline_position' = 0
  /\ at' = "loop" /\ then' = "loop" /\ command_stack' = <<"main">>
  /\ page' \in (IF at = "erase" THEN {page, ErasedPage}
               ELSE IF at = "write" THEN PageCuts(pagedata) ELSE {page})
  /\ pagedata' = ErasedPage /\ overrun' = FALSE /\ jsonset' = {}
  /\ log_pause' = FALSE /\ transfer' = NoTransfer
  /\ typed' = 0 /\ sent' = 0 /\ owing' = "nothing" /\ excused' = FALSE
  /\ asked' = FALSE

MainLoop ==
  \/ ReadChunk \/ TakeByte \/ TakeLineEnd \/ ChunkDone \/ LineDone \/ LineDoneRaced
  \/ Erase \/ Write \/ ClearDone
  \/ Other \/ Ignored \/ Asks \/ Answered \/ serial_setdevicetag_run \/ command_stack_pop
  \/ serial_setkeyval_run \/ JsonSet \/ JsonStores \/ JsonDone
  \/ cmd_logclear \/ cmd_logpause \/ cmd_logresume
  \/ StartTransfer \/ log_read_block \/ EndTransfer

Next == usart_irq \/ Unheard \/ HostSettles \/ MainLoop \/ PanelSaves \/ PanelClears \/ Restart

\* The processor executes the main loop.
Spec == Init /\ [][Next]_vars /\ WF_vars(MainLoop)

-----------------------------------------------------------------------------
(* Properties *)

Stacks == {<<"main">>} \cup {<<"main", c>> : c \in Parts}

\* Every variable keeps its type; commands never nest more than two deep in
\* the stack of ten, nor pop its bottom; the position in the line is 1024 at
\* the most.
TypeOK ==
  /\ rx \in Seq(Bytes) /\ Len(rx) <= RxSize
  /\ chunk \in Seq(Bytes) /\ currentline_position \in 0 .. LineSize
  /\ at \in {"loop", "chunk", "line", "reset", "pop", "json", "erase", "write", "clear", "xfer",
             "fault"}
  /\ then \in {"loop", "reset", "pop", "json"}
  /\ command_stack \in Stacks
  /\ page \in Page /\ pagedata \in Page /\ overrun \in BOOLEAN /\ jsonset \subseteq Keys
  /\ log_pause \in BOOLEAN /\ asked \in BOOLEAN
  /\ typed \in 0 .. RxSize /\ sent \in 0 .. RxSize /\ owing \in Owing
  /\ excused \in BOOLEAN

\* A host that sends lines that fit the ring (63 bytes) and nothing while a
\* line is not answered has them processed as it sent them, through all the
\* commands between.  Excused are bytes that came while a setting was stored
\* or the log cleared from the panel, and bytes that came in the moment between
\* the answer and usart_reset_rx, where they are lost: auto_test/auto_test.c
\* types as soon as it sees the prompt.
LinesArrive == at = "line" /\ ~ excused => currentline_position = sent

\* And each of those lines is answered, however long the command takes, but for
\* those that are never answered (Ignored, serial_setkeyval_run), unless storing
\* a text that is too long, or a key in the last slot, stops the program.
LinesAnswered ==
  owing = "answer" /\ ~ excused ~> owing # "answer" \/ excused \/ at = "fault"

\* No key hides behind an erased slot or is stored twice: every setting in the
\* page is the one keyval_get finds, if all keys fit their 50 bytes.
FindsEveryKey ==
  \A s \in Slots : page[s].key \in Keys => KeyAddress(page, page[s].key) = {s}

\* Logging is paused only for a LOGPAUSE in force or while a transfer runs; in
\* the main loop, where records are stored, only for a LOGPAUSE.
PauseOwned == log_pause = (asked \/ at = "xfer")

\* A log of n records as one document.
Document(format, n) ==
  IF format = "csv"
  THEN [i \in 1 .. n + 1 |-> IF i = 1 THEN <<"header", 0>> ELSE <<"record", i - 1>>]
  ELSE <<<<"header", 0>>>>
       \o [i \in 1 .. 2 * n - 1 |->
             IF i % 2 = 1 THEN <<"record", (i + 1) \div 2>> ELSE <<"comma", 0>>]
       \o <<<<"footer", 0>>>>

\* A transfer of any log, an empty one included, ends with the whole document:
\* header, every record once and in order, separators between them, footer.
WholeDocument ==
  at = "xfer" /\ Block = <<>> =>
    transfer.out = Document(transfer.format, transfer.records)

Store == INSTANCE SettingsStore WITH
  store <- [k \in Keys |-> keyval_get(IF at = "write" THEN pagedata ELSE page, k)],
  open  <- at \in {"erase", "write"}

\* The page implements the map: through erase and rewrite, torn slots and lost
\* power, setting a key never changes another, and nothing appears that was
\* not set.
ImplementsStore == Store!Spec
=============================================================================
