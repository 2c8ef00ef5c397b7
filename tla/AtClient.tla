-------------------------------- MODULE AtClient --------------------------------
(***************************************************************************)
(* The AT command client (components/device/at_device.c): a parser of the  *)
(* lines a modem sends, and the commands that wait for an answer, both     *)
(* polled in turn by the main loop.  The modem answers a command with some *)
(* lines, or with none, and reports events (URCs) in between at any time.  *)
(*                                                                         *)
(* A line is one element of the UART's queue, with the call it belongs to; *)
(* only properties look at that.  "ok" also stands for the end sign, which *)
(* the parser treats in the same way, and "error" for FAIL; a "long" line  *)
(* does not fit line_bufsz.                                                *)
(***************************************************************************)
EXTENDS OsNone, ObjList

CONSTANTS
  Urcs,        \* urc_table
  URC_LIST,    \* client->urc_list, the head
  UartLines,   \* lines the UART's ring holds
  RespLines,   \* lines resp->buf holds
  LineNums,    \* resp->line_num, as at_resp_set_info sets it
  Retry, Timeout, Interval,   \* retry, timeout_ms; interval_ms: 1000
  Answers,     \* what the modem may answer
  MaxCalls,    \* bound: calls of the application, with and without a prompt modem
  MaxUrcs      \* bound: URCs that arrive

ASSUME AtNumbers ==
  /\ Retry \in Nat /\ Timeout \in Nat \ {0} /\ Interval \in Nat \ {0}
  /\ UartLines \in Nat \ {0} /\ RespLines \in Nat \ {0}

\* What ends an answer: "ok" or the end sign, and "error".
Ends == {"ok", "error"}

\* A modem says no more once it has ended an answer.
ASSUME AnswersEndOnce ==
  \A answer \in Answers :
    /\ answer \in Seq(ToSet(answer))
    /\ \A i \in 1 .. Len(answer) : answer[i] \in Ends => i = Len(answer)

\* No event looks like the end of an answer.
ASSUME EventsAreNoEnds == Urcs \in Seq(ToSet(Urcs)) /\ ToSet(Urcs) \cap Ends = {}

VARIABLES
  prompt,     \* answers come and are parsed in the tick of their command
  at_parse,   \* resp: parser_state, rl_state, line_num, lines (buf, buf_len, line_counts)
  at_status,  \* resp->resp_status, and the call whose line set it
  at_line,    \* recv_line_buf
  at_list,    \* the next pointers of the URC list
  resp_notice,
  at_common,  \* cmd: state_common, trycnt_send, timer_send_wait
  at_send,    \* cmd->state_send
  at_uart,    \* the lines received and not read
  at_modem,   \* the lines the modem has still to send, how many URCs it sent, and
              \* whether the UART lost a line of it (only a property looks at that)
  at_now,     \* system tick
  at_call,    \* the application: the call it is in, how many commands it sent
  at_result,  \* what the last call returned, and the response then
  at_turn     \* whose poll is next

at_vars == <<prompt, at_parse, at_status, at_line, at_list, resp_notice, at_common, at_send,
             at_uart, at_modem, at_now, at_call, at_result, at_turn>>

parser_vars == <<at_parse, at_status, at_line>>
cmd_vars == <<at_common, at_send, at_call, at_result>>
env_vars == <<prompt, at_list, at_modem, at_now>>

\* at_client_init, and at_resp_set_info once.
AtInit ==
  /\ prompt \in BOOLEAN
  /\ \E n \in LineNums :
       at_parse = [parser |-> "START", rl |-> "START", line_num |-> n, lines |-> <<>>]
  /\ at_status = [status |-> "OK", of |-> 0]
  /\ at_line = NONE
  /\ at_list = [u \in ToSet(Urcs) \cup {URC_LIST} |-> NONE]
  /\ resp_notice = sdk_os_sem_init(NoSem, 0)
  /\ at_common = [state |-> "START", trycnt |-> 0, timer |-> UnsetTimer]
  /\ at_send = "START"
  /\ at_uart = <<>>
  /\ at_modem = [lines |-> <<>>, urcs |-> 0, lost |-> FALSE]
  /\ at_now = 1
  /\ at_call = [kind |-> "none", n |-> 0, sends |-> 0]
  /\ at_result = [status |-> "none", of |-> 0, lines |-> <<>>]
  /\ at_turn = "parser"

--------------------------------------------------------------------------------
(* The parser: one poll                                                    *)

get_urc_obj(line) == FirstMatch(at_list, URC_LIST, {line.kind})

ParserStart ==
  /\ at_parse.parser = "START"
  /\ at_parse' = [at_parse EXCEPT !.parser = "READ_LINE", !.rl = "START", !.lines = <<>>]
  /\ UNCHANGED <<at_status, at_line, at_uart, resp_notice>>

\* The polls in AT_RESP_RL_STAT_START and _INIT, as one.
BeginLine ==
  /\ at_parse.parser = "READ_LINE" /\ at_parse.rl = "START"
  /\ at_parse' = [at_parse EXCEPT !.rl = "RECV"]
  /\ at_line' = NONE
  /\ UNCHANGED <<at_status, at_uart, resp_notice>>

NoLine ==
  /\ at_parse.parser = "READ_LINE" /\ at_parse.rl = "RECV"
  /\ at_uart = <<>>
  /\ UNCHANGED <<parser_vars, at_uart, resp_notice>>

\* The polls that read the bytes of a line.  For a line that is too long the
\* status is set, and nobody is told.
at_recv_readline ==
  /\ at_parse.parser = "READ_LINE" /\ at_parse.rl = "RECV"
  /\ at_uart # <<>>
  /\ at_uart' = Tail(at_uart)
  /\ IF Head(at_uart).kind = "long"
       THEN /\ at_line' = NONE
            /\ at_status' = [status |-> "BUFF_FULL", of |-> Head(at_uart).of]
            /\ at_parse' = [at_parse EXCEPT !.parser = "START", !.rl = "BUFF_FULL"]
       ELSE /\ at_line' = Head(at_uart)
            /\ at_parse' = [at_parse EXCEPT !.parser = "PARSE_LINE", !.rl = "READ_LINE_OK"]
            /\ UNCHANGED at_status
  /\ UNCHANGED resp_notice

\* A URC: its handler runs, and whatever was received of an answer is forgotten.
ParseUrc ==
  /\ at_parse.parser = "PARSE_LINE"
  /\ get_urc_obj(at_line) # NONE
  /\ at_status' = [status |-> "OK", of |-> 0]
  /\ at_parse' = [at_parse EXCEPT !.parser = "START"]
  /\ UNCHANGED <<at_line, at_uart, resp_notice>>

\* Mutant: a line that does not fit is dropped.
LinesThatFit(line) ==
  IF Len(at_parse.lines) < RespLines THEN Append(at_parse.lines, line) ELSE at_parse.lines

\* A line that does not fit clears the response, and counts for its end.
LinesWith(line) ==
  IF Len(at_parse.lines) < RespLines THEN Append(at_parse.lines, line) ELSE <<>>

\* What the answer ends with, or WAITING.
EndOfAnswer(line, lines) ==
  IF line.kind = "ok" /\ at_parse.line_num = 0 THEN "OK"
  ELSE IF line.kind = "error" THEN "ERROR"
  ELSE IF at_parse.line_num # 0 /\ Len(lines) = at_parse.line_num THEN "OK"
  ELSE "WAITING"

\* Mutant: any line is the end of an answer.
AnyLineEnds ==
  /\ at_parse.parser = "PARSE_LINE"
  /\ at_status' = [status |-> "OK", of |-> at_line.of]
  /\ resp_notice' = sdk_os_sem_release(resp_notice)
  /\ at_parse' = [at_parse EXCEPT !.parser = "START", !.lines = LinesWith(at_line)]
  /\ UNCHANGED <<at_line, at_uart>>

ParseAnswer ==
  /\ at_parse.parser = "PARSE_LINE"
  /\ get_urc_obj(at_line) = NONE
  /\ LET lines == LinesWith(at_line)
         end   == EndOfAnswer(at_line, lines)
     IN  IF end # "WAITING"
           THEN /\ at_status' = [status |-> end, of |-> at_line.of]
                /\ resp_notice' = sdk_os_sem_release(resp_notice)
                /\ at_parse' = [at_parse EXCEPT !.parser = "START", !.lines = lines]
           ELSE /\ at_status' = IF lines = <<>> THEN [status |-> "BUFF_FULL", of |-> at_line.of]
                                                ELSE at_status
                /\ at_parse' = [at_parse EXCEPT !.parser = "READ_LINE", !.rl = "START",
                                                !.lines = lines]
                /\ UNCHANGED resp_notice
  /\ UNCHANGED <<at_line, at_uart>>

at_parser_poll ==
  /\ at_turn = "parser"
  /\ at_turn' = "command"
  /\ \/ ParserStart
     \/ BeginLine
     \/ NoLine
     \/ at_recv_readline
     \/ ParseUrc
     \/ ParseAnswer
  /\ UNCHANGED <<env_vars, cmd_vars>>

--------------------------------------------------------------------------------
(* Commands: one poll                                                      *)

\* Does the UART's ring forget lines for these?
Overflows(uart, lines) == Len(uart) + Len(lines) > UartLines

\* The UART's ring has forgotten the oldest lines when it is full.
Deliver(uart, lines) ==
  LET all  == uart \o lines
      lost == IF Len(all) > UartLines THEN Len(all) - UartLines ELSE 0
  IN  SubSeq(all, lost + 1, Len(all))

Tagged(answer) == [i \in DOMAIN answer |-> [kind |-> answer[i], of |-> at_call.n]]

\* sdk_uart_write, and the modem, which answers at once or later or not at all.
WriteCommand ==
  \E answer \in Answers \cup {<<>>} :
    IF prompt
      THEN /\ at_uart' = Deliver(at_uart, Tagged(answer))
           /\ at_modem' = [at_modem EXCEPT !.lost = @ \/ Overflows(at_uart, Tagged(answer))]
      ELSE /\ at_modem' = [at_modem EXCEPT !.lines = Tagged(answer)]
           /\ UNCHANGED at_uart

AT_CMD_SEND(timeout_ms) ==
  \/ /\ at_send \in {"START", "REVOK", "TIMEOUT"}
     /\ at_send' = IF at_send = "START" THEN "SEND" ELSE "START"
     /\ UNCHANGED <<resp_notice, at_uart, at_modem>>
  \/ /\ at_send = "SEND"
     /\ resp_notice' = sdk_os_sem_init(resp_notice, 0)
     /\ WriteCommand
     /\ at_send' = "WAIT_REV"
  \/ /\ at_send = "WAIT_REV"
     /\ LET take == sdk_os_sem_take(resp_notice, timeout_ms, at_now) IN
        /\ resp_notice' = take.sem
        /\ at_send' = CASE take.status = "OK" -> "REVOK"
                        [] take.status = "TIMEOUT" -> "TIMEOUT"
                        [] take.status = "BUSY" -> "WAIT_REV"
     /\ UNCHANGED <<at_uart, at_modem>>

\* The application gets something other than WAITING.
Return(status) ==
  /\ at_call' = [at_call EXCEPT !.kind = "none"]
  /\ at_result' = [status |-> status, of |-> at_status.of, lines |-> at_parse.lines]

Waiting ==
  /\ at_call' = IF at_send = "SEND" /\ at_call.kind = "ex" THEN [at_call EXCEPT !.sends = @ + 1]
                                                           ELSE at_call
  /\ UNCHANGED at_result

\* It does not report a timeout: the next poll sends the command again.
at_cmd_common ==
  /\ at_call.kind = "common"
  /\ AT_CMD_SEND(Timeout)
  /\ IF at_send' = "REVOK" THEN Return(at_status.status) ELSE Waiting
  /\ UNCHANGED at_common

ExStart ==
  /\ at_common.state = "START"
  /\ at_common' = [at_common EXCEPT !.trycnt = 0, !.state = "SEND"]
  /\ UNCHANGED <<at_call, at_result>>

\* The answer was an error, or parse_func does not like it.
NotAccepted == Waiting /\ at_common' = [at_common EXCEPT !.state = "RETRY"]

ExSend ==
  /\ at_common.state = "SEND"
  /\ AT_CMD_SEND(Timeout)
  /\ CASE at_send' = "REVOK" /\ at_status.status = "OK" ->
            \/ Return("OK") /\ at_common' = [at_common EXCEPT !.state = "START"]
            \/ NotAccepted
       [] at_send' = "REVOK" /\ at_status.status = "BUFF_FULL" ->
            Return("BUFF_FULL") /\ UNCHANGED at_common
       [] at_send' = "REVOK" /\ at_status.status = "ERROR" -> NotAccepted
       [] at_send' = "TIMEOUT" -> NotAccepted
       [] OTHER -> Waiting /\ UNCHANGED at_common

\* Mutant: one try more.
OneTryMore ==
  /\ at_common.state = "RETRY"
  /\ at_common' =
       IF at_common.trycnt > Retry THEN [at_common EXCEPT !.state = "TIMEOUT"]
       ELSE [state |-> "WAIT_SEND", trycnt |-> at_common.trycnt + 1,
             timer |-> swtimer_set(at_now, Interval)]
  /\ UNCHANGED <<at_call, at_result>>

ExRetry ==
  /\ at_common.state = "RETRY"
  /\ at_common' =
       IF at_common.trycnt >= Retry THEN [at_common EXCEPT !.state = "TIMEOUT"]
       ELSE [state |-> "WAIT_SEND", trycnt |-> at_common.trycnt + 1,
             timer |-> swtimer_set(at_now, Interval)]
  /\ UNCHANGED <<at_call, at_result>>

ExWaitSend ==
  /\ at_common.state = "WAIT_SEND"
  /\ at_common' = IF swtimer_expired(at_common.timer, at_now)
                    THEN [at_common EXCEPT !.state = "SEND"] ELSE at_common
  /\ UNCHANGED <<at_call, at_result>>

ExTimeout ==
  /\ at_common.state = "TIMEOUT"
  /\ at_common' = [at_common EXCEPT !.state = "START"]
  /\ Return("TIMEOUT")

at_cmd_common_ex ==
  /\ at_call.kind = "ex"
  /\ \/ ExSend
     \/ /\ \/ ExStart
           \/ ExRetry
           \/ ExWaitSend
           \/ ExTimeout
        /\ UNCHANGED <<at_send, resp_notice, at_uart, at_modem>>

--------------------------------------------------------------------------------
(* The application, the modem and time                                     *)

\* Once, and after that again without effect.
at_obj_set_urc_table ==
  /\ at_call.kind = "none"
  /\ at_list' = Register(at_list, URC_LIST, Urcs)
  /\ UNCHANGED <<cmd_vars, resp_notice, at_uart, at_modem>>

\* The main loop between two calls.
Idle == at_call.kind = "none" /\ UNCHANGED <<cmd_vars, resp_notice, at_uart, at_modem>>

StartCall ==
  /\ at_call.kind = "none" /\ at_call.n < MaxCalls[prompt]
  /\ \E kind \in {"common", "ex"} : at_call' = [kind |-> kind, n |-> at_call.n + 1, sends |-> 0]
  /\ at_result' = [status |-> "none", of |-> 0, lines |-> <<>>]
  /\ UNCHANGED <<at_common, at_send, resp_notice, at_uart, at_modem>>

\* With a prompt modem everything is read and parsed, and an answer that is
\* waited for is taken, before time goes on.
Parsed ==
  /\ at_uart = <<>> /\ at_parse.parser = "READ_LINE" /\ at_parse.rl = "RECV"
  /\ ~(at_send = "WAIT_REV" /\ resp_notice.value > 0)

\* Nobody notices a tick while no timer runs.
Timing == resp_notice.state = "WAITING" \/ at_common.state = "WAIT_SEND"

\* The main loop goes round more than once per tick.
Round(ticks) ==
  /\ at_turn = "command"
  /\ at_turn' = "parser"
  /\ \/ at_obj_set_urc_table
     \/ /\ \/ at_cmd_common
           \/ at_cmd_common_ex
           \/ Idle
           \/ StartCall
        /\ UNCHANGED at_list
  /\ UNCHANGED <<prompt, parser_vars>>
  /\ at_now' = (at_now + ticks) % W
  /\ ticks > 0 => Timing /\ (prompt => Parsed')

CommandPoll == \E ticks \in {0, 1} : Round(ticks)

\* What arrives counts from the next poll of the parser on.
ModemSends ==
  /\ at_turn = "parser"
  /\ at_modem.lines # <<>>
  /\ at_uart' = Deliver(at_uart, <<Head(at_modem.lines)>>)
  /\ at_modem' = [at_modem EXCEPT !.lines = Tail(@),
                                  !.lost = @ \/ Overflows(at_uart, <<Head(at_modem.lines)>>)]
  /\ UNCHANGED <<prompt, parser_vars, at_list, resp_notice, cmd_vars, at_now, at_turn>>

UrcArrives ==
  /\ at_turn = "parser"
  /\ at_modem.urcs < MaxUrcs
  /\ \E u \in ToSet(Urcs) :
       /\ at_uart' = Deliver(at_uart, <<[kind |-> u, of |-> 0]>>)
       /\ at_modem' = [at_modem EXCEPT !.urcs = @ + 1,
                                       !.lost = @ \/ Overflows(at_uart, <<[kind |-> u, of |-> 0]>>)]
  /\ UNCHANGED <<prompt, parser_vars, at_list, resp_notice, cmd_vars, at_now, at_turn>>

AtNext ==
  \/ at_parser_poll
  \/ CommandPoll
  \/ ModemSends
  \/ UrcArrives

\* The main loop goes round, and time goes on.
AtFairness ==
  /\ WF_at_vars(at_parser_poll) /\ WF_at_vars(CommandPoll)
  /\ SF_at_vars(Round(1))

AtSpec == AtInit /\ [][AtNext]_at_vars /\ AtFairness

--------------------------------------------------------------------------------
(* Properties                                                              *)

\* With a prompt modem and line_num = 0, what a call returns as its status comes
\* from the answer to its own command: events in between, lines that were left
\* over and commands that nobody answered before do not count as an answer.
AtOutcomeIsOwn ==
  prompt /\ at_parse.line_num = 0 /\ at_result.status \in {"OK", "ERROR"} =>
    at_result.of = at_call.n

\* The lines of s that belong to a call: those of answers, without those of events.
AnswerLines(s) ==
  LET found[i \in 0 .. Len(s)] ==
        IF i = 0 THEN <<>> ELSE IF s[i].of # 0 THEN Append(found[i - 1], s[i]) ELSE found[i - 1]
  IN  found[Len(s)]

\* And of answers, the response it is given has lines of this one only, in order
\* and to the last one, which is an OK or an ERROR as the status says: what an
\* event or a full buffer made the client forget is the beginning.  (Lines of
\* events that nobody registered may be among them.)  Only when the last line
\* itself does not fit the response is empty as a whole, its end forgotten too and
\* the status the same; and that takes an answer that, with the events there were,
\* is more than the buffer holds.  But a line that the UART lost may have been an
\* answer's last: the next command's response then begins with what was received
\* of that answer.
AtResponseIsOneAnswer ==
  prompt /\ at_parse.line_num = 0 /\ ~at_modem.lost /\ at_result.status \in {"OK", "ERROR"} =>
    \E answer \in Answers :
      /\ Last(answer) = IF at_result.status = "OK" THEN "ok" ELSE "error"
      /\ IF at_result.lines = <<>>
           THEN Len(answer) + at_modem.urcs > RespLines
           ELSE /\ AnswerLines(at_result.lines) # <<>>
                /\ IsSuffix(AnswerLines(at_result.lines),
                            [i \in DOMAIN answer |-> [kind |-> answer[i], of |-> at_call.n]])

\* at_cmd_common_ex sends its command no more than retry + 1 times per call,
\* with any modem: a try that was answered badly counts as one that was not.
AtSendsAtMost == at_call.sends <= Retry + 1

\* The one tick in which a timer that is set never expires.
SetAtZero ==
  \/ resp_notice.state = "WAITING" /\ resp_notice.timer.start = 0
  \/ at_common.state = "WAIT_SEND" /\ at_common.timer.start = 0

\* Every call of at_cmd_common_ex returns something other than AT_RESP_WAITING
\* in the end, with any modem, unless a timer of it is set in the tick in which
\* the clock reads 0.  (at_cmd_common promises no such thing: it has no timeout.)
AtCallEnds == at_call.kind = "ex" ~> at_call.kind = "none" \/ SetAtZero
================================================================================
