----------------------------- MODULE AtClientProofs -----------------------------
(***************************************************************************)
(* Proofs about AtClient, for every modem that ends an answer once, any    *)
(* table of events, and any sizes, retries, timeouts and clock; what they  *)
(* say of a response is about modems that end every answer they begin.     *)
(***************************************************************************)
EXTENDS AtClient, SequenceTheorems, WellFoundedInduction, TLAPS

--------------------------------------------------------------------------------
(* The parts of the inductive invariants                                   *)

Kinds == ToSet(Urcs) \cup UNION {ToSet(answer) : answer \in Answers}

Lines == [kind : Kinds, of : Nat]

Notices == [value : Nat, state : {"START", "WAITING", "TIMEOUT"}, timer : Timer({0, Timeout})]

Statuses == {"OK", "ERROR", "BUFF_FULL"}

Parses ==
  [parser : {"START", "READ_LINE", "PARSE_LINE"},
   rl : {"START", "RECV", "BUFF_FULL", "READ_LINE_OK"},
   line_num : LineNums, lines : Seq(Lines)]

ParserTypes ==
  /\ at_parse \in Parses
  /\ at_status \in [status : Statuses, of : Nat]
  /\ at_line \in Lines \cup {NONE}
  /\ at_parse.parser = "PARSE_LINE" => at_line \in Lines

Commons ==
  [state : {"START", "SEND", "RETRY", "WAIT_SEND", "TIMEOUT"},
   trycnt : 0 .. Retry, timer : Timer({0, Interval})]

Calls == [kind : {"none", "common", "ex"}, n : Nat, sends : Nat]

Results == [status : {"none", "TIMEOUT"} \cup Statuses, of : Nat, lines : Seq(Lines)]

CommandTypes ==
  /\ resp_notice \in Notices
  /\ at_common \in Commons
  /\ at_send \in {"START", "SEND", "WAIT_REV", "REVOK", "TIMEOUT"}
  /\ at_call \in Calls
  /\ at_result \in Results

Modems == [lines : Seq(Lines), urcs : Nat, lost : BOOLEAN]

WorldTypes ==
  /\ prompt \in BOOLEAN
  /\ at_uart \in Seq(Lines)
  /\ at_modem \in Modems
  /\ at_now \in Ticks
  /\ at_turn \in {"parser", "command"}

AtTypes == ParserTypes /\ CommandTypes /\ WorldTypes

\* A command is waited for by the call that sent it.
WaitsInCall ==
  at_send = "WAIT_REV" =>
    at_call.kind = "common" \/ (at_call.kind = "ex" /\ at_common.state = "SEND")

\* Each try but the first was counted before its command is sent.
TriesCounted ==
  /\ at_call.sends <= Retry + 1
  /\ at_call.kind = "ex" =>
       /\ at_call.sends <= at_common.trycnt + 1
       /\ at_common.state = "START" => at_call.sends = 0
       /\ at_common.state = "WAIT_SEND" => at_call.sends <= at_common.trycnt
       /\ at_common.state = "SEND" /\ at_send # "WAIT_REV" => at_call.sends <= at_common.trycnt

\* Call n waits for its answer; no time has passed since it began to.
Expected(n) ==
  /\ n = at_call.n
  /\ at_send = "WAIT_REV"
  /\ resp_notice.value = 0
  /\ \/ resp_notice.state = "START"
     \/ /\ resp_notice.state = "WAITING"
        /\ resp_notice.timer.start = at_now
        /\ resp_notice.timer.timeout_ms = Timeout

InParser == at_parse.parser = "PARSE_LINE" /\ at_line.kind \in Ends

\* The end of an answer is still to be parsed: it is the only one, and its call
\* waits for it.
EndsAreExpected ==
  /\ \A i \in 1 .. Len(at_uart) : at_uart[i].kind \in Ends =>
       /\ Expected(at_uart[i].of)
       /\ \A j \in 1 .. Len(at_uart) : at_uart[j].kind \in Ends => j = i
       /\ ~InParser
  /\ InParser => Expected(at_line.of)

\* The end of an answer was parsed: the call hears of it before anything changes
\* the status.
NoticeIsFresh ==
  resp_notice.value > 0 =>
    /\ resp_notice.value = 1
    /\ at_send = "WAIT_REV"
    /\ at_turn = "command"
    /\ at_status.of = at_call.n

ResultIsOwn == at_result.status \in {"OK", "ERROR"} => at_result.of = at_call.n

PromptHolds ==
  prompt /\ at_parse.line_num = 0 =>
    /\ at_modem.lines = <<>>
    /\ EndsAreExpected
    /\ NoticeIsFresh
    /\ ResultIsOwn

AtInv == AtTypes /\ WaitsInCall /\ TriesCounted /\ PromptHolds

--------------------------------------------------------------------------------
(* The operators                                                           *)

LEMMA TakeNotice ==
  ASSUME NEW sem \in Notices, NEW now \in Ticks,
         NEW take, take = sdk_os_sem_take(sem, Timeout, now)
  PROVE  /\ take.sem \in Notices
         /\ take.status \in {"OK", "BUSY", "TIMEOUT"}
         /\ take.status = "OK" <=> sem.value > 0
         /\ take.sem.value = IF sem.value > 0 THEN sem.value - 1 ELSE sem.value
<1>1. sem.value \in Nat /\ sem.state \in {"START", "WAITING", "TIMEOUT"} /\ sem.timer \in Timer({0, Timeout})
  BY DEF Notices
<1>2. swtimer_set(now, Timeout) \in Timer({0, Timeout})
  BY DEF swtimer_set, Timer
<1>3. CASE sem.value > 0
  <2> DEFINE new == [sem EXCEPT !.value = @ - 1, !.state = "START"]
  <2>1. new \in Notices /\ new.value = sem.value - 1
    <3>1. sem.value - 1 \in Nat
      BY <1>1, <1>3
    <3>2. \A v \in Nat : [sem EXCEPT !.value = v, !.state = "START"] \in Notices
      BY DEF Notices
    <3>3. new.value = sem.value - 1
      BY <1>3 DEF Notices
    <3>4. QED
      BY <3>1, <3>2, <3>3
  <2>2. take = [status |-> "OK", sem |-> new]
    BY <1>3 DEF sdk_os_sem_take
  <2> HIDE DEF new
  <2>3. take.status = "OK" /\ take.sem = new
    BY <2>2
  <2>4. QED
    BY <1>3, <2>1, <2>3
<1>4. CASE ~(sem.value > 0) /\ sem.state = "START"
  <2> DEFINE new == [sem EXCEPT !.timer = swtimer_set(now, Timeout), !.state = "WAITING"]
  <2>1. new \in Notices /\ new.value = sem.value
    BY <1>1, <1>2, <1>4 DEF Notices
  <2>2. take = [status |-> "BUSY", sem |-> new]
    BY <1>4 DEF sdk_os_sem_take
  <2> HIDE DEF new
  <2>3. take.status = "BUSY" /\ take.sem = new
    BY <2>2
  <2>4. QED
    BY <1>4, <2>1, <2>3
<1>5. CASE ~(sem.value > 0) /\ sem.state = "WAITING"
  <2>1. take.status = "BUSY" /\ take.sem \in {sem, [sem EXCEPT !.state = "TIMEOUT"]}
    BY <1>5 DEF sdk_os_sem_take
  <2>2. QED
    BY <1>5, <2>1 DEF Notices
<1>6. CASE ~(sem.value > 0) /\ sem.state = "TIMEOUT"
  <2>1. take.status = "TIMEOUT" /\ take.sem = [sem EXCEPT !.state = "START"]
    BY <1>6 DEF sdk_os_sem_take
  <2>2. QED
    BY <1>6, <2>1 DEF Notices
<1>7. QED
  BY <1>1, <1>3, <1>4, <1>5, <1>6

\* What is waited for since this tick goes on being waited for.
LEMMA TakeExpected ==
  ASSUME AtTypes, \E n : Expected(n),
         NEW take, take = sdk_os_sem_take(resp_notice, Timeout, at_now)
  PROVE  /\ take.status = "BUSY"
         /\ take.sem.value = 0
         /\ take.sem.state = "WAITING"
         /\ take.sem.timer.start = at_now
         /\ take.sem.timer.timeout_ms = Timeout
<1>1. resp_notice \in Notices /\ at_now \in Ticks
  BY DEF AtTypes, CommandTypes, WorldTypes
<1>2. resp_notice.value = 0
  BY DEF Expected
<1>3. CASE resp_notice.state = "START"
  <2> DEFINE new == [resp_notice EXCEPT !.timer = swtimer_set(at_now, Timeout), !.state = "WAITING"]
  <2>1. new.value = 0 /\ new.state = "WAITING" /\ new.timer = swtimer_set(at_now, Timeout)
    BY <1>1, <1>2 DEF Notices
  <2>2. take = [status |-> "BUSY", sem |-> new]
    BY <1>2, <1>3 DEF sdk_os_sem_take
  <2> HIDE DEF new
  <2>3. take.status = "BUSY" /\ take.sem = new
    BY <2>2
  <2>4. QED
    BY <2>1, <2>3 DEF swtimer_set
<1>4. CASE resp_notice.state # "START"
  <2>1. /\ resp_notice.state = "WAITING" /\ resp_notice.timer.start = at_now
        /\ resp_notice.timer.timeout_ms = Timeout
    BY <1>4 DEF Expected
  <2>2. ~swtimer_expired(resp_notice.timer, at_now)
    <3>1. at_now \in Int /\ W \in Nat \ {0}
      BY <1>1, WIsEven DEF Ticks
    <3>2. at_now - at_now = 0 /\ 0 % W = 0
      BY <3>1
    <3>3. Elapsed(resp_notice.timer, at_now) <= 0
      BY <2>1, <3>1, <3>2 DEF Elapsed
    <3>4. Elapsed(resp_notice.timer, at_now) \in Int
      BY <2>1, <3>1, <3>2 DEF Elapsed
    <3>5. QED
      BY <2>1, <3>3, <3>4, AtNumbers DEF swtimer_expired
  <2>3. take = [status |-> "BUSY", sem |-> resp_notice]
    BY <1>2, <2>1, <2>2 DEF sdk_os_sem_take
  <2>4. QED
    BY <1>2, <2>1, <2>3
<1>5. QED
  BY <1>3, <1>4

\* new is uart and then lines, without some of the oldest.
Follows(new, uart, lines) ==
  \E lost \in Nat :
    /\ Len(new) = Len(uart) + Len(lines) - lost
    /\ \A i \in 1 .. Len(new) :
         \/ lost + i \in 1 .. Len(uart) /\ new[i] = uart[lost + i]
         \/ /\ lost + i - Len(uart) \in 1 .. Len(lines)
            /\ new[i] = lines[lost + i - Len(uart)]

\* What is delivered follows what was there, of which the oldest may be lost.
LEMMA DeliverLines ==
  ASSUME NEW S, NEW uart \in Seq(S), NEW lines \in Seq(S), NEW new, new = Deliver(uart, lines)
  PROVE  new \in Seq(S) /\ Follows(new, uart, lines)
<1> DEFINE all  == uart \o lines
           lost == IF Len(all) > UartLines THEN Len(all) - UartLines ELSE 0
<1>1. /\ all \in Seq(S) /\ Len(all) = Len(uart) + Len(lines) /\ Len(uart) \in Nat /\ Len(lines) \in Nat
      /\ \A k \in 1 .. Len(all) : all[k] = IF k <= Len(uart) THEN uart[k] ELSE lines[k - Len(uart)]
  BY ConcatProperties
<1>2. lost \in 0 .. Len(all)
  BY <1>1, AtNumbers
<1>3. new = SubSeq(all, lost + 1, Len(all))
  BY DEF Deliver
<1> HIDE DEF all, lost
<1>4. /\ new \in Seq(S) /\ Len(new) = Len(all) - lost
      /\ \A i \in 1 .. Len(new) : new[i] = all[lost + i] /\ lost + i \in 1 .. Len(all)
  <2>1. \A k \in lost + 1 .. Len(all) : k \in 1 .. Len(all)
    BY <1>1, <1>2
  <2>2. \A k \in lost + 1 .. Len(all) : all[k] \in S
    BY <1>1, <2>1
  <2>3. QED
    BY <1>1, <1>2, <1>3, <2>2, SubSeqProperties
<1>5. ASSUME NEW i \in 1 .. Len(new)
      PROVE  \/ lost + i \in 1 .. Len(uart) /\ new[i] = uart[lost + i]
             \/ /\ lost + i - Len(uart) \in 1 .. Len(lines)
                /\ new[i] = lines[lost + i - Len(uart)]
  <2>1. i \in Nat /\ lost \in Nat /\ new[i] = all[lost + i] /\ lost + i \in 1 .. Len(all)
    BY <1>1, <1>2, <1>4, <1>5
  <2>2. CASE lost + i <= Len(uart)
    <3>1. lost + i \in 1 .. Len(uart)
      BY <1>1, <2>1, <2>2
    <3>2. QED
      BY <1>1, <2>1, <2>2, <3>1
  <2>3. CASE lost + i > Len(uart)
    <3>1. lost + i - Len(uart) \in 1 .. Len(lines)
      BY <1>1, <2>1, <2>3
    <3>2. new[i] = lines[lost + i - Len(uart)]
      BY <1>1, <2>1, <2>3
    <3>3. QED
      BY <3>1, <3>2
  <2>4. QED
    BY <1>1, <2>1, <2>2, <2>3
<1>6. lost \in Nat /\ Len(new) = Len(uart) + Len(lines) - lost
  BY <1>1, <1>2, <1>4
<1>7. QED
  BY <1>4, <1>5, <1>6 DEF Follows

\* A command's answer is lines of its call, and only the last one ends it.
LEMMA TaggedAnswer ==
  ASSUME AtTypes, NEW answer \in Answers \cup {<<>>}
  PROVE  /\ Tagged(answer) \in Seq(Lines)
         /\ Len(Tagged(answer)) \in Nat
         /\ \A i \in 1 .. Len(Tagged(answer)) :
              /\ Tagged(answer)[i].of = at_call.n
              /\ Tagged(answer)[i].kind \in Ends => i = Len(Tagged(answer))
<1>1. answer \in Seq(Kinds) /\ Len(answer) \in Nat /\ DOMAIN answer = 1 .. Len(answer)
  <2>1. CASE answer = <<>>
    BY <2>1
  <2>2. CASE answer \in Answers
    <3>1. answer \in Seq(ToSet(answer)) /\ ToSet(answer) \subseteq Kinds
      BY <2>2, AnswersEndOnce DEF Kinds
    <3>2. QED
      BY <3>1
  <2>3. QED
    BY <2>1, <2>2
<1>2. \A i \in 1 .. Len(answer) : answer[i] \in Kinds /\ (answer[i] \in Ends => i = Len(answer))
  <2>1. CASE answer = <<>>
    BY <2>1
  <2>2. CASE answer \in Answers
    <3>1. \A i \in 1 .. Len(answer) : answer[i] \in Kinds
      BY <1>1
    <3>2. \A i \in 1 .. Len(answer) : answer[i] \in Ends => i = Len(answer)
      BY <2>2, AnswersEndOnce
    <3>3. QED
      BY <3>1, <3>2
  <2>3. QED
    BY <2>1, <2>2
<1>3. at_call.n \in Nat
  BY DEF AtTypes, CommandTypes, Calls
<1>4. Tagged(answer) = [i \in 1 .. Len(answer) |-> [kind |-> answer[i], of |-> at_call.n]]
  BY <1>1 DEF Tagged
<1>5. \A i \in 1 .. Len(answer) : [kind |-> answer[i], of |-> at_call.n] \in Lines
  BY <1>2, <1>3 DEF Lines
<1>6. Tagged(answer) \in Seq(Lines) /\ Len(Tagged(answer)) = Len(answer)
  BY <1>1, <1>4, <1>5
<1>7. \A i \in 1 .. Len(answer) : Tagged(answer)[i].of = at_call.n /\ Tagged(answer)[i].kind = answer[i]
  BY <1>4
<1>8. QED
  BY <1>1, <1>2, <1>6, <1>7

--------------------------------------------------------------------------------
(* Types                                                                   *)

LEMMA AtInitHolds == AtInit => AtInv
<1> SUFFICES ASSUME AtInit PROVE AtInv
  OBVIOUS
<1> USE DEF AtInit
<1>1. UnsetTimer \in Timer({0, Timeout}) /\ UnsetTimer \in Timer({0, Interval}) /\ 1 \in Ticks
  BY WIsEven DEF UnsetTimer, Timer, Ticks
<1>2. resp_notice = [value |-> 0, state |-> "START", timer |-> UnsetTimer]
  BY DEF sdk_os_sem_init, NoSem
<1>3. ParserTypes
  BY DEF ParserTypes, Parses, Statuses
<1>4. CommandTypes
  BY <1>1, <1>2, AtNumbers DEF CommandTypes, Notices, Commons, Calls, Results, Statuses
<1>5. WorldTypes
  <2>1. at_modem \in Modems
    BY DEF Modems
  <2>2. QED
    BY <1>1, <2>1 DEF WorldTypes
<1>6. WaitsInCall /\ TriesCounted
  BY AtNumbers DEF WaitsInCall, TriesCounted
<1>7. PromptHolds
  BY <1>2 DEF PromptHolds, EndsAreExpected, InParser, NoticeIsFresh, ResultIsOwn
<1>8. QED
  BY <1>3, <1>4, <1>5, <1>6, <1>7 DEF AtInv, AtTypes

\* The changes of the parser's state.
LEMMA ParseChanges ==
  ASSUME NEW p \in Parses, NEW lines \in Seq(Lines),
         NEW state \in {"START", "READ_LINE", "PARSE_LINE"},
         NEW rl \in {"START", "RECV", "BUFF_FULL", "READ_LINE_OK"}
  PROVE  /\ [p EXCEPT !.parser = state] \in Parses
         /\ [p EXCEPT !.rl = rl] \in Parses
         /\ [p EXCEPT !.parser = state, !.rl = rl] \in Parses
         /\ [p EXCEPT !.parser = state, !.lines = lines] \in Parses
         /\ [p EXCEPT !.parser = state, !.rl = rl, !.lines = lines] \in Parses
<1>1. [p EXCEPT !.parser = state] \in Parses
  BY DEF Parses
<1>2. [p EXCEPT !.rl = rl] \in Parses
  BY DEF Parses
<1>3. [p EXCEPT !.parser = state, !.rl = rl] \in Parses
  BY DEF Parses
<1>4. [p EXCEPT !.parser = state, !.lines = lines] \in Parses
  BY DEF Parses
<1>5. [p EXCEPT !.parser = state, !.rl = rl, !.lines = lines] \in Parses
  BY DEF Parses
<1>6. QED
  BY <1>1, <1>2, <1>3, <1>4, <1>5

LEMMA ParserKeepsTypes == AtTypes /\ at_parser_poll => AtTypes'
<1> SUFFICES ASSUME AtTypes, at_parser_poll PROVE AtTypes'
  OBVIOUS
<1> USE DEF AtTypes, at_parser_poll, env_vars, cmd_vars
<1>1. CommandTypes' <=> resp_notice' \in Notices
  BY DEF CommandTypes
<1>2. WorldTypes' <=> at_uart' \in Seq(Lines)
  BY DEF WorldTypes
<1>3. resp_notice \in Notices /\ at_uart \in Seq(Lines) /\ at_parse \in Parses /\ <<>> \in Seq(Lines)
  BY DEF CommandTypes, WorldTypes, ParserTypes
<1>4. CASE ParserStart
  <2>1. at_parse' \in Parses
    BY <1>3, <1>4, ParseChanges DEF ParserStart
  <2>2. at_parse'.parser # "PARSE_LINE"
    BY <1>3, <1>4 DEF ParserStart, Parses
  <2>3. QED
    BY <1>1, <1>2, <1>3, <1>4, <2>1, <2>2 DEF ParserStart, ParserTypes
<1>5. CASE BeginLine
  <2>1. at_parse' \in Parses
    BY <1>3, <1>5, ParseChanges DEF BeginLine
  <2>2. at_parse'.parser # "PARSE_LINE"
    BY <1>3, <1>5 DEF BeginLine, Parses
  <2>3. QED
    BY <1>1, <1>2, <1>3, <1>5, <2>1, <2>2 DEF BeginLine, ParserTypes
<1>6. CASE NoLine
  BY <1>1, <1>2, <1>3, <1>6 DEF NoLine, parser_vars, ParserTypes
<1>7. CASE ParseUrc
  <2>1. at_parse' \in Parses
    BY <1>3, <1>7, ParseChanges DEF ParseUrc
  <2>2. at_parse'.parser # "PARSE_LINE"
    BY <1>3, <1>7 DEF ParseUrc, Parses
  <2>3. QED
    BY <1>1, <1>2, <1>3, <1>7, <2>1, <2>2 DEF ParseUrc, ParserTypes, Statuses
<1>8. CASE at_recv_readline
  <2>1. resp_notice' = resp_notice /\ at_uart' = Tail(at_uart) /\ at_uart # <<>>
    BY <1>8 DEF at_recv_readline
  <2>2. at_uart' \in Seq(Lines) /\ Head(at_uart) \in Lines
    BY <1>3, <2>1
  <2>3. Head(at_uart).of \in Nat
    BY <2>2 DEF Lines
  <2>4. at_parse' \in Parses
    BY <1>3, <1>8, ParseChanges DEF at_recv_readline
  <2>5. \/ at_line' = NONE /\ at_status' = [status |-> "BUFF_FULL", of |-> Head(at_uart).of]
           /\ at_parse'.parser = "START"
        \/ at_line' = Head(at_uart) /\ at_status' = at_status
    BY <1>3, <1>8 DEF at_recv_readline, Parses
  <2>6. ParserTypes'
    BY <2>2, <2>3, <2>4, <2>5 DEF ParserTypes, Statuses
  <2>7. QED
    BY <1>1, <1>2, <1>3, <2>1, <2>2, <2>6
<1>9. CASE ParseAnswer
  <2> DEFINE lines == LinesWith(at_line)
             end   == EndOfAnswer(at_line, lines)
  <2>1. at_line \in Lines /\ at_line.of \in Nat
    BY <1>9 DEF ParseAnswer, ParserTypes, Lines
  <2>2. lines \in Seq(Lines)
    <3>1. at_parse.lines \in Seq(Lines)
      BY <1>3 DEF Parses
    <3>2. QED
      BY <2>1, <3>1 DEF LinesWith
  <2>3. end \in {"OK", "ERROR", "WAITING"}
    BY DEF EndOfAnswer
  <2>4. at_uart' = at_uart /\ resp_notice' \in {resp_notice, sdk_os_sem_release(resp_notice)}
    BY <1>9 DEF ParseAnswer
  <2>5. sdk_os_sem_release(resp_notice) \in Notices
    BY <1>3 DEF sdk_os_sem_release, Notices
  <2>6. /\ \/ end # "WAITING" /\ at_status' = [status |-> end, of |-> at_line.of]
           \/ at_status' = at_status
           \/ at_status' = [status |-> "BUFF_FULL", of |-> at_line.of]
        /\ \/ at_parse' = [at_parse EXCEPT !.parser = "START", !.lines = lines]
           \/ at_parse' = [at_parse EXCEPT !.parser = "READ_LINE", !.rl = "START", !.lines = lines]
        /\ at_line' = at_line
    BY <1>9 DEF ParseAnswer
  <2> HIDE DEF lines, end
  <2>7. at_status' \in [status : Statuses, of : Nat]
    BY <2>1, <2>3, <2>6 DEF ParserTypes, Statuses
  <2>8. at_parse' \in Parses
    <3>1. [at_parse EXCEPT !.parser = "START", !.lines = lines] \in Parses
      BY <1>3, <2>2, ParseChanges
    <3>2. [at_parse EXCEPT !.parser = "READ_LINE", !.rl = "START", !.lines = lines] \in Parses
      BY <1>3, <2>2, ParseChanges
    <3>3. QED
      BY <2>6, <3>1, <3>2
  <2>9. ParserTypes'
    BY <2>1, <2>6, <2>7, <2>8 DEF ParserTypes
  <2>10. QED
    BY <1>1, <1>2, <1>3, <2>4, <2>5, <2>9
<1>10. QED
  BY <1>4, <1>5, <1>6, <1>7, <1>8, <1>9

\* What a poll of a command may send.
LEMMA CommandSent ==
  ASSUME AtTypes, NEW answer \in Answers \cup {<<>>}
  PROVE  /\ Tagged(answer) \in Seq(Lines)
         /\ Deliver(at_uart, Tagged(answer)) \in Seq(Lines)
<1>1. at_uart \in Seq(Lines)
  BY DEF AtTypes, WorldTypes
<1>2. QED
  BY <1>1, TaggedAnswer, DeliverLines

LEMMA SendKeepsTypes ==
  ASSUME AtTypes, AT_CMD_SEND(Timeout)
  PROVE  /\ resp_notice' \in Notices
         /\ at_send' \in {"START", "SEND", "WAIT_REV", "REVOK", "TIMEOUT"}
         /\ at_uart' \in Seq(Lines)
         /\ at_modem' \in Modems
<1> USE DEF AtTypes
<1>1. /\ resp_notice \in Notices /\ at_uart \in Seq(Lines) /\ at_now \in Ticks
      /\ at_modem \in Modems
  BY DEF CommandTypes, WorldTypes
<1>2. CASE at_send \in {"START", "REVOK", "TIMEOUT"}
  BY <1>1, <1>2 DEF AT_CMD_SEND
<1>3. CASE at_send = "SEND"
  <2>1. resp_notice' = sdk_os_sem_init(resp_notice, 0) /\ WriteCommand /\ at_send' = "WAIT_REV"
    BY <1>3 DEF AT_CMD_SEND
  <2>2. resp_notice' \in Notices
    BY <1>1, <2>1 DEF sdk_os_sem_init, Notices
  <2>3. PICK answer \in Answers \cup {<<>>} :
          IF prompt
            THEN /\ at_uart' = Deliver(at_uart, Tagged(answer))
                 /\ at_modem' = [at_modem EXCEPT !.lost = @ \/ Overflows(at_uart, Tagged(answer))]
            ELSE at_modem' = [at_modem EXCEPT !.lines = Tagged(answer)] /\ UNCHANGED at_uart
    BY <2>1 DEF WriteCommand
  <2>4. Tagged(answer) \in Seq(Lines) /\ Deliver(at_uart, Tagged(answer)) \in Seq(Lines)
    BY CommandSent
  <2> HIDE DEF AtTypes
  <2>5. at_uart' \in Seq(Lines)
    BY <1>1, <2>3, <2>4
  <2>6. \A b \in BOOLEAN : [at_modem EXCEPT !.lost = b] \in Modems
    BY <1>1 DEF Modems
  <2>7. \A l \in Seq(Lines) : [at_modem EXCEPT !.lines = l] \in Modems
    BY <1>1 DEF Modems
  <2>8. at_modem.lost \in BOOLEAN
    BY <1>1 DEF Modems
  <2>9. at_modem' \in Modems
    <3>1. CASE prompt
      <4> DEFINE b == at_modem.lost \/ Overflows(at_uart, Tagged(answer))
      <4>1. b \in BOOLEAN /\ at_modem' = [at_modem EXCEPT !.lost = b]
        BY <2>3, <3>1
      <4> HIDE DEF b
      <4>2. QED
        BY <2>6, <4>1
    <3>2. CASE ~prompt
      BY <2>3, <2>4, <2>7, <3>2
    <3>3. QED
      BY <3>1, <3>2
  <2>10. QED
    BY <2>1, <2>2, <2>5, <2>9
<1>4. CASE at_send = "WAIT_REV"
  <2> DEFINE take == sdk_os_sem_take(resp_notice, Timeout, at_now)
  <2>1. /\ resp_notice' = take.sem
        /\ at_send' = CASE take.status = "OK" -> "REVOK"
                        [] take.status = "TIMEOUT" -> "TIMEOUT"
                        [] take.status = "BUSY" -> "WAIT_REV"
        /\ UNCHANGED <<at_uart, at_modem>>
    BY <1>4 DEF AT_CMD_SEND
  <2>2. take.sem \in Notices /\ take.status \in {"OK", "BUSY", "TIMEOUT"}
    BY <1>1, TakeNotice
  <2> HIDE DEF take
  <2>3. QED
    BY <1>1, <2>1, <2>2
<1>5. QED
  BY <1>2, <1>3, <1>4 DEF CommandTypes

--------------------------------------------------------------------------------
(* What a poll of a command does to the call                               *)

LEMMA Returns ==
  ASSUME AtTypes, NEW status \in {"TIMEOUT"} \cup Statuses, Return(status)
  PROVE  /\ at_call' \in Calls /\ at_call'.kind = "none"
         /\ at_call'.n = at_call.n /\ at_call'.sends = at_call.sends
         /\ at_result' \in Results /\ at_result'.status = status /\ at_result'.of = at_status.of
<1>1. at_call \in Calls /\ at_status.of \in Nat /\ at_parse.lines \in Seq(Lines)
  BY DEF AtTypes, CommandTypes, ParserTypes, Parses
<1>2. at_call' \in Calls /\ at_call'.kind = "none" /\ at_call'.n = at_call.n /\ at_call'.sends = at_call.sends
  BY <1>1 DEF Return, Calls
<1>3. at_result' \in Results /\ at_result'.status = status /\ at_result'.of = at_status.of
  BY <1>1 DEF Return, Results
<1>4. QED
  BY <1>2, <1>3

LEMMA Waits ==
  ASSUME AtTypes, Waiting
  PROVE  /\ at_call' \in Calls /\ at_call'.kind = at_call.kind /\ at_call'.n = at_call.n
         /\ at_call'.sends = IF at_send = "SEND" /\ at_call.kind = "ex" THEN at_call.sends + 1
                                                                      ELSE at_call.sends
         /\ at_result' = at_result /\ at_result' \in Results
<1>1. at_call \in Calls /\ at_result \in Results
  BY DEF AtTypes, CommandTypes
<1>2. CASE at_send = "SEND" /\ at_call.kind = "ex"
  <2>1. at_call' = [at_call EXCEPT !.sends = @ + 1]
    BY <1>2 DEF Waiting
  <2>2. QED
    BY <1>1, <1>2, <2>1 DEF Calls, Waiting
<1>3. CASE ~(at_send = "SEND" /\ at_call.kind = "ex")
  BY <1>1, <1>3 DEF Waiting
<1>4. QED
  BY <1>2, <1>3

LEMMA CommonPoll ==
  ASSUME AtTypes, at_cmd_common
  PROVE  /\ at_call.kind = "common"
         /\ at_common' = at_common
         /\ AT_CMD_SEND(Timeout)
         /\ at_call' \in Calls /\ at_call'.n = at_call.n /\ at_call'.sends = at_call.sends
         /\ at_result' \in Results
         /\ \/ at_call'.kind = "common" /\ at_result' = at_result
            \/ at_call'.kind = "none" /\ at_send' = "REVOK" /\ at_result'.of = at_status.of
<1>1. at_call.kind = "common" /\ at_common' = at_common /\ AT_CMD_SEND(Timeout)
  BY DEF at_cmd_common
<1>2. CASE at_send' = "REVOK"
  <2>1. Return(at_status.status) /\ at_status.status \in Statuses
    BY <1>2 DEF at_cmd_common, AtTypes, ParserTypes
  <2>2. QED
    BY <1>1, <1>2, <2>1, Returns
<1>3. CASE at_send' # "REVOK"
  <2>1. Waiting
    BY <1>3 DEF at_cmd_common
  <2>2. QED
    BY <1>1, <2>1, Waits
<1>4. QED
  BY <1>2, <1>3

\* at_cmd_common_ex in the state that sends.
LEMMA ExSendPoll ==
  ASSUME AtTypes, at_call.kind = "ex", ExSend
  PROVE  /\ at_common.state = "SEND"
         /\ AT_CMD_SEND(Timeout)
         /\ at_common' \in Commons /\ at_common'.trycnt = at_common.trycnt
         /\ at_call' \in Calls /\ at_call'.n = at_call.n
         /\ at_result' \in Results
         /\ \/ /\ at_call'.kind = "none" /\ at_send' = "REVOK" /\ at_call'.sends = at_call.sends
               /\ at_result'.of = at_status.of
            \/ /\ at_call'.kind = "ex" /\ at_result' = at_result
               /\ at_call'.sends = IF at_send = "SEND" THEN at_call.sends + 1 ELSE at_call.sends
               /\ \/ at_common'.state = "RETRY" /\ at_send' \in {"REVOK", "TIMEOUT"}
                  \/ at_common' = at_common /\ at_send' \notin {"REVOK", "TIMEOUT"}
<1>1. at_common.state = "SEND" /\ AT_CMD_SEND(Timeout)
  BY DEF ExSend
<1>2. at_common \in Commons /\ at_status.status \in Statuses
  BY DEF AtTypes, CommandTypes, ParserTypes
<1>3. CASE at_send' = "REVOK" /\ at_status.status = "OK" /\ Return("OK") /\ at_common' = [at_common EXCEPT !.state = "START"]
  <2>1. at_common' \in Commons /\ at_common'.trycnt = at_common.trycnt
    BY <1>2, <1>3 DEF Commons
  <2>2. QED
    BY <1>1, <1>3, <2>1, Returns DEF Statuses
<1>4. CASE at_send' = "REVOK" /\ Return("BUFF_FULL") /\ UNCHANGED at_common
  BY <1>1, <1>2, <1>4, Returns DEF Statuses
<1>5. CASE at_send' \in {"REVOK", "TIMEOUT"} /\ NotAccepted
  <2>1. Waiting /\ at_common' = [at_common EXCEPT !.state = "RETRY"]
    BY <1>5 DEF NotAccepted
  <2>2. at_common' \in Commons /\ at_common'.trycnt = at_common.trycnt /\ at_common'.state = "RETRY"
    BY <1>2, <2>1 DEF Commons
  <2>3. QED
    BY <1>1, <1>5, <2>1, <2>2, Waits
<1>6. CASE at_send' \notin {"REVOK", "TIMEOUT"} /\ Waiting /\ UNCHANGED at_common
  BY <1>1, <1>2, <1>6, Waits
<1>7. \/ at_send' = "REVOK" /\ at_status.status = "OK" /\ Return("OK") /\ at_common' = [at_common EXCEPT !.state = "START"]
      \/ at_send' = "REVOK" /\ Return("BUFF_FULL") /\ UNCHANGED at_common
      \/ at_send' \in {"REVOK", "TIMEOUT"} /\ NotAccepted
      \/ at_send' \notin {"REVOK", "TIMEOUT"} /\ Waiting /\ UNCHANGED at_common
  <2>1. CASE at_send' = "REVOK" /\ at_status.status = "OK"
    BY <2>1 DEF ExSend
  <2>2. CASE at_send' = "REVOK" /\ at_status.status = "BUFF_FULL"
    BY <2>2 DEF ExSend
  <2>3. CASE at_send' = "REVOK" /\ at_status.status = "ERROR"
    BY <2>3 DEF ExSend
  <2>4. CASE at_send' = "TIMEOUT"
    BY <2>4 DEF ExSend
  <2>5. CASE at_send' \notin {"REVOK", "TIMEOUT"}
    BY <2>5 DEF ExSend
  <2>6. QED
    BY <1>2, <2>1, <2>2, <2>3, <2>4, <2>5 DEF Statuses
<1>8. QED
  BY <1>3, <1>4, <1>5, <1>6, <1>7

\* at_cmd_common_ex in the other states.
LEMMA ExOtherPoll ==
  ASSUME AtTypes, at_call.kind = "ex", ExStart \/ ExRetry \/ ExWaitSend \/ ExTimeout
  PROVE  /\ at_common.state # "SEND"
         /\ at_common' \in Commons
         /\ at_call' \in Calls /\ at_call'.n = at_call.n /\ at_call'.sends = at_call.sends
         /\ at_result' \in Results
         /\ \/ /\ at_call'.kind = "none" /\ at_result'.status = "TIMEOUT"
            \/ /\ at_call'.kind = "ex" /\ at_result' = at_result
               /\ \/ /\ at_common.state = "START"
                     /\ at_common'.state = "SEND" /\ at_common'.trycnt = 0
                  \/ /\ at_common.state = "RETRY" /\ at_common'.state = "WAIT_SEND"
                     /\ at_common'.trycnt = at_common.trycnt + 1
                  \/ /\ at_common.state = "RETRY" /\ at_common'.state = "TIMEOUT"
                     /\ at_common'.trycnt = at_common.trycnt
                  \/ /\ at_common.state = "WAIT_SEND" /\ at_common'.state \in {"WAIT_SEND", "SEND"}
                     /\ at_common'.trycnt = at_common.trycnt
<1>1. at_common \in Commons /\ at_call \in Calls /\ at_result \in Results /\ at_now \in Ticks
  BY DEF AtTypes, CommandTypes, WorldTypes
<1>2. CASE ExStart
  <2>1. at_common' \in Commons /\ at_common'.state = "SEND" /\ at_common'.trycnt = 0
    <3>1. 0 \in 0 .. Retry
      BY AtNumbers
    <3>2. at_common' = [at_common EXCEPT !.trycnt = 0, !.state = "SEND"]
      BY <1>2 DEF ExStart
    <3>3. \A k \in 0 .. Retry : [at_common EXCEPT !.trycnt = k, !.state = "SEND"] \in Commons
      BY <1>1 DEF Commons
    <3>4. at_common'.state = "SEND" /\ at_common'.trycnt = 0
      BY <1>1, <3>2 DEF Commons
    <3>5. QED
      BY <3>1, <3>2, <3>3, <3>4
  <2>2. QED
    BY <1>1, <1>2, <2>1 DEF ExStart
<1>3. CASE ExRetry
  <2>1. at_common.state = "RETRY" /\ UNCHANGED <<at_call, at_result>> /\ at_common.trycnt \in 0 .. Retry
    BY <1>1, <1>3 DEF ExRetry, Commons
  <2>2. CASE at_common.trycnt >= Retry
    <3>1. at_common' = [at_common EXCEPT !.state = "TIMEOUT"]
      BY <1>3, <2>2 DEF ExRetry
    <3>2. at_common' \in Commons /\ at_common'.state = "TIMEOUT" /\ at_common'.trycnt = at_common.trycnt
      BY <1>1, <3>1 DEF Commons
    <3>3. QED
      BY <1>1, <2>1, <3>2
  <2>3. CASE ~(at_common.trycnt >= Retry)
    <3> DEFINE try == at_common.trycnt + 1
               set == swtimer_set(at_now, Interval)
    <3>1. try \in 0 .. Retry /\ set \in Timer({0, Interval})
      BY <1>1, <2>1, <2>3, AtNumbers DEF swtimer_set, Timer
    <3>2. at_common' = [state |-> "WAIT_SEND", trycnt |-> try, timer |-> set]
      BY <1>3, <2>3 DEF ExRetry
    <3> HIDE DEF try, set
    <3>3. at_common' \in Commons /\ at_common'.state = "WAIT_SEND" /\ at_common'.trycnt = try
      BY <3>1, <3>2 DEF Commons
    <3>4. QED
      BY <1>1, <2>1, <3>3 DEF try
  <2>4. QED
    BY <2>2, <2>3
<1>4. CASE ExWaitSend
  <2>1. at_common' \in {at_common, [at_common EXCEPT !.state = "SEND"]}
    BY <1>4 DEF ExWaitSend
  <2>2. /\ at_common' \in Commons /\ at_common'.trycnt = at_common.trycnt
        /\ at_common'.state \in {at_common.state, "SEND"}
    BY <1>1, <2>1 DEF Commons
  <2>3. QED
    BY <1>1, <1>4, <2>2 DEF ExWaitSend
<1>5. CASE ExTimeout
  <2>1. at_common' \in Commons
    BY <1>1, <1>5 DEF ExTimeout, Commons
  <2>2. QED
    BY <1>5, <2>1, Returns DEF ExTimeout
<1>6. QED
  BY <1>2, <1>3, <1>4, <1>5

\* The application between two calls, and where it starts one.
LEMMA IdlePoll ==
  ASSUME AtTypes, at_obj_set_urc_table \/ Idle \/ StartCall
  PROVE  /\ at_call.kind = "none"
         /\ UNCHANGED <<at_common, at_send, resp_notice, at_uart, at_modem>>
         /\ at_call' \in Calls
         /\ at_result' \in Results
         /\ \/ at_call' = at_call /\ at_result' = at_result
            \/ at_call'.sends = 0 /\ at_result'.status = "none"
<1>1. at_call \in Calls /\ at_result \in Results
  BY DEF AtTypes, CommandTypes
<1>2. CASE at_obj_set_urc_table \/ Idle
  BY <1>1, <1>2 DEF at_obj_set_urc_table, Idle, cmd_vars
<1>3. CASE StartCall
  <2>1. PICK kind \in {"common", "ex"} : at_call' = [kind |-> kind, n |-> at_call.n + 1, sends |-> 0]
    BY <1>3 DEF StartCall
  <2>2. at_call' \in Calls /\ at_call'.sends = 0
    <3>1. at_call.n + 1 \in Nat
      BY <1>1 DEF Calls
    <3>2. QED
      BY <2>1, <3>1 DEF Calls
  <2>3. at_result' \in Results /\ at_result'.status = "none"
    BY <1>3 DEF StartCall, Results
  <2>4. QED
    BY <1>3, <2>2, <2>3 DEF StartCall
<1>4. QED
  BY <1>2, <1>3

\* The four kinds of poll.
LEMMA PollCases ==
  ASSUME NEW ticks \in {0, 1}, Round(ticks)
  PROVE  \/ at_obj_set_urc_table \/ Idle \/ StartCall
         \/ at_cmd_common
         \/ at_call.kind = "ex" /\ ExSend
         \/ /\ at_call.kind = "ex" /\ (ExStart \/ ExRetry \/ ExWaitSend \/ ExTimeout)
            /\ UNCHANGED <<at_send, resp_notice, at_uart, at_modem>>
  BY DEF Round, at_cmd_common_ex

LEMMA RoundKeepsTypes ==
  ASSUME AtTypes, NEW ticks \in {0, 1}, Round(ticks)
  PROVE  AtTypes'
<1>1. /\ resp_notice \in Notices /\ at_uart \in Seq(Lines) /\ at_now \in Ticks
      /\ at_modem \in Modems
      /\ at_send \in {"START", "SEND", "WAIT_REV", "REVOK", "TIMEOUT"} /\ at_common \in Commons
  BY DEF AtTypes, CommandTypes, WorldTypes
<1>2. /\ resp_notice' \in Notices /\ at_uart' \in Seq(Lines)
      /\ at_modem' \in Modems
      /\ at_send' \in {"START", "SEND", "WAIT_REV", "REVOK", "TIMEOUT"} /\ at_common' \in Commons
      /\ at_call' \in Calls /\ at_result' \in Results
  <2>1. CASE at_obj_set_urc_table \/ Idle \/ StartCall
    BY <1>1, <2>1, IdlePoll
  <2>2. CASE at_cmd_common
    BY <1>1, <2>2, CommonPoll, SendKeepsTypes
  <2>3. CASE at_call.kind = "ex" /\ ExSend
    BY <1>1, <2>3, ExSendPoll, SendKeepsTypes
  <2>4. CASE /\ at_call.kind = "ex" /\ (ExStart \/ ExRetry \/ ExWaitSend \/ ExTimeout)
             /\ UNCHANGED <<at_send, resp_notice, at_uart, at_modem>>
    BY <1>1, <2>4, ExOtherPoll
  <2>5. QED
    BY <2>1, <2>2, <2>3, <2>4, PollCases
<1>3. at_now' \in Ticks
  <2>1. at_now' = (at_now + ticks) % W
    BY DEF Round
  <2>2. QED
    BY <1>1, <2>1, WIsEven DEF Ticks
<1>4. ParserTypes'
  BY DEF AtTypes, Round, parser_vars, ParserTypes
<1>5. CommandTypes' /\ WorldTypes'
  BY <1>2, <1>3 DEF AtTypes, CommandTypes, WorldTypes, Round
<1>6. QED
  BY <1>4, <1>5 DEF AtTypes

\* Lines that arrive.
LEMMA LineArrives ==
  ASSUME AtTypes, ModemSends \/ UrcArrives
  PROVE  \E line \in Lines :
           /\ at_uart' = Deliver(at_uart, <<line>>)
           /\ at_uart' \in Seq(Lines)
           /\ at_modem' \in Modems
           /\ line.kind \in Ends => at_modem.lines # <<>>
           /\ at_modem.lines = <<>> => at_modem'.lines = <<>>
<1>1. at_uart \in Seq(Lines) /\ at_modem \in Modems
  BY DEF AtTypes, WorldTypes
<1>2. at_modem.lines \in Seq(Lines)
  BY <1>1 DEF Modems
<1>3. CASE ModemSends
  <2> DEFINE line == Head(at_modem.lines)
  <2>1. at_modem.lines # <<>> /\ line \in Lines /\ Tail(at_modem.lines) \in Seq(Lines)
    BY <1>2, <1>3 DEF ModemSends
  <2>2. at_uart' = Deliver(at_uart, <<line>>)
    BY <1>3 DEF ModemSends
  <2>3. <<line>> \in Seq(Lines)
    BY <2>1
  <2>4. at_uart' \in Seq(Lines)
    BY <1>1, <2>2, <2>3, DeliverLines
  <2>5. at_modem' \in Modems
    <3> DEFINE l == Tail(at_modem.lines)
               b == at_modem.lost \/ Overflows(at_uart, <<line>>)
    <3>1. b \in BOOLEAN /\ l \in Seq(Lines) /\ at_modem' = [at_modem EXCEPT !.lines = l, !.lost = b]
      BY <1>3, <2>1 DEF ModemSends
    <3> HIDE DEF l, b
    <3>2. QED
      BY <1>1, <3>1 DEF Modems
  <2>6. QED
    BY <2>1, <2>2, <2>4, <2>5
<1>4. CASE UrcArrives
  <2>1. PICK u \in ToSet(Urcs) :
          /\ at_uart' = Deliver(at_uart, <<[kind |-> u, of |-> 0]>>)
          /\ at_modem' = [at_modem EXCEPT !.urcs = @ + 1,
                                          !.lost = @ \/ Overflows(at_uart, <<[kind |-> u, of |-> 0]>>)]
    BY <1>4 DEF UrcArrives
  <2> DEFINE line == [kind |-> u, of |-> 0]
  <2>2. line \in Lines /\ line.kind \notin Ends
    BY EventsAreNoEnds DEF Lines, Kinds
  <2>3. <<line>> \in Seq(Lines)
    BY <2>2
  <2>4. at_uart' \in Seq(Lines)
    BY <1>1, <2>1, <2>3, DeliverLines
  <2>6. at_modem' \in Modems /\ at_modem'.lines = at_modem.lines
    <3> DEFINE k == at_modem.urcs + 1
               b == at_modem.lost \/ Overflows(at_uart, <<line>>)
    <3>1. at_modem' = [at_modem EXCEPT !.urcs = k, !.lost = b]
      BY <2>1
    <3>2. k \in Nat /\ b \in BOOLEAN
      BY <1>1 DEF Modems
    <3> HIDE DEF k, b
    <3>3. QED
      BY <1>1, <3>1, <3>2 DEF Modems
  <2>7. QED
    BY <2>1, <2>2, <2>4, <2>6
<1>5. QED
  BY <1>3, <1>4

LEMMA ArrivalKeepsTypes ==
  ASSUME AtTypes, ModemSends \/ UrcArrives
  PROVE  AtTypes'
<1>1. /\ UNCHANGED <<prompt, parser_vars, at_list, resp_notice, cmd_vars, at_now, at_turn>>
      /\ at_uart' \in Seq(Lines) /\ at_modem' \in Modems
  BY LineArrives DEF ModemSends, UrcArrives
<1>2. ParserTypes' /\ CommandTypes'
  BY <1>1 DEF AtTypes, ParserTypes, CommandTypes, parser_vars, cmd_vars
<1>3. WorldTypes'
  BY <1>1 DEF AtTypes, WorldTypes
<1>4. QED
  BY <1>2, <1>3 DEF AtTypes

--------------------------------------------------------------------------------
(* Steps                                                                   *)

LEMMA SendMoves ==
  ASSUME AtTypes, AT_CMD_SEND(Timeout)
  PROVE  \/ /\ at_send \in {"START", "REVOK", "TIMEOUT"} /\ at_send' \in {"SEND", "START"}
            /\ UNCHANGED <<resp_notice, at_uart, at_modem>>
         \/ /\ at_send = "SEND" /\ at_send' = "WAIT_REV"
            /\ resp_notice' = sdk_os_sem_init(resp_notice, 0) /\ WriteCommand
         \/ /\ at_send = "WAIT_REV" /\ at_send' \in {"REVOK", "TIMEOUT", "WAIT_REV"}
            /\ \E take : /\ take = sdk_os_sem_take(resp_notice, Timeout, at_now)
                         /\ resp_notice' = take.sem
                         /\ at_send' = "REVOK" <=> take.status = "OK"
                         /\ at_send' = "WAIT_REV" <=> take.status = "BUSY"
            /\ UNCHANGED <<at_uart, at_modem>>
<1>1. resp_notice \in Notices /\ at_now \in Ticks
  BY DEF AtTypes, CommandTypes, WorldTypes
<1>2. CASE at_send \in {"START", "REVOK", "TIMEOUT"}
  BY <1>2 DEF AT_CMD_SEND
<1>3. CASE at_send = "SEND"
  BY <1>3 DEF AT_CMD_SEND
<1>4. CASE at_send = "WAIT_REV"
  <2> DEFINE take == sdk_os_sem_take(resp_notice, Timeout, at_now)
  <2>1. /\ resp_notice' = take.sem
        /\ at_send' = CASE take.status = "OK" -> "REVOK"
                        [] take.status = "TIMEOUT" -> "TIMEOUT"
                        [] take.status = "BUSY" -> "WAIT_REV"
        /\ UNCHANGED <<at_uart, at_modem>>
    BY <1>4 DEF AT_CMD_SEND
  <2>2. take.status \in {"OK", "BUSY", "TIMEOUT"}
    BY <1>1, TakeNotice
  <2>3. \E t : t = take
    OBVIOUS
  <2> HIDE DEF take
  <2>4. /\ at_send' \in {"REVOK", "TIMEOUT", "WAIT_REV"}
        /\ at_send' = "REVOK" <=> take.status = "OK"
        /\ at_send' = "WAIT_REV" <=> take.status = "BUSY"
    BY <2>1, <2>2
  <2>5. QED
    BY <1>4, <2>1, <2>4 DEF take
<1>5. QED
  BY <1>2, <1>3, <1>4 DEF AT_CMD_SEND

LEMMA RoundKeepsCall ==
  ASSUME AtTypes, WaitsInCall, TriesCounted, NEW ticks \in {0, 1}, Round(ticks)
  PROVE  WaitsInCall' /\ TriesCounted'
<1>1. /\ at_call \in Calls /\ at_common \in Commons /\ at_common.trycnt \in 0 .. Retry /\ at_call.sends \in Nat
  BY DEF AtTypes, CommandTypes, Commons, Calls
<1>2. CASE at_obj_set_urc_table \/ Idle \/ StartCall
  <2>1. /\ at_call.kind = "none" /\ UNCHANGED <<at_common, at_send>>
        /\ at_call' = at_call \/ at_call'.sends = 0
    BY <1>2, IdlePoll
  <2>2. WaitsInCall'
    BY <2>1 DEF WaitsInCall
  <2>3. TriesCounted'
    BY <1>1, <2>1, AtNumbers DEF TriesCounted
  <2>4. QED
    BY <2>2, <2>3
<1>3. CASE at_cmd_common
  <2>1. /\ at_call.kind = "common" /\ at_common' = at_common /\ at_call'.sends = at_call.sends
        /\ at_call'.kind = "common" \/ (at_call'.kind = "none" /\ at_send' = "REVOK")
    BY <1>3, CommonPoll
  <2>2. WaitsInCall' /\ TriesCounted'
    BY <2>1 DEF WaitsInCall, TriesCounted
  <2>3. QED
    BY <2>2
<1>4. CASE at_call.kind = "ex" /\ ExSend
  <2>1. /\ at_common.state = "SEND" /\ at_common'.trycnt = at_common.trycnt
        /\ \/ at_call'.kind = "none" /\ at_send' = "REVOK" /\ at_call'.sends = at_call.sends
           \/ /\ at_call'.kind = "ex"
              /\ at_call'.sends = IF at_send = "SEND" THEN at_call.sends + 1 ELSE at_call.sends
              /\ \/ at_common'.state = "RETRY" /\ at_send' \in {"REVOK", "TIMEOUT"}
                 \/ at_common' = at_common /\ at_send' \notin {"REVOK", "TIMEOUT"}
    BY <1>4, ExSendPoll
  <2>2. \/ at_send \in {"START", "REVOK", "TIMEOUT"} /\ at_send' \in {"SEND", "START"}
        \/ at_send = "SEND" /\ at_send' = "WAIT_REV"
        \/ at_send = "WAIT_REV" /\ at_send' \in {"REVOK", "TIMEOUT", "WAIT_REV"}
    BY <1>4, ExSendPoll, SendMoves
  <2>3. WaitsInCall'
    BY <2>1 DEF WaitsInCall
  <2>4. at_call.sends <= at_common.trycnt + 1 /\ (at_send # "WAIT_REV" => at_call.sends <= at_common.trycnt)
    BY <1>4, <2>1 DEF TriesCounted
  <2>5. at_call'.sends <= at_common'.trycnt + 1 /\ at_common'.trycnt <= Retry
    BY <1>1, <2>1, <2>4, AtNumbers
  <2>6. at_common'.state = "SEND" /\ at_send' # "WAIT_REV" /\ at_call'.kind = "ex" => at_call'.sends <= at_common'.trycnt
    BY <2>1, <2>2, <2>4
  <2>7. at_call'.kind = "ex" => at_common'.state \in {"SEND", "RETRY"}
    BY <2>1
  <2>8. at_call'.sends <= Retry + 1
    BY <1>1, <2>1, <2>4, AtNumbers
  <2>9. TriesCounted'
    BY <2>5, <2>6, <2>7, <2>8 DEF TriesCounted
  <2>10. QED
    BY <2>3, <2>9
<1>5. CASE /\ at_call.kind = "ex" /\ (ExStart \/ ExRetry \/ ExWaitSend \/ ExTimeout)
           /\ UNCHANGED <<at_send, resp_notice, at_uart, at_modem>>
  <2>1. /\ at_common.state # "SEND" /\ at_call'.sends = at_call.sends
        /\ \/ at_call'.kind = "none"
           \/ /\ at_call'.kind = "ex"
              /\ \/ at_common.state = "START" /\ at_common'.state = "SEND" /\ at_common'.trycnt = 0
                 \/ /\ at_common.state = "RETRY" /\ at_common'.state = "WAIT_SEND"
                    /\ at_common'.trycnt = at_common.trycnt + 1
                 \/ /\ at_common.state = "RETRY" /\ at_common'.state = "TIMEOUT"
                    /\ at_common'.trycnt = at_common.trycnt
                 \/ /\ at_common.state = "WAIT_SEND" /\ at_common'.state \in {"WAIT_SEND", "SEND"}
                    /\ at_common'.trycnt = at_common.trycnt
    BY <1>5, ExOtherPoll
  <2>2. at_send # "WAIT_REV" /\ at_send' = at_send
    BY <1>5, <2>1 DEF WaitsInCall
  <2>3. WaitsInCall'
    BY <2>2 DEF WaitsInCall
  <2>4. TriesCounted'
    BY <1>1, <1>5, <2>1 DEF TriesCounted
  <2>5. QED
    BY <2>3, <2>4
<1>6. QED
  BY <1>2, <1>3, <1>4, <1>5, PollCases

\* The invariant without what a prompt modem adds.
LEMMA CallsAlways == AtSpec => [](AtTypes /\ WaitsInCall /\ TriesCounted)
<1> DEFINE Inv == AtTypes /\ WaitsInCall /\ TriesCounted
<1>1. AtInit => Inv
  BY AtInitHolds DEF AtInv
<1>2. Inv /\ [AtNext]_at_vars => Inv'
  <2> SUFFICES ASSUME Inv, [AtNext]_at_vars PROVE Inv'
    OBVIOUS
  <2>1. CASE at_parser_poll
    <3>1. UNCHANGED cmd_vars
      BY <2>1 DEF at_parser_poll
    <3>2. QED
      BY <2>1, <3>1, ParserKeepsTypes DEF WaitsInCall, TriesCounted, cmd_vars
  <2>2. CASE CommandPoll
    BY <2>2, RoundKeepsTypes, RoundKeepsCall DEF CommandPoll
  <2>3. CASE ModemSends \/ UrcArrives
    <3>1. UNCHANGED cmd_vars
      BY <2>3 DEF ModemSends, UrcArrives
    <3>2. QED
      BY <2>3, <3>1, ArrivalKeepsTypes DEF WaitsInCall, TriesCounted, cmd_vars
  <2>4. CASE UNCHANGED at_vars
    BY <2>4 DEF at_vars, AtTypes, ParserTypes, CommandTypes, WorldTypes, WaitsInCall, TriesCounted
  <2>5. QED
    BY <2>1, <2>2, <2>3, <2>4 DEF AtNext
<1> HIDE DEF Inv
<1>3. AtSpec => []Inv
  BY <1>1, <1>2, PTL DEF AtSpec
<1>4. QED
  BY <1>3 DEF Inv

\* at_cmd_common_ex sends its command retry + 1 times at most in a call, with any
\* modem, however answers and timeouts come, also when the call goes on where one
\* before it left off.
THEOREM SendsAtMost == AtSpec => []AtSendsAtMost
<1>1. AtTypes /\ WaitsInCall /\ TriesCounted => AtSendsAtMost
  BY DEF TriesCounted, AtSendsAtMost
<1>2. QED
  BY <1>1, CallsAlways, PTL

--------------------------------------------------------------------------------
(* A prompt modem                                                          *)

\* Where nobody waits, or the notice is there already, no end of an answer is
\* left to be parsed.
NoEnds == ~InParser /\ \A i \in 1 .. Len(at_uart) : at_uart[i].kind \notin Ends

LEMMA NoEndsLeft ==
  ASSUME EndsAreExpected, at_send # "WAIT_REV" \/ resp_notice.value > 0
  PROVE  NoEnds
  BY DEF EndsAreExpected, Expected, NoEnds

LEMMA NoEndsExpected == NoEnds => EndsAreExpected
  BY DEF EndsAreExpected, NoEnds

\* The parser forgets or hands over, and only an end that was expected.
LEMMA ParserKeepsPrompt ==
  ASSUME AtTypes, prompt, at_parse.line_num = 0, PromptHolds, at_parser_poll
  PROVE  at_modem'.lines = <<>> /\ EndsAreExpected' /\ NoticeIsFresh' /\ ResultIsOwn'
<1>1. /\ at_turn = "parser" /\ at_turn' = "command" /\ UNCHANGED <<env_vars, cmd_vars>>
      /\ at_modem.lines = <<>> /\ EndsAreExpected /\ NoticeIsFresh /\ ResultIsOwn
  BY DEF at_parser_poll, PromptHolds
<1>2. /\ at_parse \in Parses /\ resp_notice \in Notices /\ resp_notice.value = 0 /\ at_uart \in Seq(Lines)
  BY <1>1 DEF AtTypes, ParserTypes, CommandTypes, WorldTypes, NoticeIsFresh, Notices
<1>3. at_modem'.lines = <<>> /\ ResultIsOwn'
  BY <1>1 DEF ResultIsOwn, env_vars, cmd_vars
<1>4. CASE ParserStart \/ BeginLine \/ NoLine \/ ParseUrc
  <2>1. resp_notice' = resp_notice /\ at_uart' = at_uart
    BY <1>4 DEF ParserStart, BeginLine, NoLine, ParseUrc
  <2>2. InParser' => InParser /\ at_line' = at_line
    <3>1. CASE ParserStart
      BY <1>2, <3>1 DEF ParserStart, InParser, Parses
    <3>2. CASE BeginLine
      BY <1>2, <3>2 DEF BeginLine, InParser, Parses
    <3>3. CASE NoLine
      BY <3>3 DEF NoLine, InParser, parser_vars
    <3>4. CASE ParseUrc
      BY <1>2, <3>4 DEF ParseUrc, InParser, Parses
    <3>5. QED
      BY <1>4, <3>1, <3>2, <3>3, <3>4
  <2>3. EndsAreExpected'
    BY <1>1, <2>1, <2>2 DEF EndsAreExpected, Expected, cmd_vars, env_vars
  <2>4. NoticeIsFresh'
    BY <1>2, <2>1 DEF NoticeIsFresh
  <2>5. QED
    BY <1>3, <2>3, <2>4
<1>5. CASE at_recv_readline
  <2>1. /\ resp_notice' = resp_notice /\ at_uart # <<>> /\ at_uart' = Tail(at_uart)
        /\ at_parse.parser = "READ_LINE"
    BY <1>5 DEF at_recv_readline
  <2>2. /\ Head(at_uart) = at_uart[1] /\ 1 \in 1 .. Len(at_uart) /\ Len(at_uart) \in Nat
        /\ \A i \in 1 .. Len(at_uart') : i + 1 \in 1 .. Len(at_uart) /\ at_uart'[i] = at_uart[i + 1] /\ i \in Nat
    BY <1>2, <2>1
  <2>3. InParser' => at_line' = at_uart[1] /\ at_uart[1].kind \in Ends
    <3>1. \/ at_line' = at_uart[1]
          \/ at_parse' = [at_parse EXCEPT !.parser = "START", !.rl = "BUFF_FULL"]
      BY <1>5, <2>2 DEF at_recv_readline
    <3>2. at_parse' = [at_parse EXCEPT !.parser = "START", !.rl = "BUFF_FULL"] => at_parse'.parser = "START"
      BY <1>2 DEF Parses
    <3>3. QED
      BY <3>1, <3>2 DEF InParser
  <2>4. \A n : Expected(n)' <=> Expected(n)
    BY <1>1, <2>1 DEF Expected, cmd_vars, env_vars
  <2>5. InParser' => Expected(at_line.of)'
    <3>1. SUFFICES ASSUME InParser' PROVE Expected(at_line.of)'
      OBVIOUS
    <3>2. Expected(at_uart[1].of) /\ at_line' = at_uart[1]
      BY <1>1, <2>2, <2>3, <3>1 DEF EndsAreExpected
    <3>3. QED
      BY <2>4, <3>2 DEF Expected
  <2>6. ASSUME NEW i \in 1 .. Len(at_uart'), at_uart'[i].kind \in Ends
        PROVE  /\ Expected(at_uart[i].of)'
               /\ \A j \in 1 .. Len(at_uart') : at_uart'[j].kind \in Ends => j = i
               /\ ~InParser'
    <3>1. i + 1 \in 1 .. Len(at_uart) /\ at_uart'[i] = at_uart[i + 1] /\ i \in Nat
      BY <2>2, <2>6
    <3>2. /\ Expected(at_uart[i + 1].of)
          /\ \A j \in 1 .. Len(at_uart) : at_uart[j].kind \in Ends => j = i + 1
      BY <1>1, <2>6, <3>1 DEF EndsAreExpected
    <3>3. ~InParser'
      BY <2>2, <2>3, <3>1, <3>2
    <3>4. \A j \in 1 .. Len(at_uart') : at_uart'[j].kind \in Ends => j = i
      BY <2>2, <3>1, <3>2
    <3>5. Expected(at_uart[i].of)'
      BY <2>4, <3>1, <3>2 DEF Expected
    <3>6. QED
      BY <3>3, <3>4, <3>5
  <2>7. EndsAreExpected'
    BY <2>5, <2>6 DEF EndsAreExpected
  <2>8. NoticeIsFresh'
    BY <1>2, <2>1 DEF NoticeIsFresh
  <2>9. QED
    BY <1>3, <2>7, <2>8
<1>6. CASE ParseAnswer
  <2> DEFINE end == EndOfAnswer(at_line, LinesWith(at_line))
  <2>1. at_parse.parser = "PARSE_LINE" /\ at_uart' = at_uart
    BY <1>6 DEF ParseAnswer
  <2>2. ~InParser'
    <3>1. \/ at_parse' = [at_parse EXCEPT !.parser = "START", !.lines = LinesWith(at_line)]
          \/ at_parse' = [at_parse EXCEPT !.parser = "READ_LINE", !.rl = "START", !.lines = LinesWith(at_line)]
      BY <1>6 DEF ParseAnswer
    <3>2. \A lines : [at_parse EXCEPT !.parser = "START", !.lines = lines].parser = "START"
      BY <1>2 DEF Parses
    <3>3. \A lines : [at_parse EXCEPT !.parser = "READ_LINE", !.rl = "START", !.lines = lines].parser = "READ_LINE"
      BY <1>2 DEF Parses
    <3>4. QED
      BY <3>1, <3>2, <3>3 DEF InParser
  <2>3. CASE end = "WAITING"
    <3>1. resp_notice' = resp_notice
      BY <1>6, <2>3 DEF ParseAnswer
    <3>2. \A n : Expected(n)' <=> Expected(n)
      BY <1>1, <3>1 DEF Expected, cmd_vars, env_vars
    <3>3. EndsAreExpected'
      BY <1>1, <2>1, <2>2, <3>2 DEF EndsAreExpected, Expected
    <3>4. NoticeIsFresh'
      BY <1>2, <3>1 DEF NoticeIsFresh
    <3>5. QED
      BY <1>3, <3>3, <3>4
  <2>4. CASE end # "WAITING"
    <3>1. InParser
      BY <2>1, <2>4 DEF EndOfAnswer, InParser, Ends
    <3>2. Expected(at_line.of) /\ \A i \in 1 .. Len(at_uart) : at_uart[i].kind \notin Ends
      BY <1>1, <3>1 DEF EndsAreExpected
    <3>3. EndsAreExpected'
      BY <2>1, <2>2, <3>2 DEF EndsAreExpected
    <3>4. at_status'.of = at_line.of /\ resp_notice' = sdk_os_sem_release(resp_notice)
      BY <1>6, <2>4 DEF ParseAnswer
    <3>5. resp_notice'.value = 1
      BY <1>2, <3>4, Int16MaxIsPositive DEF sdk_os_sem_release, Notices
    <3>6. NoticeIsFresh'
      BY <1>1, <3>2, <3>4, <3>5 DEF NoticeIsFresh, Expected, cmd_vars
    <3>7. QED
      BY <1>3, <3>3, <3>6
  <2>5. QED
    BY <2>3, <2>4
<1>7. QED
  BY <1>1, <1>4, <1>5, <1>6 DEF at_parser_poll

\* With a prompt modem only events arrive between two polls.
LEMMA ArrivalKeepsPrompt ==
  ASSUME AtTypes, prompt, at_parse.line_num = 0, PromptHolds, ModemSends \/ UrcArrives
  PROVE  at_modem'.lines = <<>> /\ EndsAreExpected' /\ NoticeIsFresh' /\ ResultIsOwn'
<1>1. /\ UNCHANGED <<prompt, parser_vars, at_list, resp_notice, cmd_vars, at_now, at_turn>>
      /\ at_modem.lines = <<>> /\ EndsAreExpected /\ NoticeIsFresh /\ ResultIsOwn
  BY DEF ModemSends, UrcArrives, PromptHolds
<1>2. PICK line \in Lines :
        /\ at_uart' = Deliver(at_uart, <<line>>) /\ line.kind \notin Ends /\ at_modem'.lines = <<>>
  BY <1>1, LineArrives
<1> DEFINE new == <<line>>
<1>3. at_uart \in Seq(Lines) /\ new \in Seq(Lines) /\ Len(new) = 1 /\ new[1] = line
  BY DEF AtTypes, WorldTypes
<1>0. at_uart' = Deliver(at_uart, new)
  BY <1>2
<1> HIDE DEF new
<1>4. PICK lost \in Nat :
        /\ Len(at_uart') = Len(at_uart) + Len(new) - lost
        /\ \A i \in 1 .. Len(at_uart') :
             \/ lost + i \in 1 .. Len(at_uart) /\ at_uart'[i] = at_uart[lost + i]
             \/ lost + i - Len(at_uart) \in 1 .. Len(new) /\ at_uart'[i] = new[lost + i - Len(at_uart)]
  <2>1. Follows(at_uart', at_uart, new)
    BY <1>0, <1>3, DeliverLines
  <2>2. QED
    BY <2>1 DEF Follows
<1>5. \A i \in 1 .. Len(at_uart') : at_uart'[i].kind \in Ends =>
        lost + i \in 1 .. Len(at_uart) /\ at_uart'[i] = at_uart[lost + i]
  <2>1. SUFFICES ASSUME NEW i \in 1 .. Len(at_uart'), at_uart'[i].kind \in Ends,
                        lost + i - Len(at_uart) \in 1 .. Len(new),
                        at_uart'[i] = new[lost + i - Len(at_uart)]
                 PROVE  FALSE
    BY <1>4
  <2>2. lost + i - Len(at_uart) = 1
    BY <1>3, <2>1
  <2>3. QED
    BY <1>2, <1>3, <2>1, <2>2
<1>6. (\A n : Expected(n)' <=> Expected(n)) /\ (InParser' <=> InParser) /\ at_line' = at_line
  BY <1>1 DEF Expected, InParser, cmd_vars, parser_vars
<1>7. ASSUME NEW i \in 1 .. Len(at_uart'), at_uart'[i].kind \in Ends
      PROVE  /\ Expected(at_uart[i].of)'
             /\ \A j \in 1 .. Len(at_uart') : at_uart'[j].kind \in Ends => j = i
             /\ ~InParser'
  <2>1. lost + i \in 1 .. Len(at_uart) /\ at_uart'[i] = at_uart[lost + i]
    BY <1>5, <1>7
  <2>2. /\ Expected(at_uart[lost + i].of) /\ ~InParser
        /\ \A j \in 1 .. Len(at_uart) : at_uart[j].kind \in Ends => j = lost + i
    BY <1>1, <1>7, <2>1 DEF EndsAreExpected
  <2>3. ASSUME NEW j \in 1 .. Len(at_uart'), at_uart'[j].kind \in Ends PROVE j = i
    <3>1. lost + j = lost + i
      BY <1>5, <2>2, <2>3
    <3>2. i \in Int /\ j \in Int
      OBVIOUS
    <3>3. QED
      BY <3>1, <3>2
  <2>4. Expected(at_uart[i].of)'
    BY <1>6, <2>1, <2>2 DEF Expected
  <2>5. QED
    BY <1>6, <2>2, <2>3, <2>4
<1>8. InParser' => Expected(at_line.of)'
  BY <1>1, <1>6 DEF EndsAreExpected, Expected
<1>9. EndsAreExpected'
  BY <1>7, <1>8 DEF EndsAreExpected
<1>10. NoticeIsFresh' /\ ResultIsOwn'
  BY <1>1 DEF NoticeIsFresh, ResultIsOwn, cmd_vars, parser_vars
<1>11. QED
  BY <1>2, <1>9, <1>10

\* Polling the command: its answer is the only one that is expected, and when the
\* notice comes the status is that of its answer.
LEMMA SendKeepsPrompt ==
  ASSUME AtTypes, prompt, at_parse.line_num = 0, PromptHolds, AT_CMD_SEND(Timeout),
         UNCHANGED parser_vars, at_call'.n = at_call.n,
         at_now' = at_now \/ Parsed'
  PROVE  /\ at_modem'.lines = <<>> /\ EndsAreExpected' /\ resp_notice'.value = 0
         /\ at_send' = "REVOK" => at_status.of = at_call.n
<1>1. /\ at_modem.lines = <<>> /\ EndsAreExpected /\ NoticeIsFresh
      /\ resp_notice \in Notices /\ resp_notice.value \in Nat /\ at_now \in Ticks /\ at_uart \in Seq(Lines)
      /\ (InParser' <=> InParser) /\ at_line' = at_line /\ at_status' = at_status
  BY DEF PromptHolds, AtTypes, CommandTypes, WorldTypes, Notices, InParser, parser_vars
<1>2. CASE at_send # "WAIT_REV"
  <2>1. NoEnds /\ resp_notice.value = 0
    BY <1>1, <1>2, NoEndsLeft DEF NoticeIsFresh
  <2>2. CASE UNCHANGED <<resp_notice, at_uart, at_modem>> /\ at_send' \in {"SEND", "START"}
    <3>1. NoEnds'
      BY <1>1, <2>1, <2>2 DEF NoEnds
    <3>2. EndsAreExpected'
      BY <3>1 DEF EndsAreExpected, NoEnds
    <3>3. QED
      BY <1>1, <2>1, <2>2, <3>2
  <2>3. CASE at_send' = "WAIT_REV" /\ resp_notice' = sdk_os_sem_init(resp_notice, 0) /\ WriteCommand
    <3>1. resp_notice'.value = 0 /\ resp_notice'.state = "START"
      BY <1>1, <2>3 DEF sdk_os_sem_init, Notices
    <3>2. \A n : n = at_call.n => Expected(n)'
      BY <2>3, <3>1 DEF Expected
    <3>3. PICK answer \in Answers \cup {<<>>} :
            /\ at_uart' = Deliver(at_uart, Tagged(answer))
            /\ at_modem' = [at_modem EXCEPT !.lost = @ \/ Overflows(at_uart, Tagged(answer))]
      BY <2>3 DEF WriteCommand
    <3>11. at_modem'.lines = <<>>
      <4> DEFINE b == at_modem.lost \/ Overflows(at_uart, Tagged(answer))
      <4>1. at_modem' = [at_modem EXCEPT !.lost = b] /\ at_modem \in Modems
        BY <3>3 DEF AtTypes, WorldTypes
      <4> HIDE DEF b
      <4>2. QED
        BY <1>1, <4>1 DEF Modems
    <3> DEFINE lines == Tagged(answer)
    <3>4. /\ lines \in Seq(Lines) /\ Len(lines) \in Nat
          /\ \A i \in 1 .. Len(lines) : lines[i].of = at_call.n /\ (lines[i].kind \in Ends => i = Len(lines))
      BY TaggedAnswer
    <3>0. at_uart' = Deliver(at_uart, lines)
      BY <3>3
    <3> HIDE DEF lines
    <3>5. Follows(at_uart', at_uart, lines) /\ at_uart' \in Seq(Lines)
      BY <1>1, <3>0, <3>4, DeliverLines
    <3>6. PICK lost \in Nat :
            /\ Len(at_uart') = Len(at_uart) + Len(lines) - lost
            /\ \A i \in 1 .. Len(at_uart') :
                 \/ lost + i \in 1 .. Len(at_uart) /\ at_uart'[i] = at_uart[lost + i]
                 \/ /\ lost + i - Len(at_uart) \in 1 .. Len(lines)
                    /\ at_uart'[i] = lines[lost + i - Len(at_uart)]
      BY <3>5 DEF Follows
    <3>7. ASSUME NEW i \in 1 .. Len(at_uart'), at_uart'[i].kind \in Ends
          PROVE  at_uart'[i].of = at_call.n /\ i = Len(at_uart')
      <4>1. /\ lost + i - Len(at_uart) \in 1 .. Len(lines)
            /\ at_uart'[i] = lines[lost + i - Len(at_uart)]
        BY <2>1, <3>6, <3>7 DEF NoEnds
      <4>2. at_uart'[i].of = at_call.n /\ lost + i - Len(at_uart) = Len(lines)
        BY <3>4, <3>7, <4>1
      <4>3. Len(at_uart) \in Nat /\ i \in Nat /\ Len(lines) \in Nat
        BY <1>1, <3>4
      <4>4. QED
        BY <3>6, <4>2, <4>3
    <3>8. ~InParser'
      BY <1>1, <2>1 DEF NoEnds
    <3>9. EndsAreExpected'
      <4>1. \A i \in 1 .. Len(at_uart') : at_uart'[i].kind \in Ends => Expected(at_uart[i].of)'
        BY <3>2, <3>7 DEF Expected
      <4>2. QED
        BY <3>7, <3>8, <4>1 DEF EndsAreExpected
    <3>10. QED
      BY <1>1, <2>3, <3>1, <3>9, <3>11
  <2>4. QED
    BY <1>2, <2>2, <2>3, SendMoves
<1>3. CASE at_send = "WAIT_REV"
  <2>1. UNCHANGED <<at_uart, at_modem>> /\ at_send' \in {"REVOK", "TIMEOUT", "WAIT_REV"}
    BY <1>3, SendMoves
  <2>2. PICK take : /\ take = sdk_os_sem_take(resp_notice, Timeout, at_now)
                    /\ resp_notice' = take.sem
                    /\ at_send' = "REVOK" <=> take.status = "OK"
                    /\ at_send' = "WAIT_REV" <=> take.status = "BUSY"
    BY <1>3, SendMoves
  <2>3. /\ take.status = "OK" <=> resp_notice.value > 0
        /\ take.sem.value = IF resp_notice.value > 0 THEN resp_notice.value - 1 ELSE resp_notice.value
    BY <1>1, <2>2, TakeNotice
  <2>4. resp_notice'.value = 0
    BY <1>1, <2>2, <2>3 DEF NoticeIsFresh
  <2>5. at_send' = "REVOK" => at_status.of = at_call.n
    BY <1>1, <2>2, <2>3 DEF NoticeIsFresh
  <2>6. CASE NoEnds
    <3>1. NoEnds'
      BY <1>1, <2>1, <2>6 DEF NoEnds
    <3>2. EndsAreExpected'
      BY <3>1 DEF EndsAreExpected, NoEnds
    <3>3. QED
      BY <1>1, <2>1, <2>4, <2>5, <3>2
  <2>7. CASE ~NoEnds /\ at_now' = at_now
    <3>1. \E n : Expected(n)
      BY <1>1, <2>7 DEF NoEnds, EndsAreExpected
    <3>2. /\ take.status = "BUSY" /\ take.sem.value = 0 /\ take.sem.state = "WAITING"
          /\ take.sem.timer.start = at_now /\ take.sem.timer.timeout_ms = Timeout
      BY <2>2, <3>1, TakeExpected
    <3>3. \A n : Expected(n) => Expected(n)'
      BY <2>2, <2>7, <3>2 DEF Expected
    <3>4. EndsAreExpected'
      BY <1>1, <2>1, <3>3 DEF EndsAreExpected, Expected
    <3>5. QED
      BY <1>1, <2>1, <2>4, <2>5, <3>4
  <2>8. CASE ~NoEnds /\ Parsed'
    <3>1. at_uart' = <<>> /\ at_parse'.parser = "READ_LINE"
      BY <2>8 DEF Parsed
    <3>2. NoEnds'
      BY <3>1 DEF NoEnds, InParser
    <3>3. EndsAreExpected'
      BY <3>2 DEF EndsAreExpected, NoEnds
    <3>4. QED
      BY <1>1, <2>1, <2>4, <2>5, <3>3
  <2>9. QED
    BY <2>6, <2>7, <2>8
<1>4. QED
  BY <1>2, <1>3

LEMMA RoundKeepsPrompt ==
  ASSUME AtTypes, WaitsInCall, prompt, at_parse.line_num = 0, PromptHolds,
         NEW ticks \in {0, 1}, Round(ticks)
  PROVE  at_modem'.lines = <<>> /\ EndsAreExpected' /\ NoticeIsFresh' /\ ResultIsOwn'
<1>1. /\ at_modem.lines = <<>> /\ EndsAreExpected /\ NoticeIsFresh /\ ResultIsOwn
      /\ UNCHANGED parser_vars /\ prompt' /\ resp_notice.value \in Nat
  BY DEF PromptHolds, Round, AtTypes, CommandTypes, Notices
<1>2. at_now' = at_now \/ Parsed'
  <2>1. CASE ticks = 0
    <3>1. at_now' = (at_now + 0) % W /\ at_now \in 0 .. W - 1 /\ W \in Nat \ {0}
      BY <2>1, WIsEven DEF Round, AtTypes, WorldTypes, Ticks
    <3>2. QED
      BY <3>1
  <2>2. CASE ticks = 1
    BY <1>1, <2>2 DEF Round
  <2>3. QED
    BY <2>1, <2>2
<1>3. CASE at_send # "WAIT_REV" /\ UNCHANGED <<at_send, resp_notice, at_uart, at_modem>>
  <2>1. NoEnds /\ resp_notice.value = 0
    BY <1>1, <1>3, NoEndsLeft DEF NoticeIsFresh
  <2>2. NoEnds'
    BY <1>1, <1>3, <2>1 DEF NoEnds, InParser, parser_vars
  <2>3. EndsAreExpected' /\ NoticeIsFresh' /\ at_modem'.lines = <<>>
    BY <1>1, <1>3, <2>1, <2>2 DEF EndsAreExpected, NoEnds, NoticeIsFresh
  <2>4. CASE at_obj_set_urc_table \/ Idle \/ StartCall
    BY <1>1, <2>3, <2>4, IdlePoll DEF ResultIsOwn
  <2>5. CASE at_call.kind = "ex" /\ (ExStart \/ ExRetry \/ ExWaitSend \/ ExTimeout)
    <3>1. at_call'.n = at_call.n /\ (at_result' = at_result \/ at_result'.status = "TIMEOUT")
      BY <2>5, ExOtherPoll
    <3>2. QED
      BY <1>1, <2>3, <3>1 DEF ResultIsOwn
  <2>6. CASE at_cmd_common \/ (at_call.kind = "ex" /\ ExSend)
    <3>1. /\ AT_CMD_SEND(Timeout) /\ at_call'.n = at_call.n
          /\ at_result' = at_result \/ (at_send' = "REVOK" /\ at_result'.of = at_status.of)
      BY <2>6, CommonPoll, ExSendPoll
    <3>2. at_send' = "REVOK" => at_status.of = at_call.n
      BY <1>1, <1>2, <3>1, SendKeepsPrompt
    <3>3. QED
      BY <1>1, <2>3, <3>1, <3>2 DEF ResultIsOwn
  <2>7. QED
    BY <2>4, <2>5, <2>6, PollCases
<1>4. CASE at_cmd_common \/ (at_call.kind = "ex" /\ ExSend)
  <2>1. /\ AT_CMD_SEND(Timeout) /\ at_call'.n = at_call.n
        /\ at_result' = at_result \/ (at_send' = "REVOK" /\ at_result'.of = at_status.of)
    BY <1>4, CommonPoll, ExSendPoll
  <2>2. /\ at_modem'.lines = <<>> /\ EndsAreExpected' /\ resp_notice'.value = 0
        /\ at_send' = "REVOK" => at_status.of = at_call.n
    BY <1>1, <1>2, <2>1, SendKeepsPrompt
  <2>3. ResultIsOwn'
    BY <1>1, <2>1, <2>2 DEF ResultIsOwn
  <2>4. QED
    BY <2>2, <2>3 DEF NoticeIsFresh
<1>5. CASE at_obj_set_urc_table \/ Idle \/ StartCall
  BY <1>3, <1>5, IdlePoll DEF WaitsInCall
<1>6. CASE /\ at_call.kind = "ex" /\ (ExStart \/ ExRetry \/ ExWaitSend \/ ExTimeout)
           /\ UNCHANGED <<at_send, resp_notice, at_uart, at_modem>>
  BY <1>3, <1>6, ExOtherPoll DEF WaitsInCall
<1>7. QED
  BY <1>4, <1>5, <1>6, PollCases

\* resp->line_num is set once.
LEMMA LineNumIsKept ==
  ASSUME AtTypes, AtNext
  PROVE  prompt' = prompt /\ at_parse'.line_num = at_parse.line_num
<1>1. at_parse \in Parses
  BY DEF AtTypes, ParserTypes
<1>2. CASE at_parser_poll
  <2> DEFINE Kept == at_parse'.line_num = at_parse.line_num
  <2>1. ASSUME ParserStart PROVE Kept
    BY <1>1, <2>1 DEF ParserStart, Parses
  <2>2. ASSUME BeginLine PROVE Kept
    BY <1>1, <2>2 DEF BeginLine, Parses
  <2>3. ASSUME NoLine PROVE Kept
    BY <2>3 DEF NoLine, parser_vars
  <2>4. ASSUME at_recv_readline PROVE Kept
    BY <1>1, <2>4 DEF at_recv_readline, Parses
  <2>5. ASSUME ParseUrc PROVE Kept
    BY <1>1, <2>5 DEF ParseUrc, Parses
  <2>6. ASSUME ParseAnswer PROVE Kept
    <3>1. PICK lines :
            \/ at_parse' = [at_parse EXCEPT !.parser = "START", !.lines = lines]
            \/ at_parse' = [at_parse EXCEPT !.parser = "READ_LINE", !.rl = "START", !.lines = lines]
      BY <2>6 DEF ParseAnswer
    <3>2. QED
      BY <1>1, <3>1 DEF Parses
  <2>7. prompt' = prompt
    BY <1>2 DEF at_parser_poll, env_vars
  <2>8. QED
    BY <1>2, <2>1, <2>2, <2>3, <2>4, <2>5, <2>6, <2>7 DEF at_parser_poll
<1>3. CASE CommandPoll \/ ModemSends \/ UrcArrives
  BY <1>3 DEF CommandPoll, Round, ModemSends, UrcArrives, parser_vars
<1>4. QED
  BY <1>2, <1>3 DEF AtNext

LEMMA PromptAlways == AtSpec => []PromptHolds
<1> DEFINE Inv == AtTypes /\ WaitsInCall /\ TriesCounted
<1>1. AtInit => PromptHolds
  BY AtInitHolds DEF AtInv
<1>2. Inv /\ PromptHolds /\ [AtNext]_at_vars => PromptHolds'
  <2> SUFFICES ASSUME Inv, PromptHolds, [AtNext]_at_vars PROVE PromptHolds'
    OBVIOUS
  <2>1. CASE UNCHANGED at_vars
    BY <2>1 DEF at_vars, PromptHolds, EndsAreExpected, Expected, InParser, NoticeIsFresh, ResultIsOwn
  <2>2. CASE AtNext
    <3>1. prompt' = prompt /\ at_parse'.line_num = at_parse.line_num
      BY <2>2, LineNumIsKept
    <3>2. SUFFICES ASSUME prompt, at_parse.line_num = 0
                   PROVE  at_modem'.lines = <<>> /\ EndsAreExpected' /\ NoticeIsFresh' /\ ResultIsOwn'
      BY <3>1 DEF PromptHolds
    <3>3. QED
      BY <2>2, <3>2, ParserKeepsPrompt, RoundKeepsPrompt, ArrivalKeepsPrompt DEF AtNext, CommandPoll
  <2>3. QED
    BY <2>1, <2>2
<1> HIDE DEF Inv
<1>3. AtSpec => []Inv
  BY CallsAlways DEF Inv
<1>4. QED
  BY <1>1, <1>2, <1>3, PTL DEF AtSpec

\* With a prompt modem and line_num = 0 the status that at_cmd_common and
\* at_cmd_common_ex return comes from the answer to their own command, whatever
\* events arrive and however many commands got no answer before.
THEOREM OutcomeIsOwn == AtSpec => []AtOutcomeIsOwn
<1>1. PromptHolds => AtOutcomeIsOwn
  BY DEF PromptHolds, ResultIsOwn, AtOutcomeIsOwn
<1>2. QED
  BY <1>1, PromptAlways, PTL

--------------------------------------------------------------------------------
(* The response of a prompt modem                                          *)

\* A modem that answers ends its answer.
AnswersEnd == \A answer \in Answers : answer # <<>> /\ answer[Len(answer)] \in Ends

\* The lines of s that belong to a call are those from b + 1 to b + c: the last c
\* of this answer to call n.
HasEndOf(s, answer, n, b, c) ==
  /\ b \in Nat /\ c \in 0 .. Len(answer) /\ b + c <= Len(s)
  /\ \A i \in 1 .. Len(s) : s[i].of # 0 <=> b < i /\ i <= b + c
  /\ \A i \in 1 .. c : s[b + i] = [kind |-> answer[Len(answer) - c + i], of |-> n]

\* All other lines are of events, v at most.
OneAnswer(s, n, v) ==
  \E answer \in Answers, b, c \in Nat : HasEndOf(s, answer, n, b, c) /\ Len(s) <= c + v

NoAnswer(s) == \A i \in 1 .. Len(s) : s[i].of = 0

OwnLines(s, n, v) == OneAnswer(s, n, v) \/ (NoAnswer(s) /\ Len(s) <= v)

\* The response to call n with this status, after v events.
Response(lines, status, n, v) ==
  \E answer \in Answers, b, c \in Nat :
    /\ HasEndOf(lines, answer, n, b, c)
    /\ Last(answer) = IF status = "OK" THEN "ok" ELSE "error"
    /\ IF lines = <<>> THEN Len(answer) + v > RespLines ELSE c # 0

\* What the parser has of the lines it reads, and with those that it has not read.
Collected ==
  IF at_parse.parser = "START" THEN <<>>
  ELSE IF at_parse.parser = "PARSE_LINE" THEN Append(at_parse.lines, at_line)
  ELSE at_parse.lines

Stream == Collected \o at_uart

\* A response has no end of an answer while it grows.
GrowsWithoutEnd ==
  at_parse.parser # "START" =>
    \A i \in 1 .. Len(at_parse.lines) : at_parse.lines[i].kind \notin Ends

CallsAreCounted == at_call.kind # "none" => at_call.n # 0

\* With a prompt modem and without loss the lines at hand are the end of one
\* answer, to the call that waits, or none, and events; and the response has that
\* end when it was parsed, until it is taken and after that, or it is empty
\* because there was no room.
ResponseHolds ==
  prompt /\ at_parse.line_num = 0 /\ ~at_modem.lost =>
    /\ GrowsWithoutEnd
    /\ OwnLines(Stream, at_call.n, at_modem.urcs)
    /\ resp_notice.value > 0 => Response(at_parse.lines, at_status.status, at_call.n, at_modem.urcs)
    /\ at_result.status \in {"OK", "ERROR"} =>
         Response(at_result.lines, at_result.status, at_call.n, at_modem.urcs)

\* What is left of an answer behind the first k lines.
LEMMA RestHasEnd ==
  ASSUME NEW s \in Seq(Lines), NEW t \in Seq(Lines), NEW n \in Nat, NEW v \in Nat, NEW k \in Nat,
         k <= Len(s), Len(t) = Len(s) - k, \A i \in 1 .. Len(t) : t[i] = s[k + i],
         OwnLines(s, n, v)
  PROVE  OwnLines(t, n, v)
<1>1. Len(s) \in Nat /\ Len(t) \in Nat /\ \A i \in 1 .. Len(t) : k + i \in 1 .. Len(s) /\ i \in Nat
  BY SMT
<1>2. CASE NoAnswer(s) /\ Len(s) <= v
  <2>1. \A i \in 1 .. Len(t) : t[i].of = 0
    BY <1>1, <1>2 DEF NoAnswer
  <2>2. Len(t) <= v
    BY <1>1, <1>2
  <2>3. QED
    BY <2>1, <2>2 DEF NoAnswer, OwnLines
<1>3. CASE OneAnswer(s, n, v)
  <2>1. PICK answer \in Answers, b \in Nat, c \in Nat : HasEndOf(s, answer, n, b, c) /\ Len(s) <= c + v
    BY <1>3 DEF OneAnswer
  <2> DEFINE L == Len(answer)
  <2>2. /\ c <= L /\ b + c <= Len(s) /\ L \in Nat /\ Len(s) <= c + v
        /\ \A i \in 1 .. Len(s) : s[i].of # 0 <=> b < i /\ i <= b + c
        /\ \A i \in 1 .. c : s[b + i] = [kind |-> answer[L - c + i], of |-> n]
    <3>1. L \in Nat
      BY AnswersEndOnce
    <3>2. c <= L /\ b + c <= Len(s)
      <4>1. c \in 0 .. L /\ b + c <= Len(s)
        BY <2>1 DEF HasEndOf
      <4>2. QED
        BY <3>1, <4>1
    <3>3. \A i \in 1 .. Len(s) : s[i].of # 0 <=> b < i /\ i <= b + c
      BY <2>1 DEF HasEndOf
    <3>4. \A i \in 1 .. c : s[b + i] = [kind |-> answer[L - c + i], of |-> n]
      BY <2>1 DEF HasEndOf
    <3>5. QED
      BY <2>1, <3>1, <3>2, <3>3, <3>4
  <2>3. CASE k >= b + c
    <3>1. ASSUME NEW i \in 1 .. Len(t) PROVE t[i].of = 0
      <4>1. k + i \in 1 .. Len(s) /\ ~(k + i <= b + c)
        BY <1>1, <2>3
      <4>2. s[k + i].of = 0
        BY <2>2, <4>1
      <4>3. QED
        BY <4>2
    <3>2. Len(t) <= v
      BY <1>1, <2>2, <2>3
    <3>3. QED
      BY <3>1, <3>2 DEF NoAnswer, OwnLines
  <2>4. CASE k <= b
    <3> DEFINE d == b - k
    <3>1. d \in Nat /\ d + c <= Len(t) /\ b = k + d /\ Len(t) <= c + v
      BY <1>1, <2>2, <2>4
    <3> HIDE DEF d, L
    <3>2. ASSUME NEW i \in 1 .. Len(t) PROVE t[i].of # 0 <=> d < i /\ i <= d + c
      <4>1. s[k + i].of # 0 <=> b < k + i /\ k + i <= b + c
        BY <1>1, <2>2
      <4>2. (b < k + i <=> d < i) /\ (k + i <= b + c <=> i <= d + c)
        BY <3>1
      <4>3. QED
        BY <4>1, <4>2
    <3>3. ASSUME NEW i \in 1 .. c PROVE t[d + i] = [kind |-> answer[L - c + i], of |-> n]
      <4>1. d + i \in 1 .. Len(t) /\ k + (d + i) = b + i
        BY <1>1, <3>1
      <4>2. t[d + i] = s[b + i]
        BY <4>1
      <4>3. QED
        BY <2>2, <4>2
    <3>4. HasEndOf(t, answer, n, d, c)
      <4>1. d \in Nat /\ c \in 0 .. L /\ d + c <= Len(t)
        BY <2>2, <3>1
      <4>2. QED
        BY <3>2, <3>3, <4>1 DEF HasEndOf, L
    <3>5. QED
      BY <3>1, <3>4 DEF OneAnswer, OwnLines
  <2>5. CASE b < k /\ k < b + c
    <3> DEFINE e == b + c - k
    <3>1. e \in Nat /\ e <= Len(t) /\ e <= c /\ e <= L /\ b + c = k + e /\ Len(t) <= e + v
      BY <1>1, <2>2, <2>5
    <3> HIDE DEF e, L
    <3>2. ASSUME NEW i \in 1 .. Len(t) PROVE t[i].of # 0 <=> 0 < i /\ i <= 0 + e
      <4>1. s[k + i].of # 0 <=> b < k + i /\ k + i <= b + c
        BY <1>1, <2>2
      <4>2. b < k + i /\ 0 < i /\ (k + i <= b + c <=> i <= 0 + e)
        BY <1>1, <2>5, <3>1
      <4>3. QED
        BY <4>1, <4>2
    <3>3. ASSUME NEW i \in 1 .. e PROVE t[0 + i] = [kind |-> answer[L - e + i], of |-> n]
      <4> DEFINE j == k + i - b
      <4>1. i \in 1 .. Len(t) /\ 0 + i = i /\ j \in 1 .. c /\ b + j = k + i /\ L - c + j = L - e + i
        BY <1>1, <2>2, <2>5, <3>1
      <4> HIDE DEF j
      <4>2. t[i] = s[b + j]
        BY <4>1
      <4>3. s[b + j] = [kind |-> answer[L - c + j], of |-> n]
        BY <2>2, <4>1
      <4>4. QED
        BY <4>1, <4>2, <4>3
    <3>4. HasEndOf(t, answer, n, 0, e)
      BY <2>2, <3>1, <3>2, <3>3 DEF HasEndOf, L
    <3>5. QED
      BY <3>1, <3>4 DEF OneAnswer, OwnLines
  <2>6. QED
    BY <1>1, <2>2, <2>3, <2>4, <2>5
<1>4. QED
  BY <1>2, <1>3 DEF OwnLines

\* Events behind it only add to the events.
LEMMA EventsBehind ==
  ASSUME NEW s \in Seq(Lines), NEW e \in Seq(Lines), NEW n \in Nat, NEW v \in Nat,
         NoAnswer(e), OwnLines(s, n, v)
  PROVE  OwnLines(s \o e, n, v + Len(e))
<1> DEFINE t == s \o e
<1>1. /\ Len(s) \in Nat /\ Len(e) \in Nat /\ Len(t) = Len(s) + Len(e)
      /\ \A i \in 1 .. Len(s) : t[i] = s[i]
  BY ConcatProperties
<1>2. ASSUME NEW i \in 1 .. Len(t), i > Len(s) PROVE t[i].of = 0
  <2>1. t[i] = e[i - Len(s)] /\ i - Len(s) \in 1 .. Len(e)
    BY <1>1, <1>2, ConcatProperties
  <2>2. QED
    BY <2>1 DEF NoAnswer
<1> HIDE DEF t
<1>3. CASE NoAnswer(s) /\ Len(s) <= v
  <2>1. \A i \in 1 .. Len(t) : t[i].of = 0
    BY <1>1, <1>2, <1>3 DEF NoAnswer
  <2>2. Len(t) <= v + Len(e)
    BY <1>1, <1>3
  <2>3. QED
    BY <2>1, <2>2 DEF NoAnswer, OwnLines, t
<1>4. CASE OneAnswer(s, n, v)
  <2>1. PICK answer \in Answers, b \in Nat, c \in Nat : HasEndOf(s, answer, n, b, c) /\ Len(s) <= c + v
    BY <1>4 DEF OneAnswer
  <2>2. /\ c \in 0 .. Len(answer) /\ b + c <= Len(s)
        /\ \A i \in 1 .. Len(s) : s[i].of # 0 <=> b < i /\ i <= b + c
        /\ \A i \in 1 .. c : s[b + i] = [kind |-> answer[Len(answer) - c + i], of |-> n]
    BY <2>1 DEF HasEndOf
  <2>3. ASSUME NEW i \in 1 .. Len(t) PROVE t[i].of # 0 <=> b < i /\ i <= b + c
    <3>1. CASE i <= Len(s)
      <4>1. i \in 1 .. Len(s) /\ t[i] = s[i]
        BY <1>1, <3>1
      <4>2. QED
        BY <2>2, <4>1
    <3>2. CASE i > Len(s)
      <4>1. t[i].of = 0 /\ ~(i <= b + c)
        BY <1>1, <1>2, <2>2, <3>2
      <4>2. QED
        BY <4>1
    <3>3. QED
      BY <1>1, <3>1, <3>2
  <2>4. ASSUME NEW i \in 1 .. c PROVE t[b + i] = [kind |-> answer[Len(answer) - c + i], of |-> n]
    <3>1. b + i \in 1 .. Len(s)
      BY <1>1, <2>2
    <3>2. QED
      BY <1>1, <2>2, <3>1
  <2>5. b + c <= Len(t) /\ Len(t) <= c + (v + Len(e))
    BY <1>1, <2>1, <2>2
  <2>6. HasEndOf(t, answer, n, b, c)
    BY <2>2, <2>3, <2>4, <2>5 DEF HasEndOf
  <2>7. QED
    BY <2>5, <2>6 DEF OneAnswer, OwnLines, t
<1>5. QED
  BY <1>3, <1>4 DEF OwnLines

\* An answer behind lines of events only.
LEMMA AnswerBehindEvents ==
  ASSUME AtTypes, NEW s \in Seq(Lines), NEW answer \in Answers \cup {<<>>}, at_call.n # 0,
         NEW v \in Nat, NoAnswer(s), Len(s) <= v
  PROVE  LET t == s \o Tagged(answer) IN OwnLines(t, at_call.n, v)
<1> DEFINE e == Tagged(answer)
           t == s \o e
           n == at_call.n
           L == Len(answer)
<1>1. L \in Nat /\ answer \in Seq(Kinds) /\ n \in Nat
  <2>1. answer \in Seq(Kinds)
    <3>1. CASE answer = <<>>
      BY <3>1
    <3>2. CASE answer \in Answers
      <4>1. answer \in Seq(ToSet(answer)) /\ ToSet(answer) \subseteq Kinds
        BY <3>2, AnswersEndOnce DEF Kinds
      <4>2. QED
        BY <4>1
    <3>3. QED
      BY <3>1, <3>2
  <2>2. QED
    BY <2>1 DEF AtTypes, CommandTypes, Calls
<1>2. e \in Seq(Lines) /\ Len(e) = L /\ \A i \in 1 .. L : e[i] = [kind |-> answer[i], of |-> n]
  <2>1. e = [i \in 1 .. L |-> [kind |-> answer[i], of |-> n]]
    BY <1>1 DEF Tagged
  <2>2. e \in Seq(Lines)
    BY TaggedAnswer
  <2>3. QED
    BY <1>1, <2>1, <2>2
<1> HIDE DEF e
<1>3. /\ Len(s) \in Nat /\ Len(t) = Len(s) + L
      /\ \A i \in 1 .. Len(s) : t[i] = s[i]
      /\ \A i \in 1 .. L : t[Len(s) + i] = e[i]
  <2>1. Len(s) \in Nat /\ Len(t) = Len(s) + L
    <3>1. Len(t) = Len(s) + Len(e)
      BY <1>2, ConcatProperties
    <3>2. Len(s) \in Nat
      OBVIOUS
    <3>3. QED
      BY <1>2, <3>1, <3>2
  <2>2. ASSUME NEW i \in 1 .. Len(s) PROVE t[i] = s[i]
    BY <1>2, <2>1, ConcatProperties
  <2>3. ASSUME NEW i \in 1 .. L PROVE t[Len(s) + i] = e[i]
    <3>1. Len(s) + i \in 1 .. Len(s) + Len(e) /\ Len(s) + i > Len(s) /\ Len(s) + i - Len(s) = i
      BY <1>1, <1>2, <2>1
    <3>2. QED
      BY <1>2, <3>1, ConcatProperties
  <2>4. QED
    BY <2>1, <2>2, <2>3
<1> HIDE DEF t, L, n
<1>4. ASSUME NEW i \in 1 .. Len(t) PROVE t[i].of # 0 <=> Len(s) < i /\ i <= Len(s) + L
  <2>1. CASE i <= Len(s)
    <3>1. i \in 1 .. Len(s)
      BY <1>3, <2>1
    <3>2. t[i].of = 0
      BY <1>3, <3>1 DEF NoAnswer
    <3>3. QED
      BY <2>1, <3>2, <1>3
  <2>2. CASE i > Len(s)
    <3> DEFINE j == i - Len(s)
    <3>1. j \in 1 .. L /\ Len(s) + j = i /\ i <= Len(s) + L
      BY <1>1, <1>3, <2>2
    <3> HIDE DEF j
    <3>2. t[i] = [kind |-> answer[j], of |-> n]
      BY <1>2, <1>3, <3>1
    <3>3. t[i].of # 0
      BY <3>2 DEF n
    <3>4. QED
      BY <2>2, <3>1, <3>3
  <2>3. QED
    BY <1>3, <2>1, <2>2
<1>5. CASE answer = <<>>
  <2>1. L = 0
    BY <1>5 DEF L
  <2>2. \A i \in 1 .. Len(t) : t[i].of = 0
    BY <1>3, <1>4, <2>1
  <2>3. Len(t) <= v
    BY <1>3, <2>1
  <2>4. QED
    BY <2>2, <2>3 DEF NoAnswer, OwnLines, t, e
<1>6. CASE answer \in Answers
  <2>1. \A i \in 1 .. L : t[Len(s) + i] = [kind |-> answer[L - L + i], of |-> n]
    BY <1>1, <1>2, <1>3
  <2>2. HasEndOf(t, answer, n, Len(s), L)
    <3>1. Len(s) \in Nat /\ L \in 0 .. L /\ Len(s) + L <= Len(t)
      BY <1>1, <1>3
    <3>2. QED
      BY <1>4, <2>1, <3>1 DEF HasEndOf, L
  <2>3. Len(t) <= L + v
    BY <1>1, <1>3
  <2>4. QED
    BY <1>1, <1>3, <1>6, <2>2, <2>3 DEF OneAnswer, OwnLines, t, e, n
<1>7. QED
  BY <1>5, <1>6

--------------------------------------------------------------------------------
(* The lines of the application's answer                                   *)

Less == {ss \in Nat \X Nat : ss[1] < ss[2]}

LEMMA LessIsWellFounded == IsWellFoundedOn(Less, Nat)
BY NatLessThanWellFounded DEF OpToRel, Less

LEMMA Induct ==
  ASSUME NEW S, 0 \in S, \A n \in Nat : n \in S => n + 1 \in S
  PROVE  Nat \subseteq S
<1> SUFFICES ASSUME Nat \ S # {} PROVE FALSE
  OBVIOUS
<1>1. PICK x \in Nat \ S : \A y \in Nat \ S : ~ (<<y, x>> \in Less)
  BY LessIsWellFounded, WFMin
<1>2. x # 0 /\ x - 1 \in Nat /\ x - 1 < x /\ x - 1 + 1 = x
  BY <1>1
<1>3. x - 1 \in S
  BY <1>1, <1>2 DEF Less
<1>4. QED
  BY <1>1, <1>2, <1>3

\* How many of the first i lines belong to the answer.
Taken(b, c, i) == IF i <= b THEN 0 ELSE IF i <= b + c THEN i - b ELSE c

LEMMA AnswerLinesAre ==
  ASSUME NEW s \in Seq(Lines), NEW T \in Seq(Lines), NEW b \in Nat, NEW c \in Nat,
         c <= Len(T), b + c <= Len(s),
         \A i \in 1 .. Len(s) : s[i].of # 0 <=> b < i /\ i <= b + c,
         \A i \in 1 .. c : s[b + i] = T[Len(T) - c + i]
  PROVE  AnswerLines(s) = [j \in 1 .. c |-> T[Len(T) - c + j]]
<1> DEFINE N == Len(s)
           Found(f) == [i \in 0 .. N |-> IF i = 0 THEN <<>>
                                         ELSE IF s[i].of # 0 THEN Append(f[i - 1], s[i]) ELSE f[i - 1]]
           f == CHOOSE g : g = Found(g)
           L == Len(T)
           Part(k) == [j \in 1 .. k |-> T[L - c + j]]
           w == [i \in 0 .. N |-> Part(Taken(b, c, i))]
<1>1. N \in Nat /\ L \in Nat /\ b + c <= N /\ c <= L
  OBVIOUS
<1>2. \A i \in 1 .. N : s[i].of # 0 <=> b < i /\ i <= b + c
  OBVIOUS
<1>3. \A i \in 1 .. c : s[b + i] = T[L - c + i]
  OBVIOUS
<1>4. \A k \in 0 .. c : Part(k) \in Seq(Lines) /\ Len(Part(k)) = k
  <2>1. ASSUME NEW k \in 0 .. c PROVE \A j \in 1 .. k : T[L - c + j] \in Lines
    <3>1. \A j \in 1 .. k : L - c + j \in 1 .. L
      BY <1>1
    <3>2. QED
      BY <3>1
  <2>2. QED
    BY <2>1
<1> HIDE DEF N, L
<1>5. \A i \in 0 .. N : Taken(b, c, i) \in 0 .. c
  BY <1>1 DEF Taken
<1>6. Part(0) = <<>>
  OBVIOUS
<1>7. w = Found(w)
  <2>1. ASSUME NEW i \in 0 .. N
        PROVE  w[i] = IF i = 0 THEN <<>> ELSE IF s[i].of # 0 THEN Append(w[i - 1], s[i]) ELSE w[i - 1]
    <3>1. CASE i = 0
      <4>1. Taken(b, c, 0) = 0
        BY DEF Taken
      <4>2. QED
        BY <1>6, <3>1, <4>1
    <3>2. CASE i # 0 /\ s[i].of # 0
      <4> DEFINE k == i - 1 - b
      <4>1. i \in 1 .. N /\ i - 1 \in 0 .. N /\ b < i /\ i <= b + c
        BY <1>1, <1>2, <3>2
      <4>2. k \in Nat /\ k + 1 \in 1 .. c /\ k \in 0 .. c /\ b + (k + 1) = i
        BY <1>1, <4>1
      <4>3. Taken(b, c, i) = k + 1 /\ Taken(b, c, i - 1) = k
        BY <1>1, <4>1, <4>2 DEF Taken
      <4>4. s[i] = T[L - c + (k + 1)]
        BY <1>3, <4>2
      <4>5. w[i] = Part(k + 1) /\ w[i - 1] = Part(k)
        BY <4>1, <4>3
      <4> HIDE DEF k, w
      <4>6. Part(k + 1) = Append(Part(k), s[i])
        <5> DEFINE p == Part(k)
                   q == Part(k + 1)
        <5>1. s[i] \in Lines
          BY <4>1 DEF N
        <5>2. \A j \in 1 .. k : p[j] = q[j]
          BY <4>2
        <5>3. q[k + 1] = s[i]
          BY <4>2, <4>4
        <5>4. k + 1 \in 0 .. c
          BY <4>2
        <5> HIDE DEF Part
        <5>5. p \in Seq(Lines) /\ Len(p) = k /\ q \in Seq(Lines) /\ Len(q) = k + 1
          BY <1>4, <4>2, <5>4
        <5> HIDE DEF p, q
        <5> DEFINE r == Append(p, s[i])
        <5>6. r \in Seq(Lines) /\ Len(r) = k + 1 /\ r[k + 1] = s[i] /\ \A j \in 1 .. k : r[j] = p[j]
          BY <5>1, <5>5, AppendProperties
        <5> HIDE DEF r
        <5>7. \A j \in 1 .. k + 1 : r[j] = q[j]
          BY <4>2, <5>2, <5>3, <5>6
        <5>8. r = q
          <6>1. r = [j \in 1 .. k + 1 |-> r[j]] /\ q = [j \in 1 .. k + 1 |-> q[j]]
            BY <5>5, <5>6
          <6>2. QED
            BY <5>7, <6>1
        <5>9. QED
          BY <5>8 DEF p, q, r
      <4>7. QED
        BY <3>2, <4>5, <4>6
    <3>3. CASE i # 0 /\ ~(s[i].of # 0)
      <4>1. i \in 1 .. N /\ i - 1 \in 0 .. N /\ ~(b < i /\ i <= b + c)
        BY <1>1, <1>2, <3>3
      <4>2. Taken(b, c, i) = Taken(b, c, i - 1)
        BY <1>1, <4>1 DEF Taken
      <4>3. QED
        BY <3>3, <4>1, <4>2
    <3>4. QED
      BY <3>1, <3>2, <3>3
  <2> HIDE DEF w
  <2>2. w = [i \in 0 .. N |-> w[i]]
    BY DEF w
  <2>3. QED
    BY <2>1, <2>2
<1> HIDE DEF w
<1>8. f = Found(f)
  BY <1>7
<1> HIDE DEF f
<1>9. \A i \in 0 .. N : f[i] = w[i]
  <2> DEFINE Same == {n \in Nat : n \in 0 .. N => f[n] = w[n]}
  <2>1. 0 \in Same
    <3>1. 0 \in 0 .. N
      BY <1>1
    <3>2. f[0] = <<>> /\ w[0] = <<>>
      BY <1>7, <1>8, <3>1
    <3>3. QED
      BY <3>2
  <2>2. ASSUME NEW n \in Nat, n \in Same PROVE n + 1 \in Same
    <3> SUFFICES ASSUME n + 1 \in 0 .. N PROVE f[n + 1] = w[n + 1]
      OBVIOUS
    <3> DEFINE m == n + 1
    <3>1. m \in 0 .. N /\ m # 0 /\ m - 1 = n /\ f[n] = w[n]
      BY <1>1, <2>2
    <3>2. f[m] = (IF m = 0 THEN <<>> ELSE IF s[m].of # 0 THEN Append(f[m - 1], s[m]) ELSE f[m - 1])
      BY <1>8, <3>1
    <3>3. w[m] = (IF m = 0 THEN <<>> ELSE IF s[m].of # 0 THEN Append(w[m - 1], s[m]) ELSE w[m - 1])
      BY <1>7, <3>1
    <3>4. QED
      BY <3>1, <3>2, <3>3
  <2> HIDE DEF Same
  <2>3. Nat \subseteq Same
    BY <2>1, <2>2, Induct
  <2>4. QED
    BY <1>1, <2>3 DEF Same
<1>10. AnswerLines(s) = f[N]
  BY DEF AnswerLines, f, N
<1>11. Taken(b, c, N) = c /\ N \in 0 .. N
  BY <1>1 DEF Taken
<1>12. QED
  BY <1>9, <1>10, <1>11 DEF w, L

\* What Response says, as AtResponseIsOneAnswer has it.
LEMMA EndIsSuffix ==
  ASSUME AtTypes, NEW s \in Seq(Lines), NEW status, NEW v, Response(s, status, at_call.n, v)
  PROVE  \E answer \in Answers :
           /\ Last(answer) = IF status = "OK" THEN "ok" ELSE "error"
           /\ IF s = <<>> THEN Len(answer) + v > RespLines
              ELSE AnswerLines(s) # <<>> /\ IsSuffix(AnswerLines(s), Tagged(answer))
<1>1. PICK answer \in Answers, b \in Nat, c \in Nat :
        /\ HasEndOf(s, answer, at_call.n, b, c)
        /\ Last(answer) = IF status = "OK" THEN "ok" ELSE "error"
        /\ IF s = <<>> THEN Len(answer) + v > RespLines ELSE c # 0
  BY DEF Response
<1> DEFINE T == Tagged(answer)
           L == Len(T)
<1>2. /\ T \in Seq(Lines) /\ L = Len(answer) /\ L \in Nat
      /\ \A i \in 1 .. L : T[i] = [kind |-> answer[i], of |-> at_call.n]
  <2>1. answer \in Seq(ToSet(answer)) /\ Len(answer) \in Nat
    BY AnswersEndOnce
  <2>2. T = [i \in 1 .. Len(answer) |-> [kind |-> answer[i], of |-> at_call.n]]
    BY <2>1 DEF Tagged
  <2>3. T \in Seq(Lines)
    BY TaggedAnswer
  <2>4. QED
    BY <2>1, <2>2, <2>3
<1> HIDE DEF T
<1>3. /\ c <= L /\ b + c <= Len(s)
      /\ \A i \in 1 .. Len(s) : s[i].of # 0 <=> b < i /\ i <= b + c
      /\ \A i \in 1 .. c : s[b + i] = T[L - c + i]
  <2>1. /\ c <= L /\ b + c <= Len(s)
        /\ \A i \in 1 .. Len(s) : s[i].of # 0 <=> b < i /\ i <= b + c
        /\ \A i \in 1 .. c : s[b + i] = [kind |-> answer[L - c + i], of |-> at_call.n]
    <3>1. L = Len(answer) /\ L \in Nat
      BY <1>2
    <3> HIDE DEF L
    <3>2. c <= L /\ b + c <= Len(s)
      <4>1. c \in 0 .. L /\ b + c <= Len(s)
        BY <1>1, <3>1 DEF HasEndOf
      <4>2. QED
        BY <3>1, <4>1
    <3>3. \A i \in 1 .. Len(s) : s[i].of # 0 <=> b < i /\ i <= b + c
      BY <1>1 DEF HasEndOf
    <3>4. \A i \in 1 .. c : s[b + i] = [kind |-> answer[L - c + i], of |-> at_call.n]
      BY <1>1, <3>1 DEF HasEndOf
    <3>5. QED
      BY <3>2, <3>3, <3>4
  <2>2. \A i \in 1 .. c : L - c + i \in 1 .. L
    BY <1>2, <2>1
  <2>3. QED
    BY <1>2, <2>1, <2>2
<1>4. AnswerLines(s) = [j \in 1 .. c |-> T[L - c + j]]
  BY <1>2, <1>3, AnswerLinesAre
<1> DEFINE x == [j \in 1 .. c |-> T[L - c + j]]
           rx == Reverse(x)
           rt == Reverse(T)
<1>5. rx = [i \in 1 .. c |-> x[c - i + 1]] /\ rt = [i \in 1 .. L |-> T[L - i + 1]]
  BY <1>2 DEF Reverse
<1>6. Len(rx) = c /\ Len(rt) = L
  BY <1>2, <1>5
<1>7. \A i \in 1 .. c : rx[i] = rt[i]
  <2>1. ASSUME NEW i \in 1 .. c PROVE rx[i] = rt[i]
    <3> DEFINE j == c - i + 1
    <3>1. j \in 1 .. c /\ L - c + j = L - i + 1 /\ i \in 1 .. L
      <4>1. L \in Nat /\ c <= L
        BY <1>2, <1>3
      <4> HIDE DEF L
      <4>2. QED
        BY <4>1
    <3> HIDE DEF j
    <3>2. x[j] = T[L - i + 1]
      BY <3>1
    <3>3. rx[i] = x[j]
      BY <1>5 DEF j
    <3>4. QED
      BY <1>5, <3>1, <3>2, <3>3
  <2>2. QED
    BY <2>1
<1>8. SubSeq(rx, 1, c) = SubSeq(rt, 1, c)
  <2>1. rx \in Seq(Lines) /\ rt \in Seq(Lines)
    <3>1. \A i \in 1 .. L : L - i + 1 \in 1 .. L /\ T[L - i + 1] \in Lines
      BY <1>2
    <3>2. \A i \in 1 .. c : i \in 1 .. L /\ rx[i] \in Lines
      <4>1. \A i \in 1 .. c : i \in 1 .. L
        BY <1>2, <1>3
      <4>2. \A i \in 1 .. L : rt[i] = T[L - i + 1]
        BY <1>5
      <4> HIDE DEF rx, rt
      <4>3. QED
        BY <1>7, <3>1, <4>1, <4>2
    <3>3. rx = [i \in 1 .. c |-> rx[i]]
      BY <1>5
    <3> HIDE DEF rx
    <3>4. rx \in Seq(Lines)
      BY <3>2, <3>3
    <3>5. rt \in Seq(Lines)
      BY <1>2, <1>5, <3>1
    <3>6. QED
      BY <3>4, <3>5
  <2> HIDE DEF rx, rt
  <2> DEFINE sx == SubSeq(rx, 1, c)
             st == SubSeq(rt, 1, c)
  <2>2. /\ sx \in Seq(Lines) /\ Len(sx) = c /\ \A i \in 1 .. c : sx[i] = rx[i]
        /\ st \in Seq(Lines) /\ Len(st) = c /\ \A i \in 1 .. c : st[i] = rt[i]
    <3>1. \A i \in 1 .. c : i \in 1 .. Len(rx) /\ i \in 1 .. Len(rt) /\ 1 + i - 1 = i
      BY <1>2, <1>3, <1>6
    <3>2. sx = [i \in 1 .. c |-> rx[i]]
      BY <1>6, <2>1, <3>1
    <3>3. st = [i \in 1 .. c |-> rt[i]]
      BY <1>6, <2>1, <3>1
    <3>4. \A i \in 1 .. c : rx[i] \in Lines /\ rt[i] \in Lines
      BY <2>1, <3>1
    <3> HIDE DEF sx, st
    <3>5. QED
      BY <3>2, <3>3, <3>4
  <2> HIDE DEF sx, st
  <2>3. sx = st
    BY <1>7, <2>2, SeqEqual
  <2>4. QED
    BY <2>3 DEF sx, st
<1>9. IsPrefix(rx, rt)
  <2> HIDE DEF rx, rt
  <2>1. QED
    BY <1>3, <1>6, <1>8 DEF IsPrefix
<1>10. IsSuffix(x, T)
  BY <1>9 DEF IsSuffix
<1>11. ASSUME c # 0 PROVE x # <<>>
  <2>1. Len(x) = c /\ Len(<<>>) = 0
    OBVIOUS
  <2>2. QED
    BY <1>11, <2>1
<1> HIDE DEF x
<1>12. s # <<>> => AnswerLines(s) # <<>> /\ IsSuffix(AnswerLines(s), Tagged(answer))
  BY <1>1, <1>4, <1>10, <1>11 DEF T, x
<1>13. QED
  BY <1>1, <1>12

\* A response that has the first lines at hand, to the end of an answer; and an
\* empty one when those did not fit.
LEMMA ResponseIsWhole ==
  ASSUME NEW s \in Seq(Lines), NEW u \in Seq(Lines), NEW n \in Nat, NEW v \in Nat,
         OneAnswer(s, n, v),
         Len(u) \in 1 .. Len(s), \A i \in 1 .. Len(u) : u[i] = s[i],
         s[Len(u)].of # 0, s[Len(u)].kind \in Ends,
         NEW status, s[Len(u)].kind = IF status = "OK" THEN "ok" ELSE "error"
  PROVE  /\ Response(u, status, n, v)
         /\ Len(u) > RespLines => Response(<<>>, status, n, v)
<1> DEFINE m == Len(u)
<1>1. PICK answer \in Answers, b \in Nat, c \in Nat : HasEndOf(s, answer, n, b, c) /\ Len(s) <= c + v
  BY DEF OneAnswer
<1> DEFINE L == Len(answer)
<1>2. /\ L \in Nat /\ c \in 0 .. L /\ b + c <= Len(s) /\ Len(s) <= c + v
      /\ \A i \in 1 .. Len(s) : s[i].of # 0 <=> b < i /\ i <= b + c
      /\ \A i \in 1 .. c : s[b + i] = [kind |-> answer[L - c + i], of |-> n]
  <2>1. L \in Nat
    BY AnswersEndOnce
  <2>2. QED
    BY <1>1, <2>1 DEF HasEndOf
<1>3. \A i \in 1 .. L : answer[i] \in Ends => i = L
  BY AnswersEndOnce
<1> HIDE DEF m, L
<1>4. m \in 1 .. Len(s) /\ s[m].of # 0 /\ s[m].kind \in Ends /\ \A i \in 1 .. m : u[i] = s[i]
  BY DEF m
<1>5. m = b + c /\ c # 0 /\ s[m].kind = answer[L]
  <2> DEFINE j == m - b
  <2>1. j \in 1 .. c /\ b + j = m
    <3>1. b < m /\ m <= b + c /\ m \in Nat
      BY <1>2, <1>4
    <3>2. QED
      BY <3>1
  <2> HIDE DEF j
  <2>2. s[m] = [kind |-> answer[L - c + j], of |-> n]
    BY <1>2, <2>1
  <2>3. answer[L - c + j] \in Ends /\ L - c + j \in 1 .. L
    BY <1>2, <1>4, <2>1, <2>2
  <2>4. L - c + j = L
    BY <1>3, <2>3
  <2>5. j = c
    BY <1>2, <2>1, <2>4
  <2>6. QED
    BY <2>1, <2>2, <2>4, <2>5
<1>6. \A i \in 1 .. m : u[i].of # 0 <=> b < i /\ i <= b + c
  BY <1>2, <1>4
<1>7. \A i \in 1 .. c : u[b + i] = [kind |-> answer[L - c + i], of |-> n]
  <2>1. ASSUME NEW i \in 1 .. c PROVE u[b + i] = s[b + i]
    <3>1. b + i \in 1 .. m
      BY <1>5
    <3>2. QED
      BY <1>4, <3>1
  <2>2. QED
    BY <1>2, <2>1
<1>8. HasEndOf(u, answer, n, b, c)
  BY <1>2, <1>5, <1>6, <1>7 DEF HasEndOf, m, L
<1>9. Last(answer) = IF status = "OK" THEN "ok" ELSE "error"
  BY <1>5 DEF Last, m, L
<1>10. Response(u, status, n, v)
  <2>1. u # <<>>
    BY <1>4 DEF m
  <2>2. QED
    BY <1>5, <1>8, <1>9, <2>1 DEF Response
<1>11. ASSUME m > RespLines PROVE Response(<<>>, status, n, v)
  <2>1. L + v > RespLines
    BY <1>2, <1>4, <1>11, AtNumbers
  <2>2. HasEndOf(<<>>, answer, n, 0, 0)
    BY <1>2 DEF HasEndOf, L
  <2>3. QED
    BY <1>9, <2>1, <2>2 DEF Response, L
<1>12. QED
  BY <1>10, <1>11 DEF m

\* Events that come later do not matter to a response.
LEMMA ResponseStays ==
  ASSUME NEW lines, NEW status, NEW n, NEW v \in Nat, NEW w \in Nat, v <= w,
         Response(lines, status, n, v)
  PROVE  Response(lines, status, n, w)
<1>1. PICK answer \in Answers, b \in Nat, c \in Nat :
        /\ HasEndOf(lines, answer, n, b, c)
        /\ Last(answer) = IF status = "OK" THEN "ok" ELSE "error"
        /\ IF lines = <<>> THEN Len(answer) + v > RespLines ELSE c # 0
  BY DEF Response
<1>2. Len(answer) \in Nat
  BY AnswersEndOnce
<1>3. Len(answer) + v > RespLines => Len(answer) + w > RespLines
  BY <1>2, AtNumbers
<1>4. QED
  BY <1>1, <1>3 DEF Response

--------------------------------------------------------------------------------
(* The lines at hand                                                       *)

LEMMA StreamIsLines ==
  ASSUME AtTypes
  PROVE  /\ Collected \in Seq(Lines)
         /\ Stream \in Seq(Lines)
         /\ at_uart \in Seq(Lines)
         /\ at_parse.lines \in Seq(Lines)
<1>1. at_parse \in Parses /\ at_uart \in Seq(Lines) /\ (at_parse.parser = "PARSE_LINE" => at_line \in Lines)
  BY DEF AtTypes, ParserTypes, WorldTypes
<1>2. at_parse.lines \in Seq(Lines)
  BY <1>1 DEF Parses
<1>3. Collected \in Seq(Lines)
  <2>1. CASE at_parse.parser = "START"
    BY <2>1 DEF Collected
  <2>2. CASE at_parse.parser = "PARSE_LINE"
    BY <1>1, <1>2, <2>2, AppendProperties DEF Collected
  <2>3. CASE at_parse.parser # "START" /\ at_parse.parser # "PARSE_LINE"
    BY <1>2, <2>3 DEF Collected
  <2>4. QED
    BY <2>1, <2>2, <2>3
<1>4. Stream \in Seq(Lines)
  BY <1>1, <1>3, ConcatProperties DEF Stream
<1>5. QED
  BY <1>1, <1>2, <1>3, <1>4

\* When no end of an answer is at hand, nothing of an answer is.
LEMMA NothingLeft ==
  ASSUME AtTypes, AnswersEnd, NoEnds, GrowsWithoutEnd, NEW n, NEW v \in Nat,
         OwnLines(Stream, n, v)
  PROVE  NoAnswer(Stream) /\ Len(Stream) <= v
<1> DEFINE s == Stream
<1>1. s \in Seq(Lines) /\ Collected \in Seq(Lines) /\ at_uart \in Seq(Lines) /\ at_parse.lines \in Seq(Lines)
  BY StreamIsLines
<1>2. \A i \in 1 .. Len(Collected) : Collected[i].kind \notin Ends
  <2>1. CASE at_parse.parser = "START"
    BY <2>1 DEF Collected
  <2>2. CASE at_parse.parser = "PARSE_LINE"
    <3>1. at_line.kind \notin Ends /\ at_line \in Lines
      BY <2>2 DEF NoEnds, InParser, AtTypes, ParserTypes
    <3>2. \A i \in 1 .. Len(at_parse.lines) : at_parse.lines[i].kind \notin Ends
      BY <2>2 DEF GrowsWithoutEnd
    <3>3. Collected = Append(at_parse.lines, at_line)
      BY <2>2 DEF Collected
    <3> DEFINE lines == at_parse.lines
    <3>4. /\ lines \in Seq(Lines) /\ Collected = Append(lines, at_line)
          /\ \A i \in 1 .. Len(lines) : lines[i].kind \notin Ends
      BY <1>1, <3>2, <3>3
    <3> HIDE DEF lines
    <3>5. /\ Len(Collected) = Len(lines) + 1 /\ Collected[Len(lines) + 1] = at_line
          /\ \A i \in 1 .. Len(lines) : Collected[i] = lines[i]
      BY <3>1, <3>4, AppendProperties
    <3>6. \A i \in 1 .. Len(Collected) : i = Len(lines) + 1 \/ i \in 1 .. Len(lines)
      BY <3>4, <3>5
    <3>7. QED
      BY <3>1, <3>4, <3>5, <3>6
  <2>3. CASE at_parse.parser # "START" /\ at_parse.parser # "PARSE_LINE"
    BY <2>3 DEF Collected, GrowsWithoutEnd
  <2>4. QED
    BY <2>1, <2>2, <2>3
<1>3. \A i \in 1 .. Len(s) : s[i].kind \notin Ends
  <2>1. ASSUME NEW i \in 1 .. Len(s) PROVE s[i].kind \notin Ends
    <3>1. Len(s) = Len(Collected) + Len(at_uart) /\ Len(Collected) \in Nat /\ Len(at_uart) \in Nat
      BY <1>1, ConcatProperties DEF Stream
    <3>2. CASE i <= Len(Collected)
      <4>1. s[i] = Collected[i] /\ i \in 1 .. Len(Collected)
        BY <1>1, <3>1, <3>2, ConcatProperties DEF Stream
      <4>2. QED
        BY <1>2, <4>1
    <3>3. CASE i > Len(Collected)
      <4>1. s[i] = at_uart[i - Len(Collected)] /\ i - Len(Collected) \in 1 .. Len(at_uart)
        BY <1>1, <3>1, <3>3, ConcatProperties DEF Stream
      <4>2. QED
        BY <4>1 DEF NoEnds
    <3>4. QED
      BY <3>1, <3>2, <3>3
  <2>2. QED
    BY <2>1
<1> HIDE DEF s
<1>4. SUFFICES ASSUME OneAnswer(s, n, v) PROVE NoAnswer(s) /\ Len(s) <= v
  BY DEF OwnLines, s
<1>5. PICK answer \in Answers, b \in Nat, c \in Nat : HasEndOf(s, answer, n, b, c) /\ Len(s) <= c + v
  BY <1>4 DEF OneAnswer
<1>6. Len(answer) \in Nat /\ answer[Len(answer)] \in Ends
  BY AnswersEndOnce DEF AnswersEnd
<1>7. c = 0
  <2>1. SUFFICES ASSUME c # 0 PROVE FALSE
    OBVIOUS
  <2>2. c \in 1 .. c /\ Len(answer) - c + c = Len(answer) /\ b + c \in 1 .. Len(s)
    BY <1>1, <1>5, <1>6, <2>1 DEF HasEndOf, s
  <2>3. s[b + c] = [kind |-> answer[Len(answer)], of |-> n]
    BY <1>5, <2>2 DEF HasEndOf
  <2>4. QED
    BY <1>3, <1>6, <2>2, <2>3
<1>8. ASSUME NEW i \in 1 .. Len(s) PROVE s[i].of = 0
  <2>1. s[i].of # 0 <=> b < i /\ i <= b + c
    BY <1>5 DEF HasEndOf
  <2>2. QED
    BY <1>7, <2>1
<1>9. Len(s) <= v
  BY <1>1, <1>5, <1>7
<1>10. QED
  BY <1>8, <1>9 DEF NoAnswer

\* What the UART has is the rest of the lines at hand.
LEMMA UartIsRest ==
  ASSUME AtTypes, NEW n \in Nat, NEW v \in Nat, OwnLines(Stream, n, v)
  PROVE  /\ OwnLines(at_uart, n, v)
         /\ at_uart # <<>> => OwnLines(Tail(at_uart), n, v)
<1> DEFINE s == Stream
           u == at_uart
           k == Len(Collected)
<1>1. s \in Seq(Lines) /\ Collected \in Seq(Lines) /\ u \in Seq(Lines)
  BY StreamIsLines
<1>2. /\ k \in Nat /\ Len(s) = k + Len(u) /\ Len(u) \in Nat
      /\ \A i \in 1 .. Len(u) : u[i] = s[k + i]
  <2>1. k \in Nat /\ Len(u) \in Nat /\ Len(s) = k + Len(u)
    BY <1>1, ConcatProperties DEF Stream
  <2>2. ASSUME NEW i \in 1 .. Len(u) PROVE u[i] = s[k + i]
    <3>1. k + i \in 1 .. Len(Collected) + Len(u) /\ k + i > k /\ k + i - k = i
      BY <2>1
    <3>2. QED
      BY <1>1, <3>1, ConcatProperties DEF Stream
  <2>3. QED
    BY <2>1, <2>2
<1>3. OwnLines(s, n, v)
  OBVIOUS
<1> HIDE DEF s, k, u
<1>4. OwnLines(u, n, v)
  <2>1. k <= Len(s) /\ Len(u) = Len(s) - k
    BY <1>2
  <2>2. QED
    BY <1>1, <1>2, <1>3, <2>1, RestHasEnd
<1>5. ASSUME u # <<>> PROVE OwnLines(Tail(u), n, v)
  <2> DEFINE t == Tail(u)
             m == k + 1
  <2>1. /\ t \in Seq(Lines) /\ Len(t) = Len(u) - 1 /\ Len(u) # 0
        /\ \A i \in 1 .. Len(t) : t[i] = u[i + 1]
    BY <1>1, <1>5
  <2> HIDE DEF t
  <2>2. m \in Nat /\ m <= Len(s) /\ Len(t) = Len(s) - m
    BY <1>2, <2>1
  <2>3. ASSUME NEW i \in 1 .. Len(t) PROVE t[i] = s[m + i]
    <3>1. i + 1 \in 1 .. Len(u) /\ k + (i + 1) = m + i
      BY <1>2, <2>1
    <3>2. QED
      BY <1>2, <2>1, <3>1
  <2> HIDE DEF m
  <2>4. OwnLines(t, n, v)
    BY <1>1, <1>3, <2>1, <2>2, <2>3, RestHasEnd
  <2>5. QED
    BY <2>4 DEF t
<1>6. QED
  BY <1>4, <1>5 DEF u

LEMMA NoLinesBefore ==
  ASSUME AtTypes, Collected = <<>>
  PROVE  Stream = at_uart
<1>1. at_uart \in Seq(Lines)
  BY StreamIsLines
<1>2. QED
  BY <1>1, ConcatEmptySeq DEF Stream

\* The parser moves lines along, or forgets the first of them.
LEMMA ParserKeepsStream ==
  ASSUME AtTypes, at_parser_poll
  PROVE  Stream' = Stream \/ Stream' = at_uart \/ (at_uart # <<>> /\ Stream' = Tail(at_uart))
<1>1. /\ at_parse \in Parses /\ at_uart \in Seq(Lines) /\ at_parse.lines \in Seq(Lines)
      /\ AtTypes'
  BY ParserKeepsTypes, StreamIsLines DEF AtTypes, ParserTypes
<1>2. Collected' = <<>> => Stream' = at_uart'
  <2>1. at_uart' \in Seq(Lines)
    BY <1>1 DEF AtTypes, WorldTypes
  <2>2. Stream' = Collected' \o at_uart'
    BY DEF Stream
  <2>3. QED
    BY <2>1, <2>2, ConcatEmptySeq
<1>3. CASE ParserStart
  <2>1. /\ at_parse.parser = "START" /\ at_parse'.parser = "READ_LINE" /\ at_parse'.lines = <<>>
        /\ at_uart' = at_uart
    BY <1>1, <1>3 DEF ParserStart, Parses
  <2>2. Collected' = <<>>
    BY <2>1 DEF Collected
  <2>3. QED
    BY <1>2, <2>1, <2>2
<1>4. CASE BeginLine
  <2>1. /\ at_parse.parser = "READ_LINE" /\ at_parse'.parser = "READ_LINE"
        /\ at_parse'.lines = at_parse.lines /\ at_uart' = at_uart
    BY <1>1, <1>4 DEF BeginLine, Parses
  <2>2. Collected' = Collected
    BY <2>1 DEF Collected
  <2>3. QED
    BY <2>1, <2>2 DEF Stream
<1>5. CASE NoLine
  BY <1>5 DEF NoLine, parser_vars, Stream, Collected
<1>6. CASE ParseUrc
  <2>1. at_parse'.parser = "START" /\ at_uart' = at_uart
    BY <1>1, <1>6 DEF ParseUrc, Parses
  <2>2. QED
    BY <1>2, <2>1 DEF Collected
<1>7. CASE at_recv_readline
  <2>1. at_uart # <<>> /\ at_uart' = Tail(at_uart) /\ at_parse.parser = "READ_LINE"
    BY <1>7 DEF at_recv_readline
  <2>2. CASE Head(at_uart).kind = "long"
    <3>1. at_parse' = [at_parse EXCEPT !.parser = "START", !.rl = "BUFF_FULL"]
      BY <1>7, <2>2 DEF at_recv_readline
    <3>2. at_parse'.parser = "START"
      BY <1>1, <3>1 DEF Parses
    <3>3. QED
      BY <1>2, <2>1, <3>2 DEF Collected
  <2>3. CASE Head(at_uart).kind # "long"
    <3>1. /\ at_line' = Head(at_uart)
          /\ at_parse' = [at_parse EXCEPT !.parser = "PARSE_LINE", !.rl = "READ_LINE_OK"]
      BY <1>7, <2>3 DEF at_recv_readline
    <3>2. at_parse'.parser = "PARSE_LINE" /\ at_parse'.lines = at_parse.lines
      BY <1>1, <3>1 DEF Parses
    <3> DEFINE l == at_parse.lines
               h == Head(at_uart)
               t == Tail(at_uart)
    <3>3. Collected = l /\ Collected' = Append(l, h)
      BY <2>1, <3>1, <3>2 DEF Collected
    <3>4. l \in Seq(Lines) /\ h \in Lines /\ t \in Seq(Lines) /\ at_uart = <<h>> \o t
      BY <1>1, <2>1
    <3> HIDE DEF l, h, t
    <3>5. Append(l, h) = l \o <<h>> /\ <<h>> \in Seq(Lines)
      BY <3>4, AppendIsConcat
    <3>6. (l \o <<h>>) \o t = l \o (<<h>> \o t)
      BY <3>4, <3>5, ConcatAssociative
    <3>7. QED
      BY <2>1, <3>3, <3>4, <3>5, <3>6 DEF Stream, t
  <2>4. QED
    BY <2>2, <2>3
<1>8. CASE ParseAnswer
  <2>1. at_parse.parser = "PARSE_LINE" /\ at_uart' = at_uart
    BY <1>8 DEF ParseAnswer
  <2>2. \/ at_parse' = [at_parse EXCEPT !.parser = "START", !.lines = LinesWith(at_line)]
        \/ at_parse' = [at_parse EXCEPT !.parser = "READ_LINE", !.rl = "START", !.lines = LinesWith(at_line)]
    BY <1>8 DEF ParseAnswer
  <2>3. at_parse'.lines = LinesWith(at_line) /\ at_parse'.parser \in {"START", "READ_LINE"}
    <3> DEFINE lines == LinesWith(at_line)
    <3> HIDE DEF lines
    <3>1. QED
      BY <1>1, <2>2 DEF Parses, lines
  <2>4. CASE at_parse'.parser = "START" \/ LinesWith(at_line) = <<>>
    <3>1. Collected' = <<>>
      BY <2>3, <2>4 DEF Collected
    <3>2. QED
      BY <1>2, <2>1, <3>1
  <2>5. CASE at_parse'.parser # "START" /\ LinesWith(at_line) # <<>>
    <3>1. LinesWith(at_line) = Append(at_parse.lines, at_line)
      BY <2>5 DEF LinesWith
    <3>2. Collected' = Collected
      BY <2>1, <2>3, <2>5, <3>1 DEF Collected
    <3>3. QED
      BY <2>1, <3>2 DEF Stream
  <2>6. QED
    BY <2>4, <2>5
<1>9. QED
  BY <1>3, <1>4, <1>5, <1>6, <1>7, <1>8 DEF at_parser_poll

\* The response grows without an end of an answer, and with its end the command
\* hears of it.
LEMMA ParserKeepsResponse ==
  ASSUME AtTypes, WaitsInCall, CallsAreCounted, PromptHolds, prompt, at_parse.line_num = 0,
         GrowsWithoutEnd, OwnLines(Stream, at_call.n, at_modem.urcs),
         at_parser_poll
  PROVE  /\ GrowsWithoutEnd'
         /\ OwnLines(Stream', at_call.n, at_modem'.urcs)
         /\ resp_notice'.value > 0 => Response(at_parse'.lines, at_status'.status, at_call.n, at_modem'.urcs)
<1>1. /\ at_parse \in Parses /\ resp_notice \in Notices /\ at_call \in Calls /\ at_call.n \in Nat
      /\ at_modem.urcs \in Nat /\ at_modem' = at_modem
      /\ at_parse.lines \in Seq(Lines) /\ Stream \in Seq(Lines) /\ at_uart \in Seq(Lines)
  BY StreamIsLines DEF AtTypes, ParserTypes, CommandTypes, Calls, WorldTypes, Modems, at_parser_poll, env_vars
<1>2. EndsAreExpected /\ resp_notice.value = 0
  BY <1>1 DEF PromptHolds, NoticeIsFresh, at_parser_poll, Notices
<1>3. OwnLines(Stream', at_call.n, at_modem'.urcs)
  BY <1>1, ParserKeepsStream, UartIsRest
<1>4. CASE ParserStart \/ BeginLine \/ NoLine \/ ParseUrc \/ at_recv_readline
  <2>1. resp_notice' = resp_notice
    BY <1>4 DEF ParserStart, BeginLine, NoLine, ParseUrc, at_recv_readline
  <2>2. GrowsWithoutEnd'
    <3>1. CASE ParserStart
      <4>1. at_parse'.lines = <<>>
        BY <1>1, <3>1 DEF ParserStart, Parses
      <4>2. QED
        BY <4>1 DEF GrowsWithoutEnd
    <3>2. CASE BeginLine
      <4>1. at_parse.parser # "START" /\ at_parse'.lines = at_parse.lines
        BY <1>1, <3>2 DEF BeginLine, Parses
      <4>2. QED
        BY <4>1 DEF GrowsWithoutEnd
    <3>3. CASE NoLine
      BY <3>3 DEF NoLine, parser_vars, GrowsWithoutEnd
    <3>4. CASE ParseUrc
      <4>1. at_parse'.parser = "START"
        BY <1>1, <3>4 DEF ParseUrc, Parses
      <4>2. QED
        BY <4>1 DEF GrowsWithoutEnd
    <3>5. CASE at_recv_readline
      <4>1. at_parse.parser # "START" /\ at_parse'.lines = at_parse.lines
        BY <1>1, <3>5 DEF at_recv_readline, Parses
      <4>2. QED
        BY <4>1 DEF GrowsWithoutEnd
    <3>6. QED
      BY <1>4, <3>1, <3>2, <3>3, <3>4, <3>5
  <2>3. QED
    BY <1>2, <1>3, <2>1, <2>2
<1>5. CASE ParseAnswer
  <2> DEFINE lines == LinesWith(at_line)
             end == EndOfAnswer(at_line, lines)
             had == at_parse.lines
  <2>1. at_parse.parser = "PARSE_LINE" /\ at_line \in Lines
    BY <1>5 DEF ParseAnswer, AtTypes, ParserTypes
  <2>2. had \in Seq(Lines) /\ \A i \in 1 .. Len(had) : had[i].kind \notin Ends
    BY <1>1, <2>1 DEF GrowsWithoutEnd
  <2>3. Collected = Append(had, at_line)
    BY <2>1 DEF Collected
  <2>4. lines = <<>> \/ lines = Append(had, at_line)
    BY DEF LinesWith
  <2>5. CASE end = "WAITING"
    <3>1. at_line.kind \notin Ends
      BY <2>5 DEF EndOfAnswer, Ends
    <3>2. resp_notice' = resp_notice
      BY <1>5, <2>5 DEF ParseAnswer
    <3>3. at_parse'.lines = lines
      <4>1. at_parse' = [at_parse EXCEPT !.parser = "READ_LINE", !.rl = "START", !.lines = lines]
        BY <1>5, <2>5 DEF ParseAnswer
      <4> HIDE DEF lines
      <4>2. QED
        BY <1>1, <4>1 DEF Parses
    <3> HIDE DEF lines, had
    <3>4. \A i \in 1 .. Len(lines) : lines[i].kind \notin Ends
      <4>1. CASE lines = <<>>
        BY <4>1
      <4>2. CASE lines = Append(had, at_line)
        <5>1. /\ Len(lines) = Len(had) + 1 /\ lines[Len(had) + 1] = at_line
              /\ \A i \in 1 .. Len(had) : lines[i] = had[i]
          BY <2>1, <2>2, <4>2, AppendProperties
        <5>2. \A i \in 1 .. Len(lines) : i = Len(had) + 1 \/ i \in 1 .. Len(had)
          BY <2>2, <5>1
        <5>3. QED
          BY <2>2, <3>1, <5>1, <5>2
      <4>3. QED
        BY <2>4, <4>1, <4>2
    <3>5. GrowsWithoutEnd'
      BY <3>3, <3>4 DEF GrowsWithoutEnd
    <3>6. QED
      BY <1>2, <1>3, <3>2, <3>5
  <2>6. CASE end # "WAITING"
    <3>1. at_line.kind \in Ends
      BY <2>6 DEF EndOfAnswer, Ends
    <3>2. at_line.of = at_call.n /\ at_call.n # 0
      <4>1. Expected(at_line.of)
        BY <1>2, <2>1, <3>1 DEF EndsAreExpected, InParser
      <4>2. at_call.kind # "none"
        BY <4>1 DEF Expected, WaitsInCall
      <4>3. QED
        BY <4>1, <4>2 DEF Expected, CallsAreCounted
    <3>3. at_parse'.lines = lines /\ at_parse'.parser = "START"
      <4>1. at_parse' = [at_parse EXCEPT !.parser = "START", !.lines = lines]
        BY <1>5, <2>6 DEF ParseAnswer
      <4> HIDE DEF lines
      <4>2. QED
        BY <1>1, <4>1 DEF Parses
    <3> HIDE DEF lines, had
    <3> DEFINE u == Append(had, at_line)
               s == Stream
    <3>4. /\ u \in Seq(Lines) /\ Len(u) = Len(had) + 1 /\ u[Len(had) + 1] = at_line
      BY <2>1, <2>2, AppendProperties
    <3>5. s = u \o at_uart
      BY <2>3 DEF Stream
    <3> HIDE DEF u
    <3>6. /\ Len(u) \in 1 .. Len(s) /\ (\A i \in 1 .. Len(u) : s[i] = u[i]) /\ u[Len(u)] = at_line
          /\ Len(u) \in 1 .. Len(u)
      <4>1. Len(had) \in Nat /\ Len(at_uart) \in Nat /\ Len(u) \in 1 .. Len(u)
        BY <1>1, <2>2, <3>4
      <4>2. Len(s) = Len(u) + Len(at_uart)
        BY <1>1, <3>4, <3>5, ConcatProperties
      <4>3. \A i \in 1 .. Len(u) : s[i] = u[i]
        BY <1>1, <3>4, <3>5, ConcatProperties
      <4> HIDE DEF s
      <4>4. QED
        BY <3>4, <4>1, <4>2, <4>3
    <3>7. s[Len(u)] = at_line
      BY <3>6
    <3>8. OneAnswer(s, at_call.n, at_modem.urcs)
      <4>1. ~NoAnswer(s)
        BY <3>2, <3>6, <3>7 DEF NoAnswer
      <4>2. QED
        BY <4>1 DEF OwnLines
    <3>9. /\ Response(u, end, at_call.n, at_modem.urcs)
          /\ Len(u) > RespLines => Response(<<>>, end, at_call.n, at_modem.urcs)
      <4>1. s \in Seq(Lines) /\ at_call.n \in Nat
        BY <1>1
      <4> HIDE DEF s
      <4>2. /\ s[Len(u)].of # 0 /\ s[Len(u)].kind \in Ends
            /\ s[Len(u)].kind = IF end = "OK" THEN "ok" ELSE "error"
        BY <2>6, <3>1, <3>2, <3>7 DEF EndOfAnswer, Ends
      <4> HIDE DEF end
      <4>3. \A i \in 1 .. Len(u) : u[i] = s[i]
        BY <3>6
      <4>4. QED
        BY <1>1, <3>4, <3>6, <3>8, <4>1, <4>2, <4>3, ResponseIsWhole
    <3>10. Response(lines, end, at_call.n, at_modem.urcs)
      <4>1. CASE Len(had) < RespLines
        BY <3>9, <4>1 DEF LinesWith, lines, had, u
      <4>2. CASE ~(Len(had) < RespLines)
        <5>1. Len(u) > RespLines
          BY <2>2, <3>4, <4>2, AtNumbers
        <5>2. lines = <<>>
          BY <4>2 DEF LinesWith, lines, had
        <5>3. QED
          BY <3>9, <5>1, <5>2
      <4>3. QED
        BY <4>1, <4>2
    <3>11. GrowsWithoutEnd'
      BY <3>3 DEF GrowsWithoutEnd
    <3>12. at_status'.status = end
      <4>1. at_status' = [status |-> end, of |-> at_line.of]
        BY <1>5, <2>6 DEF ParseAnswer, lines
      <4> HIDE DEF end
      <4>2. QED
        BY <4>1
    <3>13. QED
      BY <1>1, <1>3, <3>3, <3>10, <3>11, <3>12
  <2>7. QED
    BY <2>5, <2>6
<1>6. QED
  BY <1>4, <1>5 DEF at_parser_poll

\* Lines that arrive without loss come behind the others.
LEMMA NothingLost ==
  ASSUME NEW uart \in Seq(Lines), NEW lines \in Seq(Lines), ~Overflows(uart, lines)
  PROVE  Deliver(uart, lines) = uart \o lines
<1> DEFINE all == uart \o lines
<1>1. all \in Seq(Lines) /\ Len(all) = Len(uart) + Len(lines) /\ Len(all) \in Nat
  BY ConcatProperties
<1>2. Len(all) <= UartLines
  BY <1>1, AtNumbers DEF Overflows
<1>3. Deliver(uart, lines) = SubSeq(all, 1, Len(all))
  <2> DEFINE lost == IF Len(all) > UartLines THEN Len(all) - UartLines ELSE 0
  <2>1. lost = 0 /\ lost + 1 = 1
    BY <1>1, <1>2, AtNumbers
  <2>2. Deliver(uart, lines) = SubSeq(all, lost + 1, Len(all))
    BY DEF Deliver
  <2> HIDE DEF all, lost
  <2>3. QED
    BY <2>1, <2>2
<1> HIDE DEF all
<1>4. QED
  BY <1>1, <1>3, SubSeqFull DEF all

\* With a prompt modem only events arrive between two polls.
LEMMA ArrivalKeepsStream ==
  ASSUME AtTypes, prompt, at_parse.line_num = 0, PromptHolds, NEW n \in Nat,
         OwnLines(Stream, n, at_modem.urcs),
         ModemSends \/ UrcArrives, ~at_modem'.lost
  PROVE  OwnLines(Stream', n, at_modem'.urcs) /\ at_modem.urcs <= at_modem'.urcs
<1>1. at_modem.lines = <<>> /\ at_modem \in Modems
  BY DEF PromptHolds, AtTypes, WorldTypes
<1>2. PICK u \in ToSet(Urcs) :
        /\ at_uart' = Deliver(at_uart, <<[kind |-> u, of |-> 0]>>)
        /\ at_modem' = [at_modem EXCEPT !.urcs = @ + 1,
                                        !.lost = @ \/ Overflows(at_uart, <<[kind |-> u, of |-> 0]>>)]
  BY <1>1 DEF ModemSends, UrcArrives
<1> DEFINE e == <<[kind |-> u, of |-> 0]>>
<1>3. e \in Seq(Lines) /\ NoAnswer(e) /\ Len(e) = 1
  <2>1. u \in Kinds
    BY DEF Kinds
  <2>2. [kind |-> u, of |-> 0] \in Lines
    BY <2>1 DEF Lines
  <2>3. QED
    BY <2>2 DEF NoAnswer
<1>4. /\ at_uart' = Deliver(at_uart, e) /\ ~Overflows(at_uart, e)
      /\ at_modem.urcs \in Nat /\ at_modem'.urcs = at_modem.urcs + 1
  <2> DEFINE b == at_modem.lost \/ Overflows(at_uart, e)
             m == at_modem.urcs + 1
  <2>1. at_modem' = [at_modem EXCEPT !.urcs = m, !.lost = b]
    BY <1>2
  <2> HIDE DEF b, m
  <2>2. at_modem'.lost = b /\ at_modem'.urcs = m /\ at_modem.urcs \in Nat
    BY <1>1, <2>1 DEF Modems
  <2>3. QED
    BY <1>2, <2>2 DEF b, m
<1> HIDE DEF e
<1>5. /\ Collected \in Seq(Lines) /\ Stream \in Seq(Lines) /\ at_uart \in Seq(Lines)
  BY StreamIsLines
<1>6. Collected' = Collected
  BY DEF Collected, ModemSends, UrcArrives, parser_vars
<1>7. Stream' = Stream \o e
  <2>1. at_uart' = at_uart \o e
    BY <1>3, <1>4, <1>5, NothingLost
  <2>2. (Collected \o at_uart) \o e = Collected \o (at_uart \o e)
    BY <1>3, <1>5, ConcatAssociative
  <2>3. QED
    BY <1>6, <2>1, <2>2 DEF Stream
<1>8. OwnLines(Stream \o e, n, at_modem.urcs + Len(e))
  BY <1>3, <1>4, <1>5, EventsBehind
<1>9. QED
  BY <1>3, <1>4, <1>7, <1>8

\* A command is sent when nothing is left of an answer before.
LEMMA SendKeepsStream ==
  ASSUME AtTypes, AnswersEnd, prompt, at_parse.line_num = 0, PromptHolds, GrowsWithoutEnd,
         OwnLines(Stream, at_call.n, at_modem.urcs), at_call.n # 0,
         AT_CMD_SEND(Timeout), UNCHANGED <<prompt, parser_vars>>, ~at_modem'.lost
  PROVE  OwnLines(Stream', at_call.n, at_modem'.urcs) /\ at_modem'.urcs = at_modem.urcs
<1>1. Collected' = Collected
  BY DEF Collected, parser_vars
<1>2. CASE at_uart' = at_uart /\ at_modem' = at_modem
  BY <1>1, <1>2 DEF Stream
<1>3. CASE at_send = "SEND" /\ WriteCommand
  <2>1. PICK answer \in Answers \cup {<<>>} :
          /\ at_uart' = Deliver(at_uart, Tagged(answer))
          /\ at_modem' = [at_modem EXCEPT !.lost = @ \/ Overflows(at_uart, Tagged(answer))]
    BY <1>3 DEF WriteCommand
  <2> DEFINE e == Tagged(answer)
  <2>2. e \in Seq(Lines)
    BY TaggedAnswer
  <2>3. ~Overflows(at_uart, e) /\ at_modem'.urcs = at_modem.urcs /\ at_modem.urcs \in Nat
    <3> DEFINE b == at_modem.lost \/ Overflows(at_uart, e)
    <3>1. at_modem' = [at_modem EXCEPT !.lost = b] /\ at_modem \in Modems
      BY <2>1 DEF AtTypes, WorldTypes
    <3> HIDE DEF b
    <3>2. at_modem'.lost = b /\ at_modem'.urcs = at_modem.urcs /\ at_modem.urcs \in Nat
      BY <3>1 DEF Modems
    <3>3. QED
      BY <3>2 DEF b
  <2>4. NoAnswer(Stream) /\ Len(Stream) <= at_modem.urcs
    <3>1. EndsAreExpected
      BY DEF PromptHolds
    <3>2. NoEnds
      BY <1>3, <3>1, NoEndsLeft
    <3>3. QED
      BY <2>3, <3>2, NothingLeft
  <2>5. OwnLines(Stream \o e, at_call.n, at_modem.urcs)
    <3>1. Stream \in Seq(Lines)
      BY StreamIsLines
    <3>2. QED
      BY <2>3, <2>4, <3>1, AnswerBehindEvents
  <2> HIDE DEF e
  <2>6. Collected \in Seq(Lines) /\ at_uart \in Seq(Lines)
    BY StreamIsLines
  <2>7. Stream' = Stream \o e
    <3>1. at_uart' = at_uart \o e
      BY <2>1, <2>2, <2>3, <2>6, NothingLost DEF e
    <3>2. (Collected \o at_uart) \o e = Collected \o (at_uart \o e)
      BY <2>2, <2>6, ConcatAssociative
    <3>3. QED
      BY <1>1, <3>1, <3>2 DEF Stream
  <2>8. QED
    BY <2>3, <2>5, <2>7
<1>4. QED
  BY <1>2, <1>3, SendMoves

\* A call that returns takes the response whose end was parsed.
LEMMA ReturnTakesResponse ==
  ASSUME AtTypes, at_cmd_common \/ ExSend
  PROVE  \/ at_result' = at_result
         \/ /\ resp_notice.value > 0 /\ at_result'.lines = at_parse.lines
            /\ at_result'.status = at_status.status
<1>1. AT_CMD_SEND(Timeout)
  BY DEF at_cmd_common, ExSend
<1>2. at_send' = "REVOK" => resp_notice.value > 0
  <2>1. SUFFICES ASSUME at_send' = "REVOK" PROVE resp_notice.value > 0
    OBVIOUS
  <2>2. PICK take : /\ take = sdk_os_sem_take(resp_notice, Timeout, at_now)
                    /\ at_send' = "REVOK" <=> take.status = "OK"
    BY <1>1, <2>1, SendMoves
  <2>3. resp_notice \in Notices /\ at_now \in Ticks
    BY DEF AtTypes, CommandTypes, WorldTypes
  <2>4. QED
    BY <2>1, <2>2, <2>3, TakeNotice
<1>3. \A status : Return(status) => at_result'.lines = at_parse.lines /\ at_result'.status = status
  BY DEF Return
<1>4. CASE at_cmd_common
  BY <1>2, <1>3, <1>4 DEF at_cmd_common, Waiting
<1>5. CASE ExSend
  <2>1. CASE at_send' = "REVOK" /\ at_status.status = "OK"
    BY <1>2, <1>3, <1>5, <2>1 DEF ExSend, NotAccepted, Waiting
  <2>2. CASE at_send' = "REVOK" /\ at_status.status = "BUFF_FULL"
    BY <1>2, <1>3, <1>5, <2>2 DEF ExSend
  <2>3. CASE at_send' = "REVOK" /\ at_status.status = "ERROR"
    BY <1>5, <2>3 DEF ExSend, NotAccepted, Waiting
  <2>4. CASE at_send' = "TIMEOUT"
    BY <1>5, <2>4 DEF ExSend, NotAccepted, Waiting
  <2>5. CASE at_send' \notin {"REVOK", "TIMEOUT"}
    BY <1>5, <2>5 DEF ExSend, Waiting
  <2>6. at_status.status \in Statuses
    BY DEF AtTypes, ParserTypes
  <2>7. QED
    BY <2>1, <2>2, <2>3, <2>4, <2>5, <2>6 DEF Statuses
<1>6. QED
  BY <1>4, <1>5

LEMMA RoundKeepsResponse ==
  ASSUME AtTypes, WaitsInCall, CallsAreCounted, AnswersEnd, PromptHolds, PromptHolds',
         prompt, at_parse.line_num = 0, NEW ticks \in {0, 1}, Round(ticks),
         ~at_modem.lost, ~at_modem'.lost, ResponseHolds
  PROVE  ResponseHolds'
<1>1. /\ UNCHANGED <<prompt, parser_vars>> /\ at_turn' = "parser"
      /\ at_parse' = at_parse /\ Collected' = Collected /\ GrowsWithoutEnd'
      /\ at_modem.urcs \in Nat
  BY DEF Round, parser_vars, Collected, ResponseHolds, GrowsWithoutEnd, AtTypes, WorldTypes, Modems
<1>2. /\ OwnLines(Stream, at_call.n, at_modem.urcs)
      /\ resp_notice.value > 0 => Response(at_parse.lines, at_status.status, at_call.n, at_modem.urcs)
      /\ at_result.status \in {"OK", "ERROR"} =>
           Response(at_result.lines, at_result.status, at_call.n, at_modem.urcs)
      /\ GrowsWithoutEnd
  BY DEF ResponseHolds
<1>3. ~(resp_notice'.value > 0)
  BY <1>1 DEF PromptHolds, NoticeIsFresh
<1>4. SUFFICES /\ OwnLines(Stream', at_call'.n, at_modem'.urcs)
               /\ at_result'.status \in {"OK", "ERROR"} =>
                    Response(at_result'.lines, at_result'.status, at_call'.n, at_modem'.urcs)
  BY <1>1, <1>3 DEF ResponseHolds
<1>5. CASE at_obj_set_urc_table \/ Idle \/ StartCall
  <2>1. /\ at_call.kind = "none" /\ at_uart' = at_uart /\ at_modem' = at_modem
        /\ \/ at_call' = at_call /\ at_result' = at_result
           \/ at_result'.status = "none"
    BY <1>5, IdlePoll
  <2>2. NoEnds
    BY <2>1, NoEndsLeft DEF PromptHolds, WaitsInCall
  <2>3. NoAnswer(Stream) /\ Len(Stream) <= at_modem.urcs
    BY <1>1, <1>2, <2>2, NothingLeft
  <2>4. Stream' = Stream
    BY <1>1, <2>1 DEF Stream
  <2>5. OwnLines(Stream', at_call'.n, at_modem'.urcs)
    BY <2>1, <2>3, <2>4 DEF OwnLines
  <2>6. QED
    BY <1>2, <2>1, <2>5
<1>6. CASE at_cmd_common \/ (at_call.kind = "ex" /\ ExSend)
  <2>1. AT_CMD_SEND(Timeout) /\ at_call'.n = at_call.n /\ at_call.n # 0
    BY <1>6, CommonPoll, ExSendPoll DEF CallsAreCounted
  <2>2. OwnLines(Stream', at_call.n, at_modem'.urcs) /\ at_modem'.urcs = at_modem.urcs
    BY <1>1, <1>2, <2>1, SendKeepsStream
  <2>3. \/ at_result' = at_result
        \/ /\ resp_notice.value > 0 /\ at_result'.lines = at_parse.lines
           /\ at_result'.status = at_status.status
    BY <1>6, ReturnTakesResponse
  <2>4. QED
    BY <1>2, <2>1, <2>2, <2>3
<1>7. CASE /\ at_call.kind = "ex" /\ (ExStart \/ ExRetry \/ ExWaitSend \/ ExTimeout)
           /\ UNCHANGED <<at_send, resp_notice, at_uart, at_modem>>
  <2>1. at_call'.n = at_call.n /\ (at_result' = at_result \/ at_result'.status = "TIMEOUT")
    BY <1>7, ExOtherPoll
  <2>2. Stream' = Stream /\ at_modem' = at_modem
    BY <1>1, <1>7 DEF Stream
  <2>3. QED
    BY <1>2, <2>1, <2>2
<1>8. QED
  BY <1>5, <1>6, <1>7, PollCases

\* A call has a number, and a line that was lost stays lost.
LEMMA CallsStayCounted ==
  ASSUME AtTypes, CallsAreCounted, AtNext
  PROVE  CallsAreCounted' /\ (at_modem.lost => at_modem'.lost)
<1>1. at_modem \in Modems /\ at_call \in Calls
  BY DEF AtTypes, WorldTypes, CommandTypes
<1>2. CASE at_parser_poll
  BY <1>2 DEF at_parser_poll, env_vars, cmd_vars, CallsAreCounted
<1>3. CASE ModemSends \/ UrcArrives
  <2>1. at_call' = at_call
    BY <1>3 DEF ModemSends, UrcArrives, cmd_vars
  <2>2. ASSUME at_modem.lost PROVE at_modem'.lost
    <3>1. CASE ModemSends
      <4> DEFINE b == at_modem.lost \/ Overflows(at_uart, <<Head(at_modem.lines)>>)
                 t == Tail(at_modem.lines)
      <4>1. at_modem' = [at_modem EXCEPT !.lines = t, !.lost = b]
        BY <3>1 DEF ModemSends
      <4>2. b
        BY <2>2
      <4> HIDE DEF b, t
      <4>3. QED
        BY <1>1, <4>1, <4>2 DEF Modems
    <3>2. CASE UrcArrives
      <4>1. PICK u \in ToSet(Urcs) :
              at_modem' = [at_modem EXCEPT !.urcs = @ + 1,
                                           !.lost = @ \/ Overflows(at_uart, <<[kind |-> u, of |-> 0]>>)]
        BY <3>2 DEF UrcArrives
      <4> DEFINE b == at_modem.lost \/ Overflows(at_uart, <<[kind |-> u, of |-> 0]>>)
                 m == at_modem.urcs + 1
      <4>2. at_modem' = [at_modem EXCEPT !.urcs = m, !.lost = b]
        BY <4>1
      <4>3. b
        BY <2>2
      <4> HIDE DEF b, m
      <4>4. QED
        BY <1>1, <4>2, <4>3 DEF Modems
    <3>3. QED
      BY <1>3, <3>1, <3>2
  <2>3. QED
    BY <2>1, <2>2 DEF CallsAreCounted
<1>4. CASE CommandPoll
  <2>1. PICK ticks \in {0, 1} : Round(ticks)
    BY <1>4 DEF CommandPoll
  <2>2. CASE at_obj_set_urc_table \/ Idle \/ StartCall
    <3>1. at_modem' = at_modem
      BY <2>2, IdlePoll
    <3>2. CallsAreCounted'
      <4>1. CASE at_obj_set_urc_table \/ Idle
        BY <4>1 DEF at_obj_set_urc_table, Idle, cmd_vars, CallsAreCounted
      <4>2. CASE StartCall
        <5>1. PICK kind \in {"common", "ex"} : at_call' = [kind |-> kind, n |-> at_call.n + 1, sends |-> 0]
          BY <4>2 DEF StartCall
        <5>2. at_call.n \in Nat
          BY <1>1 DEF Calls
        <5>3. at_call'.n # 0
          BY <5>1, <5>2
        <5>4. QED
          BY <5>3 DEF CallsAreCounted
      <4>3. QED
        BY <2>2, <4>1, <4>2
    <3>3. QED
      BY <3>1, <3>2
  <2>3. CASE at_cmd_common \/ (at_call.kind = "ex" /\ ExSend)
    <3>1. AT_CMD_SEND(Timeout) /\ at_call'.n = at_call.n /\ at_call.kind # "none"
      BY <2>3, CommonPoll, ExSendPoll
    <3>2. ASSUME at_modem.lost PROVE at_modem'.lost
      <4>1. CASE at_modem' = at_modem
        BY <3>2, <4>1
      <4>2. CASE WriteCommand
        <5>1. PICK answer \in Answers \cup {<<>>} :
                \/ at_modem' = [at_modem EXCEPT !.lost = @ \/ Overflows(at_uart, Tagged(answer))]
                \/ at_modem' = [at_modem EXCEPT !.lines = Tagged(answer)]
          BY <4>2 DEF WriteCommand
        <5> DEFINE b == at_modem.lost \/ Overflows(at_uart, Tagged(answer))
                   t == Tagged(answer)
        <5>2. at_modem' = [at_modem EXCEPT !.lost = b] \/ at_modem' = [at_modem EXCEPT !.lines = t]
          BY <5>1
        <5>3. b
          BY <3>2
        <5> HIDE DEF b, t
        <5>4. CASE at_modem' = [at_modem EXCEPT !.lost = b]
          BY <1>1, <5>3, <5>4 DEF Modems
        <5>5. CASE at_modem' = [at_modem EXCEPT !.lines = t]
          BY <1>1, <3>2, <5>5 DEF Modems
        <5>6. QED
          BY <5>2, <5>4, <5>5
      <4>3. QED
        BY <3>1, <4>1, <4>2, SendMoves
    <3>3. QED
      BY <3>1, <3>2 DEF CallsAreCounted
  <2>4. CASE /\ at_call.kind = "ex" /\ (ExStart \/ ExRetry \/ ExWaitSend \/ ExTimeout)
             /\ UNCHANGED <<at_send, resp_notice, at_uart, at_modem>>
    BY <2>4, ExOtherPoll DEF CallsAreCounted
  <2>5. QED
    BY <2>1, <2>2, <2>3, <2>4, PollCases
<1>5. QED
  BY <1>2, <1>3, <1>4 DEF AtNext

LEMMA ResponseAlways ==
  ASSUME AnswersEnd
  PROVE  AtSpec => [](AtTypes /\ CallsAreCounted /\ ResponseHolds)
<1> DEFINE Inv == AtTypes /\ WaitsInCall /\ TriesCounted
           Resp == CallsAreCounted /\ ResponseHolds
<1>1. AtInit => Resp
  <2> SUFFICES ASSUME AtInit PROVE Resp
    OBVIOUS
  <2>1. at_parse.parser = "START" /\ at_uart = <<>> /\ at_call.kind = "none" /\ at_result.status = "none"
    BY DEF AtInit
  <2>2. resp_notice.value = 0
    BY DEF AtInit, sdk_os_sem_init, NoSem
  <2>3. Stream = <<>>
    BY <2>1 DEF Stream, Collected
  <2>4. OwnLines(Stream, at_call.n, at_modem.urcs)
    <3>1. at_modem.urcs = 0
      BY DEF AtInit
    <3>2. QED
      BY <2>3, <3>1 DEF NoAnswer, OwnLines
  <2>5. QED
    BY <2>1, <2>2, <2>4 DEF CallsAreCounted, ResponseHolds, GrowsWithoutEnd
<1>2. Inv /\ PromptHolds /\ PromptHolds' /\ Resp /\ [AtNext]_at_vars => Resp'
  <2> SUFFICES ASSUME Inv, PromptHolds, PromptHolds', Resp, [AtNext]_at_vars PROVE Resp'
    OBVIOUS
  <2>1. CASE UNCHANGED at_vars
    BY <2>1 DEF at_vars, CallsAreCounted, ResponseHolds, GrowsWithoutEnd, Stream, Collected
  <2>2. CASE AtNext
    <3>1. prompt' = prompt /\ at_parse'.line_num = at_parse.line_num
      BY <2>2, LineNumIsKept
    <3>2. CallsAreCounted' /\ (at_modem.lost => at_modem'.lost)
      BY <2>2, CallsStayCounted
    <3>3. SUFFICES ASSUME prompt, at_parse.line_num = 0, ~at_modem.lost, ~at_modem'.lost
                   PROVE  ResponseHolds'
      BY <3>1, <3>2 DEF ResponseHolds
    <3>4. /\ OwnLines(Stream, at_call.n, at_modem.urcs)
          /\ resp_notice.value > 0 => Response(at_parse.lines, at_status.status, at_call.n, at_modem.urcs)
          /\ at_result.status \in {"OK", "ERROR"} =>
               Response(at_result.lines, at_result.status, at_call.n, at_modem.urcs)
          /\ GrowsWithoutEnd
      BY <3>3 DEF ResponseHolds
    <3>5. CASE at_parser_poll
      <4>1. /\ GrowsWithoutEnd' /\ OwnLines(Stream', at_call.n, at_modem'.urcs)
            /\ resp_notice'.value > 0 => Response(at_parse'.lines, at_status'.status, at_call.n, at_modem'.urcs)
        BY <3>3, <3>4, <3>5, ParserKeepsResponse
      <4>2. at_call' = at_call /\ at_result' = at_result /\ at_modem' = at_modem
        BY <3>5 DEF at_parser_poll, cmd_vars, env_vars
      <4>3. QED
        BY <3>4, <4>1, <4>2 DEF ResponseHolds
    <3>6. CASE ModemSends \/ UrcArrives
      <4>1. at_call.n \in Nat /\ at_modem.urcs \in Nat /\ at_modem'.urcs \in Nat
        <5>1. AtTypes'
          BY <3>6, ArrivalKeepsTypes
        <5>2. QED
          BY <5>1 DEF AtTypes, CommandTypes, Calls, WorldTypes, Modems
      <4>2. OwnLines(Stream', at_call.n, at_modem'.urcs) /\ at_modem.urcs <= at_modem'.urcs
        BY <3>3, <3>4, <3>6, <4>1, ArrivalKeepsStream
      <4>3. /\ at_call' = at_call /\ at_result' = at_result /\ at_parse' = at_parse
            /\ resp_notice' = resp_notice /\ at_status' = at_status
        BY <3>6 DEF ModemSends, UrcArrives, cmd_vars, parser_vars
      <4>4. GrowsWithoutEnd'
        BY <3>4, <4>3 DEF GrowsWithoutEnd
      <4>5. /\ resp_notice.value > 0 =>
                 Response(at_parse.lines, at_status.status, at_call.n, at_modem'.urcs)
            /\ at_result.status \in {"OK", "ERROR"} =>
                 Response(at_result.lines, at_result.status, at_call.n, at_modem'.urcs)
        BY <3>4, <4>1, <4>2, ResponseStays
      <4>6. QED
        BY <4>2, <4>3, <4>4, <4>5 DEF ResponseHolds
    <3>7. CASE CommandPoll
      BY <3>3, <3>7, RoundKeepsResponse DEF CommandPoll
    <3>8. QED
      BY <2>2, <3>5, <3>6, <3>7 DEF AtNext
  <2>3. QED
    BY <2>1, <2>2
<1>3. Resp => CallsAreCounted /\ ResponseHolds
  OBVIOUS
<1>4. Inv => AtTypes
  OBVIOUS
<1> HIDE DEF Inv, Resp
<1>5. AtSpec => []Inv
  BY CallsAlways DEF Inv
<1>6. QED
  BY <1>1, <1>2, <1>3, <1>4, <1>5, PromptAlways, PTL DEF AtSpec

\* If the modem ends its answers and the UART loses nothing, the response of a
\* call that returns OK or ERROR is the end of the answer to its own command: events
\* and full buffers cost it lines at its beginning, and nothing of another command's
\* answer is ever among them.  Its last line is included and says what the status
\* says; or the response is empty as a whole, because that line did not fit, which
\* takes an answer that with the events there were is more than the buffer holds.
THEOREM ResponseIsOneAnswer ==
  ASSUME AnswersEnd
  PROVE  AtSpec => []AtResponseIsOneAnswer
<1>1. AtTypes /\ ResponseHolds => AtResponseIsOneAnswer
  <2>1. SUFFICES ASSUME AtTypes, ResponseHolds, prompt, at_parse.line_num = 0, ~at_modem.lost,
                        at_result.status \in {"OK", "ERROR"}
                 PROVE  \E answer \in Answers :
                          /\ Last(answer) = IF at_result.status = "OK" THEN "ok" ELSE "error"
                          /\ IF at_result.lines = <<>>
                               THEN Len(answer) + at_modem.urcs > RespLines
                               ELSE /\ AnswerLines(at_result.lines) # <<>>
                                    /\ IsSuffix(AnswerLines(at_result.lines), Tagged(answer))
    BY DEF AtResponseIsOneAnswer, Tagged
  <2>2. /\ Response(at_result.lines, at_result.status, at_call.n, at_modem.urcs)
        /\ at_result.lines \in Seq(Lines)
    BY <2>1 DEF ResponseHolds, AtTypes, CommandTypes, Results
  <2>3. QED
    BY <2>1, <2>2, EndIsSuffix
<1>2. QED
  BY <1>1, ResponseAlways, PTL

================================================================================
