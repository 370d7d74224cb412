------------------------------ MODULE SshCommand ------------------------------
(***************************************************************************)
(* The ssh preset of transports/ssh.rs: the argv it builds, read the way    *)
(* the ssh client and then the target's login shell read it.  A word is a   *)
(* sequence of characters; only the ones with a meaning on the way are      *)
(* told apart.                                                              *)
(***************************************************************************)
EXTENDS Naturals, Sequences, SequencesExt

CONSTANTS
    MaxPath,    \* characters of the remote path
    MaxArg      \* characters of a remote argument

ASSUME SshAssumption == MaxPath \in Nat /\ MaxArg \in Nat

Quote == "'"
Letters == {"a", Quote, "\\", " ", "~", "/", "-"}

Words(n) == UNION {[1 .. k -> Letters] : k \in 0 .. n}

Unset == <<>>                               \* Option::None
Some(w) == <<w>>

Opt(values) == {Unset} \union {Some(w) : w \in values}

Plain == <<"a">>

(* SshArgv: a plain call with any command, or any target for a plain command. *)
SshCalls ==
    [host : {Plain}, user : {Unset}, port : {Unset}, identity : {Unset}, timeout : {1},
     command : {<<>>} \union {<<p>> : p \in Words(MaxPath)}
               \union {<<p, a>> : p \in Words(MaxPath), a \in Words(MaxArg)}]
    \union
    [host : Words(2), user : Opt(Words(1)), port : Opt({0, 1}),
     identity : Opt({Plain, <<"-", "-">>, <<"-", "o">>}), timeout : {0, 1}, command : {<<>>, <<Plain>>}]

VARIABLES
    asked,    \* the options given to ssh_argv
    argv      \* what it answers: the check that refused, or the words

sshVars == <<asked, argv>>

NoCall == [host |-> Plain, user |-> Unset, port |-> Unset, identity |-> Unset, timeout |-> 1,
           command |-> <<Plain>>]

SshInit == asked = NoCall /\ argv = [refused |-> "unasked", words |-> <<>>]

-----------------------------------------------------------------------------
(* checked_host and checked_user                                             *)
Nameable(w) == w # <<>> /\ Head(w) # "-" /\ " " \notin ToSet(w)

FirstUnfit(o) ==
    CASE ~ Nameable(o.host) -> "host"
      [] o.user # Unset /\ ~ Nameable(o.user[1]) -> "user"
      [] o.timeout < 1 -> "connectTimeoutSeconds"
      [] o.command = <<>> \/ o.command[1] = <<>> -> "command"
      [] o.port # Unset /\ o.port[1] < 1 -> "port"
      [] OTHER -> "none"

MutUnescaped(c) == <<c>>

(* replace('\'', "'\\''"), of one character.                                 *)
Escaped(c) == IF c = Quote THEN <<Quote, "\\", Quote, Quote>> ELSE <<c>>

single_quote(w) ==
    <<Quote>> \o FoldLeft(LAMBDA text, c : text \o Escaped(c), <<>>, w) \o <<Quote>>

Homeward(path) == Len(path) >= 2 /\ path[1] = "~" /\ path[2] = "/"

quote_remote_path(path) ==
    IF Homeward(path) THEN <<"~", "/">> \o single_quote(SubSeq(path, 3, Len(path)))
                      ELSE single_quote(path)

(* The preset's own options are one pair of words here.                      *)
ssh_argv(o) ==
    << <<"-", "o">>, <<"B">> >>
    \o (IF o.identity = Unset THEN <<>>
          ELSE << <<"-", "o">>, <<"I">>, <<"-", "i">>, o.identity[1] >>)
    \o (IF o.port = Unset THEN <<>> ELSE << <<"-", "p">>, <<"1">> >>)
    \o << <<"-", "T">>, <<"-", "-">> >>
    \o <<(IF o.user = Unset THEN <<>> ELSE o.user[1] \o <<"@">>) \o o.host>>
    \o <<quote_remote_path(o.command[1])>>
    \o [i \in 1 .. Len(o.command) - 1 |-> single_quote(o.command[i + 1])]

SshNext ==
    /\ argv.refused = "unasked"
    /\ asked' \in SshCalls
    /\ argv' = [refused |-> FirstUnfit(asked'),
                words |-> IF FirstUnfit(asked') = "none" THEN ssh_argv(asked') ELSE <<>>]

-----------------------------------------------------------------------------
(* The client's getopt: an option letter that takes a value takes the next   *)
(* word whatever it is; "--" ends the options.                               *)
ReadOption(r, w) ==
    CASE r.want # "none" -> [r EXCEPT !.want = "none", !.set = Append(@, <<r.want, w>>)]
      [] r.done -> [r EXCEPT !.rest = Append(@, w)]
      [] w = <<"-", "-">> -> [r EXCEPT !.done = TRUE]
      [] w = <<"-", "T">> -> r
      [] Head(w) = "-" -> [r EXCEPT !.want = w[2]]
      [] OTHER -> [r EXCEPT !.done = TRUE, !.rest = Append(@, w)]

ClientReads(words) ==
    FoldLeft(ReadOption, [want |-> "none", set |-> <<>>, done |-> FALSE, rest |-> <<>>], words)

(* ssh joins what follows the destination with spaces.                       *)
CommandLine(words) ==
    FoldLeft(LAMBDA line, w : IF line = <<>> THEN w ELSE line \o <<" ">> \o w, <<>>, words)

(* A POSIX shell, character by character: outside quotes a space ends a word *)
(* and a backslash makes the next character literal; a tilde that starts a   *)
(* word is the home directory; inside quotes only a quote means anything.    *)
ReadChar(s, c) ==
    LET literal == [s EXCEPT !.mode = IF @ = "quoted" THEN @ ELSE "word", !.word = Append(@, c)]
    IN  CASE s.mode = "quoted" /\ c = Quote -> [s EXCEPT !.mode = "word"]
          [] s.mode \in {"quoted", "escape"} -> literal
          [] c = Quote -> [s EXCEPT !.mode = "quoted"]
          [] c = "\\" -> [s EXCEPT !.mode = "escape"]
          [] c = " " /\ s.mode = "word" ->
                [mode |-> "between", word |-> <<>>, words |-> Append(s.words, s.word)]
          [] c = " " -> s
          [] c = "~" /\ s.mode = "between" -> [s EXCEPT !.mode = "word", !.word = <<"HOME">>]
          [] OTHER -> literal

ShellReads(line) ==
    LET s == FoldLeft(ReadChar, [mode |-> "between", word |-> <<>>, words |-> <<>>], line)
    IN  IF s.mode = "word" THEN Append(s.words, s.word)
        ELSE IF s.mode = "between" THEN s.words ELSE << <<"unfinished">> >>

Meant(command) ==
    [command EXCEPT ![1] = IF Homeward(@) THEN <<"HOME">> \o Tail(@) ELSE @]

(* "every word is quoted for that shell", and "`--` so a host spelled like   *)
(* an option cannot become one": whatever characters the words hold, the     *)
(* login shell gets the remote path and arguments that were asked for, with  *)
(* the home directory in place of a leading ~/, and the client the           *)
(* destination, the identity file and the port.                              *)
RemoteCommandIsMeant ==
    argv.refused = "none" =>
        LET r == ClientReads(argv.words) IN
        /\ r.want = "none" /\ r.rest # <<>>
        /\ Head(r.rest) = (IF asked.user = Unset THEN <<>> ELSE asked.user[1] \o <<"@">>) \o asked.host
        /\ SelectSeq(r.set, LAMBDA s : s[1] = "i") =
             (IF asked.identity = Unset THEN <<>> ELSE << <<"i", asked.identity[1]>> >>)
        /\ (\E i \in DOMAIN r.set : r.set[i][1] = "p") <=> asked.port # Unset
        /\ ShellReads(CommandLine(Tail(r.rest))) = Meant(asked.command)
=============================================================================
