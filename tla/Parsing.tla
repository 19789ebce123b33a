------------------------------ MODULE Parsing ------------------------------
(***************************************************************************)
(* How the command handlers cut a line into its parameters (Command.cpp)   *)
(* and what Utils.cpp does with strings.  The handlers find the spaces and *)
(* take substr() after substr() of what is left, with lengths that are     *)
(* computed and with positions that may lie behind the end.                *)
(*                                                                         *)
(* Strings are sequences of characters, positions start at 0 as in the     *)
(* code.  `line` grows by one character at a time and so becomes every     *)
(* line up to MaxLength.                                                   *)
(***************************************************************************)
EXTENDS Integers, Sequences, SequencesExt, FiniteSets, Sorting

CONSTANTS
    Letter, Digit, Other,   \* the characters, by class
    NameLimit,              \* what sendJoin resizes a channel's name to: 50 in the code
    NickLimit,              \* what check_characters allows a nickname: 63 in the code
    MaxLength               \* bound on the length of `line`

\* The characters the handlers look at.
SP == " "
HASH == "#"
COLON == ":"
COMMA == ","
CR == "CR"

Char == Letter \cup Digit \cup Other

ASSUME ParsingAssumption ==
    /\ {SP, HASH, COLON, COMMA} \subseteq Other
    /\ Letter \cap Digit = {}
    /\ {NameLimit, NickLimit, MaxLength} \subseteq Nat

VARIABLE line

\* A line starts with the name of a command, of which one character is enough here.
Init == \E c \in Letter : line = << c >>
Next == Len(line) < MaxLength /\ \E c \in Char : line' = Append(line, c)
Spec == Init /\ [][Next]_line

-----------------------------------------------------------------------------
(* std::string.                                                            *)

npos == -1

\* find() and find_first_of() of one character.  An int that holds npos is -1.
Find(s, c) == IF c \in ToSet(s) THEN SelectInSeq(s, LAMBDA x : x = c) - 1 ELSE npos

\* substr(pos, n): a negative n has become a huge size_t.  It throws if pos lies
\* behind the end: PastEnd.
PastEnd(s, pos) == pos > Len(s)
Substr(s, pos, n) ==
    SubSeq(s, pos + 1, IF n < 0 \/ pos + n > Len(s) THEN Len(s) ELSE pos + n)

-----------------------------------------------------------------------------
(* Utils.cpp, and the constructor of Command before a handler is called.   *)

\* Mutation: without the test for what is left.
SplitKeepsEnd(str, delimiter) ==
    LET splitted[s \in Seq(Char)] ==
          LET pos == Find(s, delimiter)
          IN  IF pos # npos THEN << Substr(s, 0, pos) >> \o splitted[Substr(s, pos + 1, npos)]
              ELSE << s >>
    IN  splitted[str]

split(str, delimiter) ==
    LET splitted[s \in Seq(Char)] ==
          LET pos == Find(s, delimiter)
          IN  IF pos # npos THEN << Substr(s, 0, pos) >> \o splitted[Substr(s, pos + 1, npos)]
              ELSE IF s # << >> THEN << s >> ELSE << >>
    IN  splitted[str]

\* isalpha and isdigit are asked about the result of a comparison: the character 0
\* or 1.
AsCharacter(comparison) == IF comparison THEN "SOH" ELSE "NUL"
isalpha(c) == c \in Letter
isdigit(c) == c \in Digit

\* Mutation: every character has to be a letter and a digit.
LettersAndDigits(str) ==
    /\ \A i \in DOMAIN str : isalpha(str[i]) /\ isdigit(str[i])
    /\ Len(str) < NickLimit

check_characters(str) ==
    /\ ~ \E i \in DOMAIN str : LET different == AsCharacter(str[i] # "NUL")
                               IN  isalpha(different) /\ isdigit(different)
    /\ Len(str) < NickLimit

\* Only a registered user's line loses its carriage return: the last character goes
\* if there is one anywhere.
query == IF Find(line, CR) # npos THEN Substr(line, 0, Len(line) - 1) ELSE line

-----------------------------------------------------------------------------
(***************************************************************************)
(* The handlers.  A line is cut into its parameters, ignored, or the       *)
(* handler throws, which ends the process.  The name of the command, which *)
(* JOIN, PRIVMSG and NOTICE want in capital letters, is not looked at.     *)
(***************************************************************************)
Throws == [ outcome |-> "throws", parameters |-> << >> ]
Ignored == [ outcome |-> "ignored", parameters |-> << >> ]
Cut(parameters) == [ outcome |-> "cut", parameters |-> parameters ]
CutForChannel(parameters) == [ outcome |-> "channel", parameters |-> parameters ]

\* They all begin alike: the first space, the character after it, the rest.
space(msg) == Find(msg, SP)
prefix_channel(msg) == Substr(msg, space(msg) + 1, 1)

\* Mutation: as if the prefix had to be followed by something.
RestThrowsAtEnd(msg) == PastEnd(msg, space(msg) + 3)

RestThrows(msg) == PastEnd(msg, space(msg) + 2)

rest(msg) == Substr(msg, space(msg) + 2, Len(msg) - space(msg))

joinInputFormatCheck(channel_name, prefix) ==
    prefix # << HASH >> \/ ToSet(channel_name) \cap {SP, COLON, COMMA} # {}

\* Mutation: no resize.
JoinUnlimited(msg) ==
    IF space(msg) = npos THEN Ignored
    ELSE IF RestThrows(msg) THEN Throws
    ELSE IF joinInputFormatCheck(rest(msg), prefix_channel(msg)) THEN Ignored
    ELSE Cut(<< rest(msg) >>)

sendJoin(msg) ==
    LET channel_name == Substr(rest(msg), 0, NameLimit)
    IN  IF space(msg) = npos THEN Ignored
        ELSE IF RestThrows(msg) THEN Throws
        ELSE IF joinInputFormatCheck(channel_name, prefix_channel(msg)) THEN Ignored
        ELSE Cut(<< channel_name >>)

\* Without a text, find_first_of gives -1 and the arithmetic makes the name the text.
sendPart(msg) ==
    LET temp == rest(msg)
        text == Substr(temp, Find(temp, SP) + 1, Len(temp) - Find(temp, SP))
        channel_name == Substr(temp, 0, Len(temp) - Len(text) - 1)
    IN  IF space(msg) = npos THEN Ignored
        ELSE IF RestThrows(msg) THEN Throws
        ELSE IF prefix_channel(msg) # << HASH >> THEN Ignored
        ELSE Cut(<< channel_name, text >>)

\* Mutation: the nickname is taken to the end of the line.
SecondToEnd(msg) ==
    LET temp == rest(msg)
        channel_name == Substr(temp, 0, Find(temp, SP))
        temp2 == Substr(temp, Find(temp, SP) + 1, Len(temp) - Len(channel_name) - 1)
    IN  IF space(msg) = npos THEN Ignored
        ELSE IF RestThrows(msg) THEN Throws
        ELSE IF Find(temp, SP) = npos \/ Find(temp2, SP) = npos THEN Ignored
        ELSE IF prefix_channel(msg) # << HASH >> THEN Ignored
        ELSE Cut(<< channel_name, temp2, Substr(temp2, Find(temp2, SP) + 1, npos) >>)

\* sendMode and sendKick: a channel, a mode or nickname, and the rest.
ThreeParameters(msg) ==
    LET temp == rest(msg)
        channel_name == Substr(temp, 0, Len(temp) - (Len(temp) - Find(temp, SP)))
        temp2 == Substr(temp, Find(temp, SP) + 1, Len(temp) - Len(channel_name) - 1)
        second == Substr(temp2, 0, Find(temp2, SP))
        third == Substr(temp2, Find(temp2, SP) + 1, Len(temp2) - Len(second) - 1)
    IN  IF space(msg) = npos THEN Ignored
        ELSE IF RestThrows(msg) THEN Throws
        ELSE IF Find(temp, SP) = npos \/ Find(temp2, SP) = npos THEN Ignored
        ELSE IF prefix_channel(msg) # << HASH >> THEN Ignored
        ELSE Cut(<< channel_name, second, third >>)

sendMode(msg) == ThreeParameters(msg)
sendKick(msg) == ThreeParameters(msg)

\* The character before the topic, and the one before the channel, may be any.
sendTopic(msg) ==
    LET temp == rest(msg)
        channel_name == Substr(temp, 0, Len(temp) - (Len(temp) - Find(temp, SP)))
    IN  IF space(msg) = npos THEN Ignored
        ELSE IF RestThrows(msg) THEN Throws
        ELSE IF Find(temp, SP) = npos THEN Ignored
        ELSE IF PastEnd(temp, Find(temp, SP) + 2) THEN Throws
        ELSE Cut(<< channel_name,
                    Substr(temp, Find(temp, SP) + 2, Len(temp) - Len(channel_name) - 1) >>)

\* sendPrivMsgUser: a receiver and the text.  A receiver with a # is a channel.
sendPrivMsgUser(msg) ==
    LET command_arg == Substr(msg, space(msg) + 1, Len(msg) - space(msg))
        nick_receiver == Substr(command_arg, 0, Find(command_arg, SP))
        text == Substr(command_arg, Find(command_arg, SP) + 1,
                       Len(command_arg) - Find(command_arg, SP))
    IN  IF space(msg) = npos \/ Find(command_arg, SP) = npos THEN Ignored
        ELSE IF Substr(nick_receiver, 0, 1) = << HASH >>
        THEN CutForChannel(<< Substr(nick_receiver, 1, Len(nick_receiver) - 1), text >>)
        ELSE Cut(<< nick_receiver, text >>)

\* register_nickname: the first word after the command.  If there is none, _args[0] is
\* the slot erase() has emptied, where the name of the command still stands.
args0(msg) == LET words == split(msg, SP) IN  IF Len(words) > 1 THEN words[2] ELSE words[1]
register_nickname(msg) ==
    LET word == args0(msg)
        new_nick == IF Find(word, CR) # npos THEN Substr(word, 0, Len(word) - 1) ELSE word
    IN  IF check_characters(new_nick) THEN Cut(<< new_nick >>) ELSE Ignored

\* sendFile: SEND, a nickname and a file.
sendFile(msg) ==
    LET temp == Substr(msg, space(msg) + 1, Len(msg) - space(msg))
        command2 == Substr(temp, 0, Len(temp) - (Len(temp) - Find(temp, SP)))
        temp2 == Substr(temp, Find(temp, SP) + 1, Len(temp) - Len(command2) - 1)
        nickname == Substr(temp2, 0, Find(temp2, SP))
    IN  IF \/ space(msg) = npos
           \/ Find(temp, SP) = npos \/ Find(temp2, SP) = npos THEN Ignored
        ELSE Cut(<< nickname, Substr(temp2, Find(temp2, SP) + 1, Len(temp2) - Len(nickname) - 1) >>)

-----------------------------------------------------------------------------
(* What is meant.  The reference cuts a line at the places of its spaces.  *)

Places(s, c) == Ascending({ i \in DOMAIN s : s[i] = c })

\* s cut at the first k of the characters c.
Pieces(s, c, k) ==
    LET cuts == SubSeq(Places(s, c), 1, Min({k, Len(Places(s, c))}))
    IN  [ i \in 1 .. (Len(cuts) + 1) |->
            SubSeq(s, IF i = 1 THEN 1 ELSE cuts[i - 1] + 1,
                      IF i > Len(cuts) THEN Len(s) ELSE cuts[i] - 1) ]

\* A line the constructor hands to a handler has a space (parse_command); without
\* one, because it was cut off with the carriage return, every handler returns.
Dispatched == SP \in ToSet(query)
Parameters == Pieces(query, SP, 1)[2]
ChannelGiven == Parameters # << >> /\ Head(Parameters) = HASH

\* The line with k parameters, the last of which takes all that is left; of a
\* channel, the # is gone.
WithChannel(k) ==
    LET pieces == Pieces(Tail(Parameters), SP, k - 1)
    IN  IF ChannelGiven /\ Len(pieces) = k THEN Cut(pieces) ELSE Ignored

\* A KICK with a channel and a nickname and nothing behind them.
WithoutReason == ChannelGiven /\ Len(Pieces(Tail(Parameters), SP, 2)) = 2

\* Whatever arithmetic the handlers do, what they cut out of a line that does not
\* make them throw is what stands between its spaces: the channel, the nickname,
\* the mode and all the rest, which may contain spaces (Command.cpp, sendPart,
\* sendMode, sendKick, sendPrivMsgUser, sendFile).  What becomes of a KICK without
\* a reason is the question of KickReasonIsOptional.
CutsAtSpaces ==
    Dispatched =>
      /\ Parameters # << >> =>
           /\ sendMode(query) = WithChannel(3)
           /\ WithoutReason \/ sendKick(query) = WithChannel(3)
           /\ sendPart(query) = IF WithChannel(2) # Ignored THEN WithChannel(2)
                                ELSE IF ChannelGiven THEN Cut(<< Tail(Parameters), Tail(Parameters) >>)
                                ELSE Ignored
      /\ sendPrivMsgUser(query) =
           LET pieces == Pieces(Parameters, SP, 1)
           IN  IF Len(pieces) < 2 THEN Ignored
               ELSE IF ChannelGiven THEN CutForChannel(<< Tail(pieces[1]), pieces[2] >>)
               ELSE Cut(pieces)
      /\ sendFile(query) = LET pieces == Pieces(Parameters, SP, 2)
                           IN  IF Len(pieces) = 3 THEN Cut(Tail(pieces)) ELSE Ignored

\* Command.cpp, above sendKick: "/kick #channel  nickname [reason] (KICK)".  A
\* channel and a nickname are enough.
KickReasonIsOptional ==
    Dispatched /\ WithoutReason /\ << >> \notin ToSet(Pieces(Tail(Parameters), SP, 2))
      => sendKick(query).outcome = "cut"

\* Exactly two kinds of lines end the process: those of JOIN, PART, MODE, KICK and
\* TOPIC that end with their first space, and a TOPIC that ends with the space after
\* its channel (Command.cpp, the substr() calls).
ThrowsExactlyWhen ==
    Dispatched =>
      /\ \A cut \in { sendJoin(query), sendPart(query), sendMode(query), sendKick(query) } :
           cut = Throws <=> Parameters = << >>
      /\ sendTopic(query) = Throws <=>
           \/ Parameters = << >>
           \/ LET pieces == Pieces(Tail(Parameters), SP, 1)
              IN  Len(pieces) = 2 /\ pieces[2] = << >>
      /\ sendPrivMsgUser(query) # Throws /\ sendFile(query) # Throws

\* The channel a JOIN creates can be named again in a PART and in a TOPIC with the
\* text the client used for it if and only if it has not been cut to NameLimit; and
\* JOIN takes no name in which another command would find a space (Command.cpp,
\* sendJoin).
JoinedChannelCanBeNamed ==
    Dispatched /\ sendJoin(query).outcome = "cut" =>
      LET name == sendJoin(query).parameters[1]
          given == Tail(Parameters)
          topic == sendTopic(query \o << SP, COLON, COLON >>)
      IN  /\ SP \notin ToSet(name)
          /\ SP \notin ToSet(given) =>
               /\ topic = Cut(<< given, << COLON >> >>)
               /\ sendPart(query).parameters[1] = name <=> Len(given) <= NameLimit

\* Utils.cpp, split: the pieces between the delimiters, without the last one if it is
\* empty; User::split takes the lines out of _buffer in the same way.
SplitsIntoPieces ==
    LET pieces == Pieces(line, SP, Len(line))
    IN  split(line, SP) = IF Last(pieces) = << >> THEN Front(pieces) ELSE pieces

\* The word behind NICK, and the nickname it stands for.
NickWord == LET pieces == Pieces(line, SP, 2) IN  IF Len(pieces) > 1 THEN pieces[2] ELSE << >>
GivenNick == IF CR \in ToSet(NickWord) /\ Last(NickWord) = CR THEN Front(NickWord) ELSE NickWord
NickIsGiven == NickWord # << >> /\ CR \notin ToSet(GivenNick)

\* NICK takes the word as it stands or not at all, and takes it if it is a short one
\* of letters and digits; and a PRIVMSG finds its receiver by each nickname but one
\* that begins with #: that goes to a channel (Command.cpp, register_nickname and
\* sendPrivMsgUser).
NicknameCanBeNamed ==
    LET message == Pieces(line, SP, 2)[1] \o << SP >> \o GivenNick \o << SP, COLON >>
    IN  NickIsGiven =>
          /\ register_nickname(line) \in { Ignored, Cut(<< GivenNick >>) }
          /\ ToSet(GivenNick) \subseteq Letter \cup Digit /\ Len(GivenNick) < NickLimit
               => register_nickname(line) # Ignored
          /\ sendPrivMsgUser(message) = Cut(<< GivenNick, << COLON >> >>)
               <=> GivenNick = << >> \/ Head(GivenNick) # HASH

\* Utils.cpp, check_characters: "Checks for characters a-z and digits 0-9 + size
\* <= 63 characters."
NicknameAsCommented ==
    NickIsGiven =>
      (register_nickname(line) # Ignored
         <=> ToSet(GivenNick) \subseteq Letter \cup Digit /\ Len(GivenNick) <= NickLimit)
=============================================================================
