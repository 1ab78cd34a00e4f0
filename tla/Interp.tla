------------------------------- MODULE Interp -------------------------------
(***************************************************************************)
(* A line of input becomes arguments (common/interp_backslash.c,           *)
(* interp_parse.c), and the current directory (rel_open.c), character by   *)
(* character: here the characters are what the code is about.              *)
(***************************************************************************)
EXTENDS Integers, Sequences, FiniteSets, SequencesExt

CONSTANTS
  ArgLists,    \* sequences of arguments to be passed through a line
  LineEnv,     \* the environment: sequence of [name, value]
  MaxArgs, BufSize,   \* MAXARGS and PARSE_BUFSIZE of the instance
  CdPaths, CdRoom     \* directories to change to; longest DirBase considered

VARIABLES
  lineIn,      \* the arguments meant
  lineOut,     \* what parse() made of the line
  DirBase,     \* the current directory as text
  dirWant,     \* and as the names leading to it (history)
  dirSound     \* nothing was taken out in front of a `..' (history)

lineVars == <<lineIn, lineOut>>
dirVars == <<DirBase, dirWant, dirSound>>

------------------------------------------------------------------------------
(* backslash(): what stands for a character after a backslash.  Quotes and   *)
(* `$' keep a backslash for parse(); a digit that begins no number is an     *)
(* ordinary character, and so is a backslash at the end.                     *)

Numeric == {"0"}
\* Mutant: quotes lose their backslash
EscapesBare(c) == IF c = "n" THEN <<"newline">> ELSE <<c>>
Escapes(c) ==
  CASE c = "n" -> <<"newline">>
    [] c = "s" -> <<" ">>
    [] c = "z" -> <<>>
    [] c \in {"\"", "'", "$"} -> <<"\\", c>>
    [] OTHER -> <<c>>

backslash(s) ==
  LET n == Len(s)
      out[k \in 1 .. n + 1] ==
        IF k > n THEN <<>>
        ELSE IF s[k] # "\\" THEN <<s[k]>> \o out[k + 1]
        ELSE IF k = n THEN <<"\\">>
        ELSE IF s[k + 1] \in Numeric THEN out[k + 1]
        ELSE Escapes(s[k + 1]) \o out[k + 2]
  IN  out[1]

------------------------------------------------------------------------------
(* parse().                                                                  *)

Blank == {" ", "newline"}
Closing(c) == IF c = "{" THEN "}" ELSE IF c = "(" THEN ")" ELSE ""
Getenv(name) ==
  LET at == {i \in 1 .. Len(LineEnv) : LineEnv[i].name = name}
  IN  IF at = {} THEN <<>> ELSE LineEnv[Min(at)].value

\* one character, or one variable, in state STR: [rest, buf, args, quote, err, over].
\* insert() refuses an argument too many, a full buffer another character;
\* state WHITE has nothing to it but skipping blanks.
Insert(st) ==
  IF st.buf = <<>> THEN st
  ELSE IF Len(st.args) >= MaxArgs THEN [st EXCEPT !.err = TRUE]
  ELSE [st EXCEPT !.args = Append(@, st.buf), !.buf = <<>>]
Put(st, c, n) ==
  IF Len(st.buf) = BufSize - 1 THEN [st EXCEPT !.err = TRUE]
  ELSE [st EXCEPT !.buf = Append(@, c), !.rest = SubSeq(@, n + 1, Len(@))]
Skip(st, n) == [st EXCEPT !.rest = SubSeq(@, n + 1, Len(@))]

\* a value is cut to the length of an empty buffer; if the buffer is not empty,
\* what follows may be written behind it (over), and nothing more is known
Variable(st) ==
  LET token == IF Len(st.rest) > 1 THEN Closing(st.rest[2]) ELSE ""
      from == IF token = "" THEN 2 ELSE 3
      ends == {i \in from .. Len(st.rest) : IF token = "" THEN st.rest[i] \in Blank ELSE st.rest[i] = token}
      q == IF ends = {} THEN Len(st.rest) + 1 ELSE Min(ends)
      val == Getenv(SubSeq(st.rest, from, q - 1))
      put == SubSeq(val, 1, Min({Len(val), BufSize - 1}))
  IN  IF token # "" /\ ends = {} THEN [st EXCEPT !.err = TRUE]
      ELSE IF Len(st.buf) + Len(put) >= BufSize THEN [st EXCEPT !.over = TRUE, !.rest = <<>>]
      ELSE Skip([st EXCEPT !.buf = @ \o put], q - (IF token = "" THEN 1 ELSE 0))

\* one kind of quote ends the other: either only toggles
ParseStep(st) ==
  LET c == st.rest[1]
  IN  IF c = "#" /\ st.quote = "" THEN [st EXCEPT !.rest = <<>>]
      ELSE IF c = "\\" /\ Len(st.rest) > 1 THEN Put(Skip(st, 1), st.rest[2], 1)
      ELSE IF c \in {"\"", "'"}
      THEN Skip([st EXCEPT !.quote = IF @ = "" THEN c ELSE ""], 1)
      ELSE IF c \in Blank /\ st.quote = "" THEN Skip(Insert(st), 1)
      ELSE IF c = "$" THEN Variable(st)
      ELSE Put(st, c, 1)

parse(s) ==
  LET start == [rest |-> backslash(s), buf |-> <<>>, args |-> <<>>, quote |-> "", err |-> FALSE, over |-> FALSE]
      end == FoldLeft(LAMBDA st, i : IF st.rest = <<>> \/ st.err THEN st ELSE ParseStep(st),
                      start, [i \in 1 .. Len(s) |-> i])
      done == IF end.err THEN end ELSE Insert(end)
  IN  [res |-> IF end.over THEN "over" ELSE IF done.err THEN "fail" ELSE "ok", args |-> done.args]

\* how a line says what it means: each argument in quotes, what has a meaning
\* of its own behind a backslash, a backslash behind three
Quoted(arg) ==
  FoldLeft(LAMBDA acc, c : acc \o (IF c = "\\" THEN <<"\\", "\\", "\\", "\\">>
                                   ELSE IF c \in {"\"", "'", "$"} THEN <<"\\", c>> ELSE <<c>>),
           <<"\"">>, arg) \o <<"\"">>
Line(args) == FoldLeft(LAMBDA acc, a : acc \o Quoted(a) \o <<" ">>, <<>>, args)
\* and a line with a variable in the middle of an argument
LineOf(in) ==
  IF in.var = <<>> THEN Line(in.args)
  ELSE Line(in.args) \o <<"a", "$", "{">> \o in.var \o <<"}", "a", "#">>
Meant(in) == IF in.var = <<>> THEN in.args ELSE Append(in.args, <<"a">> \o Getenv(in.var) \o <<"a">>)

NoLine == [res |-> "none", args |-> <<>>]
ParseLine ==
  /\ lineOut = NoLine
  /\ lineOut' = parse(LineOf(lineIn))
  /\ UNCHANGED <<lineIn, dirVars>>

------------------------------------------------------------------------------
(* chdir(): the text is copied over itself while `..' and doubled slashes    *)
(* are taken out; s reads, w writes, b is where the name being read began    *)
(* and p the one before it.                                                  *)

IsUp(st) == st.s - st.b = 2 /\ st.text[st.b] = "." /\ st.text[st.b + 1] = "."
SlashesAfter(text, s) ==
  LET other == {i \in s + 1 .. Len(text) : text[i] # "/"}
  IN  IF other = {} THEN Len(text) ELSE Min(other) - 1

ChdirStep(st) ==
  LET slash == st.text[st.s] = "/"
      up == slash /\ IsUp(st)
      s == IF slash THEN SlashesAfter(st.text, st.s) ELSE st.s
      w == IF up THEN st.p ELSE st.w
  IN  [text |-> [st.text EXCEPT ![w] = st.text[s]], s |-> s + 1, w |-> w + 1,
       p |-> IF slash /\ ~ up THEN st.b ELSE st.p,
       b |-> IF slash /\ ~ up THEN st.s + 1 ELSE st.b]

Normal(base) ==
  LET end == FoldLeft(LAMBDA st, i : IF st.s > Len(base) THEN st ELSE ChdirStep(st),
                      [text |-> base, s |-> 1, w |-> 1, p |-> 1, b |-> 1], base)
      w == IF IsUp([end EXCEPT !.text = @ \o <<"">>]) THEN end.p ELSE end.w
      kept == {i \in 1 .. w - 1 : end.text[i] # "/"}
  IN  (IF kept = {} THEN <<>> ELSE SubSeq(end.text, 1, CHOOSE i \in kept : \A j \in kept : j <= i)) \o <<"/">>

\* a path from the root, or one from DirBase without its last slashes
Trimmed(path) ==
  LET names == {i \in 1 .. Len(path) : path[i] # "/"}
  IN  IF names = {} THEN <<>> ELSE SubSeq(path, 1, CHOOSE i \in names : \A j \in names : j <= i)
Based(path) == IF path # <<>> /\ path[1] = "/" THEN path ELSE DirBase \o Trimmed(path)

\* the names of a path, and where they lead
NamesIn(path) ==
  {<<i, j>> \in (1 .. Len(path)) \X (1 .. Len(path)) :
     /\ i <= j /\ \A k \in i .. j : path[k] # "/"
     /\ (i = 1 \/ path[i - 1] = "/") /\ (j = Len(path) \/ path[j + 1] = "/")}
Components(path) ==
  LET cs == SetToSortSeq(NamesIn(path), LAMBDA x, y : x[1] < y[1])
  IN  [i \in 1 .. Len(cs) |-> SubSeq(path, cs[i][1], cs[i][2])]
Up == <<".", ".">>
Resolve(from, path) ==
  FoldLeft(LAMBDA at, c : IF c = <<".">> THEN at
                          ELSE IF c = Up THEN (IF at = <<>> THEN at ELSE Front(at))
                          ELSE Append(at, c),
           IF path # <<>> /\ path[1] = "/" THEN <<>> ELSE from, Components(path))

\* something is taken out of the text before place i: then w is behind s, and
\* p, which is a place in the text as it was, is no place for w
TakenOut(text, i) ==
  \/ \E x \in NamesIn(text) : x[1] < i /\ SubSeq(text, x[1], x[2]) = Up
  \/ \E k \in 1 .. i - 2 : text[k] = "/" /\ text[k + 1] = "/"
Sound(text) == \A x \in NamesIn(text) : SubSeq(text, x[1], x[2]) = Up => ~ TakenOut(text, x[1])

\* a directory that is there (stat() said so)
Chdir ==
  /\ \E path \in CdPaths :
       /\ Len(Based(path)) <= CdRoom
       /\ DirBase' = Normal(Based(path))
       /\ dirWant' = Resolve(dirWant, path)
       /\ dirSound' = (Sound(Based(path)) /\ (dirSound \/ path[1] = "/"))
  /\ UNCHANGED lineVars

------------------------------------------------------------------------------
LineInputs == [args : ArgLists, var : {<<>>} \cup {LineEnv[i].name : i \in 1 .. Len(LineEnv)}]
InterpInitWith(inputs) ==
  /\ lineIn \in inputs
  /\ lineOut = NoLine
  /\ DirBase = <<"/">> /\ dirWant = <<>> /\ dirSound = TRUE

\* A line that says what it means is taken apart into what was meant, and a
\* variable in it is put in as it is, unless there are too many arguments or
\* one is too long (parse()): then it is refused, if it is not a variable that
\* is too long for what is left of the buffer, which nothing checks.
ParseRight ==
  LET meant == SelectSeq(Meant(lineIn), LAMBDA a : a # <<>>)
      fits == Len(meant) <= MaxArgs /\ \A i \in 1 .. Len(meant) : Len(meant[i]) < BufSize
      varFits == Len(Getenv(lineIn.var)) + 1 < BufSize
  IN  lineOut # NoLine => IF fits THEN lineOut = [res |-> "ok", args |-> meant]
                          ELSE varFits => lineOut.res = "fail"

\* However one got there, the current directory is the one the `cd' commands
\* lead to (chdir()), as long as no `..' came after another one, or after a
\* doubled slash, in the text that chdir() takes apart; and again after one
\* that begins at the root.
DirRight == dirSound => Resolve(<<>>, DirBase) = dirWant

\* Lines mean what they say, and relative paths are relative to where one is.
InterpRight == ParseRight /\ DirRight
=============================================================================
