---------------------------- MODULE MultiScanner ----------------------------
(***************************************************************************)
(* The source files of one compilation: the multi_scanner of scanner.c,    *)
(* asked by the parser of Scopes for one token after the other.            *)
(* An include statement puts a file on top of the stack of open files; a   *)
(* file that has been read to its end is taken off again in the middle of  *)
(* whatever asked for the next token.                                      *)
(*                                                                         *)
(* A file is a sequence of include statements and words; a word stands for *)
(* a statement, or for the part of one that opens or closes a block.       *)
(* Token strings point into the source of the file they come from, so a    *)
(* token is kept with its file.                                            *)
(***************************************************************************)
EXTENDS Naturals, Sequences, FiniteSets, FiniteSetsExt

CONSTANTS
    Path,         \* the texts of paths an include can name
    Root,         \* the path given with -s
    Texts,        \* the contents files may have, by path
    Word,         \* what stands in them beside include statements
    HashOf,       \* hash(path)
    MAX_VISITED,  \* size of visited_hashes
    MAX_OPEN      \* size of scanners, file_paths and sources

Include == [type : {"include"}, path : Path]
Invalid == [type : {"invalid"}]   \* text scanner_scan_tok rejects

ASSUME RootAssumption == Root \in Path
ASSUME WordAssumption == \A w \in Word : w.type = "word"
ASSUME TextsAssumption ==
    \A t \in Texts : \A p \in Path : t[p] \in Seq(Word \cup Include \cup Invalid)
ASSUME HashAssumption == DOMAIN HashOf = Path
ASSUME LimitAssumption == MAX_VISITED \in Nat \ {0} /\ MAX_OPEN \in Nat \ {0}

VARIABLES
    text,     \* contents of the files
    visited,  \* paths of visited_hashes, in order
    open,     \* the scanners in use: file and next token of each
    managed,  \* files whose source is in memory
    tok,      \* last_tok
    phase,    \* "init", "parse", or how the parser has ended
    parsed    \* history: words parsed of each file

vars == <<text, visited, open, managed, tok, phase, parsed>>

EOF == [type |-> "eof"]
Values(s) == {s[i] : i \in DOMAIN s}
Paths(s) == {s[i].path : i \in DOMAIN s}

Init ==
    /\ text \in Texts
    /\ visited = << >>
    /\ open = << >>
    /\ managed = {}
    /\ tok = EOF
    /\ phase = "init"
    /\ parsed = [p \in Path |-> 0]

-----------------------------------------------------------------------------
\* Mutant of Seen: only the files still open are looked at.
SeenOpen(p) == \E i \in DOMAIN open : HashOf[open[i].path] = HashOf[p]

\* The files multi_scanner_visit will not open again.
Seen(p) == \E i \in DOMAIN visited : HashOf[visited[i]] = HashOf[p]

NoRoom == Len(visited) = MAX_VISITED \/ Len(open) = MAX_OPEN

\* Mutant of Unread: a file is at its end when its last word is next.
UnreadButLast(s) == {k \in DOMAIN s : s[k].pos < Len(text[s[k].path])}

\* multi_scanner_scan_tok on the stack s: the files at their end come off it,
\* and the topmost of the others gives the next token.
Unread(s) == {k \in DOMAIN s : s[k].pos <= Len(text[s[k].path])}
Depth(s) == Max(Unread(s) \cup {0})
NextToken(s) ==
    IF Depth(s) = 0 THEN EOF
    ELSE text[s[Depth(s)].path][s[Depth(s)].pos]

\* Mutants of Popped: the file a token is taken from does not move on; it comes
\* off with its last token.
PoppedStill(s) == SubSeq(s, 1, Depth(s))

PoppedEarly(s) ==
    LET d == Depth(s)
    IN  IF d > 0 /\ s[d].pos = Len(text[s[d].path])
        THEN SubSeq(s, 1, d - 1)
        ELSE [k \in 1 .. d |->
                IF k = d THEN [s[k] EXCEPT !.pos = @ + 1] ELSE s[k]]

\* The stack after that.
Popped(s) ==
    [k \in 1 .. Depth(s) |->
        IF k = Depth(s) THEN [s[k] EXCEPT !.pos = @ + 1] ELSE s[k]]

\* READ_TOK with the stack s and the sources m in memory: files that come off
\* give their source back; a word the scanner rejects ends the parser. Where the
\* parser may stop (whole) it looks for EOF; elsewhere it starts a statement there.
ReadTok(s, m, whole) ==
    /\ open' = Popped(s)
    /\ managed' = m \ Paths(SubSeq(s, Len(Popped(s)) + 1, Len(s)))
    /\ tok' = IF Depth(s) = 0 THEN EOF
              ELSE [type |-> NextToken(s).type, file |-> s[Depth(s)].path,
                    word |-> NextToken(s)]
    /\ phase' = IF NextToken(s).type = "invalid" THEN "failed"
                ELSE IF NextToken(s) # EOF THEN "parse"
                ELSE IF whole THEN "parsed"
                ELSE "lost"

Frame(p) == [path |-> p, pos |-> 1]

\* multi_scanner_visit(p), then READ_TOK.  The path is marked as visited before
\* the file is opened, which may fail; the source is managed before there is memory
\* for the copy of the path, and there may be none.
Visit(p) ==
    \/ /\ Seen(p)
       /\ ReadTok(open, managed, FALSE)
       /\ UNCHANGED visited
    \/ /\ ~Seen(p)
       /\ NoRoom
       /\ phase' = "failed"
       /\ UNCHANGED <<visited, open, managed, tok>>
    \/ /\ ~Seen(p)
       /\ ~NoRoom
       /\ visited' = Append(visited, p)
       /\ \/ ReadTok(Append(open, Frame(p)), managed \cup {p}, FALSE)
          \/ /\ phase' = "failed"
             /\ managed' \in {managed, managed \cup {p}}
             /\ UNCHANGED <<open, tok>>

\* init_multi_scanner and the READ_TOK of init_ast.
Begin ==
    /\ phase = "init"
    /\ Visit(Root)
    /\ UNCHANGED <<text, parsed>>

\* A statement, or a part of one, that stays within its file. After it the parser
\* may stop if that was the end of a statement of the program itself.
ParseWord(whole) ==
    /\ parsed' = [parsed EXCEPT ![tok.file] = @ + 1]
    /\ ReadTok(open, managed, whole)
    /\ UNCHANGED <<text, visited>>

\* A statement the parser refuses.
RejectWord ==
    /\ phase' = "failed"
    /\ UNCHANGED <<text, visited, open, managed, tok, parsed>>

\* An include statement.  parse_statment then parses the statement that follows
\* it, wherever that stands, without a look at EOF.
ParseInclude ==
    /\ phase = "parse"
    /\ tok.type = "include"
    /\ Visit(tok.word.path)
    /\ UNCHANGED <<text, parsed>>

\* main: print_error_trace if need be, then free_safe_gc.
Finish ==
    /\ phase \in {"parsed", "failed"}
    /\ managed' = {}
    /\ phase' = "over"
    /\ UNCHANGED <<text, visited, open, tok, parsed>>

-----------------------------------------------------------------------------
\* The sources in memory are those of the open files, so the token the parser
\* looks at points into one of them: taking a file off in the middle of a
\* request for a token never frees the text under the parser. The stack and the
\* table of visited files stay within their arrays (multi_scanner_scan_tok,
\* multi_scanner_visit).
SourcesLive ==
    /\ phase = "parse" => managed = Paths(open) /\ tok.file \in managed
    /\ Len(visited) <= MAX_VISITED
    /\ Len(open) <= MAX_OPEN

\* A program that parses has been parsed whole: every file an include statement
\* of a parsed file names, and every word of each of them, once.
Whole(p) == parsed[p] = Cardinality({i \in DOMAIN text[p] : text[p][i].type = "word"})
Included == UNION {{text[p][i].path : i \in {j \in DOMAIN text[p] :
                    text[p][j].type = "include"}} : p \in Values(visited)}
ParsedWhole ==
    phase = "parsed" =>
        /\ \A p \in Values(visited) : Whole(p)
        /\ Included \subseteq Values(visited)
        /\ \A p \in Path \ Values(visited) : parsed[p] = 0
=============================================================================
