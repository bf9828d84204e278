------------------------------- MODULE Scopes -------------------------------
(***************************************************************************)
(* The frames, variables and blocks of the parser (ast.c), over the token  *)
(* stream of MultiScanner.                                                 *)
(*                                                                         *)
(* Every word of a file is what matters of a statement to the symbol       *)
(* tables: it declares a variable, uses one, opens or closes a block or a  *)
(* procedure.  A frame is pushed for each of the latter two; a variable is *)
(* looked up through the frames of its procedure and then among the        *)
(* globals, and a local gets a slot (scope_id) in the arrays the later     *)
(* passes and the emitted program keep for its procedure.                  *)
(***************************************************************************)
EXTENDS MultiScanner, SequencesExt

CONSTANTS
    Name,       \* identifiers
    ThisProc,   \* the identifier thisproc
    NoName,
    MAX_FRAMES  \* size of ast_parser.frames

ASSUME NameAssumption == ThisProc \in Name /\ NoName \notin Name
ASSUME OpAssumption ==
    \A w \in Word :
        /\ w.op \in {"do", "decl", "global", "use", "default", "open", "close", "proc"}
        /\ w.op \in {"decl", "global", "use", "default", "proc"} => w.name \in Name
        /\ w.op = "proc" => w.param \in Name \cup {NoName}
ASSUME FramesAssumption == MAX_FRAMES \in Nat \ {0}

VARIABLES
    parser,  \* frames and globals; history: declarations, scope_size of blocks
    owed     \* parse_code_block has yet to parse a statement

scopeVars == <<parser, owed>>
allVars == <<vars, scopeVars>>

\* A frame without a parent: a procedure, a record, or the program itself.
Outermost(block, returns, word) ==
    [locals |-> << >>, nested |-> FALSE, scoped |-> 0, max |-> 0,
     return_type |-> returns, block |-> block, proc |-> block, word |-> word]

ScopesInit ==
    /\ Init
    /\ parser = [frames |-> <<Outermost(1, FALSE, EOF)>>, globals |-> << >>,
                 decls |-> << >>, scope_size |-> <<0>>]
    /\ owed = TRUE

Top(ps) == ps.frames[Len(ps.frames)]
Larger(a, b) == IF a > b THEN a ELSE b

-----------------------------------------------------------------------------
\* ast_parser_new_frame: a block starts with the slots its parent has given out.
NewFrame(ps, nested, word) ==
    LET block == Len(ps.scope_size) + 1
    IN  [ps EXCEPT
          !.scope_size = Append(@, 0),
          !.frames = Append(@,
            IF nested
            THEN [Top(ps) EXCEPT !.locals = << >>, !.nested = TRUE,
                                 !.block = block, !.word = word]
            ELSE Outermost(block, TRUE, word))]

\* Mutant of CloseFrame: the parent does not hear how many slots a block needed.
CloseFrameQuietly(ps) ==
    [ps EXCEPT !.scope_size[Top(ps).block] = Top(ps).max, !.frames = Front(@)]

\* ast_parser_close_frame; scope_size is read just before it.
CloseFrame(ps) ==
    LET f == Top(ps)
        rest == Front(ps.frames)
    IN  [ps EXCEPT
          !.scope_size[f.block] = f.max,
          !.frames = IF f.nested
                     THEN [rest EXCEPT ![Len(rest)].max = Larger(@, f.max)]
                     ELSE rest]

\* The first variable of that name in a table of a frame or of globals.
Named(entries, n) == {i \in DOMAIN entries : entries[i].name = n}
First(entries, n) ==
    {entries[i].decl : i \in {k \in Named(entries, n) :
                                \A l \in Named(entries, n) : k <= l}}

\* Mutant of FindVar: the innermost frame only, then the globals.
FindVarInnermost(ps, n) ==
    IF Named(Top(ps).locals, n) # {} THEN First(Top(ps).locals, n)
    ELSE First(ps.globals, n)

\* ast_parser_find_var: the first variable of that name, from the innermost frame
\* out to the first one without a parent, then among the globals.
Chain(fs) == {j \in DOMAIN fs : \A k \in j + 1 .. Len(fs) : fs[k].nested}
FindVar(ps, n) ==
    LET hits == {j \in Chain(ps.frames) : Named(ps.frames[j].locals, n) # {}}
    IN  IF hits = {} THEN First(ps.globals, n)
        ELSE UNION {First(ps.frames[j].locals, n) :
                        j \in {k \in hits : \A l \in hits : l <= k}}

Undeclared(ps, n) == FindVar(ps, n) = {}

\* ast_parser_decl_var of an undeclared name.
DeclVar(ps, n, is_global) ==
    LET f == Top(ps)
        entry == [name |-> n, decl |-> Len(ps.decls) + 1]
        info == [name |-> n, is_global |-> is_global, block |-> f.block, proc |-> f.proc,
                 scope_id |-> IF is_global THEN Len(ps.globals) ELSE f.scoped]
        next == [ps EXCEPT !.decls = Append(@, info)]
    IN  IF is_global
        THEN [next EXCEPT !.globals = Append(@, entry)]
        ELSE [next EXCEPT !.frames[Len(ps.frames)] =
                [f EXCEPT !.locals = Append(@, entry), !.scoped = @ + 1,
                          !.max = Larger(@, f.scoped + 1)]]

-----------------------------------------------------------------------------
At(op) == phase = "parse" /\ tok.type = "word" /\ tok.word.op = op
Room == Len(parser.frames) < MAX_FRAMES
Outside(ps) == Len(ps.frames) = 1

\* The word is what the parser takes (ok) and leaves it as ps, or is refused. Where
\* in the middle of its tokens the parser refuses a statement makes no difference.
Take(ok, ps, opens) ==
    \/ /\ ok
       /\ parser' = ps
       /\ owed' = opens
       /\ ParseWord(Outside(ps) /\ ~opens)
    \/ /\ ~ok
       /\ RejectWord
       /\ UNCHANGED scopeVars

\* A statement without variables.
Do == At("do") /\ Take(TRUE, parser, FALSE)

\* parse_var_decl: "int n = ...;" and "global int n = ...;".
Declare ==
    /\ At("decl")
    /\ Take(Undeclared(parser, tok.word.name), DeclVar(parser, tok.word.name, FALSE), FALSE)

DeclareGlobal ==
    /\ At("global")
    /\ Take(~Top(parser).return_type /\ Undeclared(parser, tok.word.name),
            DeclVar(parser, tok.word.name, TRUE), FALSE)

\* A statement that names a variable.
Use ==
    /\ At("use")
    /\ Take(~Undeclared(parser, tok.word.name), parser, FALSE)

\* A record whose property has a default value that names a variable: the value is
\* parsed in a frame of the record.
RecordDefault ==
    /\ At("default")
    /\ Take(/\ ~Top(parser).return_type
            /\ Room
            /\ ~Undeclared(NewFrame(parser, FALSE, tok.word), tok.word.name),
            parser, FALSE)

\* parse_if_else and the loops: the condition, and the brace of the block.
Open ==
    /\ At("open")
    /\ Take(Room, NewFrame(parser, TRUE, tok.word), TRUE)

\* parse_proc_decl up to the brace: the parameter and thisproc are its first locals.
Proc ==
    LET entered == NewFrame(parser, FALSE, tok.word)
        params == IF tok.word.param = NoName THEN entered
                  ELSE DeclVar(entered, tok.word.param, FALSE)
    IN  /\ At("proc")
        /\ Take(/\ Room
                /\ tok.word.param # NoName => Undeclared(entered, tok.word.param)
                /\ Undeclared(params, ThisProc),
                DeclVar(params, ThisProc, FALSE), TRUE)

\* A closing brace: of a block, or of a procedure, whose name is declared only now,
\* as a global one if the frame around it belongs to no procedure.
Close ==
    LET closed == CloseFrame(parser)
        named == Top(parser).word.op = "proc"
        name == Top(parser).word.name
    IN  /\ At("close")
        /\ \/ /\ ~Outside(parser)
              /\ ~owed
              /\ IF named
                 THEN Take(Undeclared(closed, name),
                           DeclVar(closed, name, ~Top(closed).return_type), FALSE)
                 ELSE Take(TRUE, closed, FALSE)
           \/ /\ Outside(parser) \/ owed
              /\ RejectWord
              /\ UNCHANGED scopeVars

IncludeFile == ParseInclude /\ owed' = TRUE /\ UNCHANGED parser

\* The end of init_ast, if the program has parsed, and of main.
End ==
    /\ Finish
    /\ parser' = IF phase = "parsed" THEN CloseFrame(parser) ELSE parser
    /\ UNCHANGED owed

ScopesNext ==
    \/ Begin /\ UNCHANGED scopeVars
    \/ Do \/ Declare \/ DeclareGlobal \/ Use \/ RecordDefault
    \/ Open \/ Proc \/ Close
    \/ IncludeFile
    \/ End

ScopesSpec == ScopesInit /\ [][ScopesNext]_allVars /\ WF_allVars(ScopesNext)

-----------------------------------------------------------------------------
\* The entries a search for a name goes through.
Visible(ps) ==
    Values(ps.globals) \cup UNION {Values(ps.frames[j].locals) : j \in Chain(ps.frames)}

\* No two variables that can be seen at the same point share a slot, and every
\* slot given out in a procedure lies below the scope_size recorded for it when it
\* was closed: the passes after the parser index arrays of that size with it.
Slots ==
    LET locals == {i \in DOMAIN parser.decls : ~parser.decls[i].is_global}
        slot(i) == parser.decls[i].scope_id
        seen == {e.decl : e \in Visible(parser)}
    IN  /\ \A i, j \in seen \cap locals : slot(i) = slot(j) => i = j
        /\ \A i, j \in DOMAIN parser.decls \ locals : slot(i) = slot(j) => i = j
        /\ \A i \in locals :
            LET d == parser.decls[i]
            IN  d.proc \notin {f.proc : f \in Values(parser.frames)} =>
                    slot(i) < parser.scope_size[d.proc]

\* A name means at most one variable, and the parser finds that one: a global, or
\* a local of the procedure being parsed whose block has not been closed.
Meant(n) ==
    {i \in DOMAIN parser.decls :
        LET d == parser.decls[i]
        IN  /\ d.name = n
            /\ d.is_global \/ /\ d.proc = Top(parser).proc
                              /\ d.block \in {f.block : f \in Values(parser.frames)}}
Resolves ==
    phase \in {"parse", "parsed"} =>
        \A n \in Name : FindVar(parser, n) = Meant(n) /\ Cardinality(Meant(n)) <= 1

\* The parser runs off the end of the last file only if the files open more blocks
\* than they close, or if they end where a statement has to follow: it then asks for
\* the location of a token that belongs to no file (debug_table_add_loc).
Braces(op) ==
    Cardinality(UNION {{<<p, i>> : i \in {k \in DOMAIN text[p] :
        text[p][k].type = "word" /\ text[p][k].op \in op}} : p \in Values(visited)})
Located == phase = "lost" => owed \/ Braces({"open", "proc"}) > Braces({"close"})

\* Parsing ends, whatever the files say.
Ends == <>(phase \in {"over", "lost"})
=============================================================================
