----------------------------- MODULE CodeIndex -----------------------------
(***************************************************************************)
(* The symbol graph of a Python workspace (review_graph/indexer.py), as a  *)
(* function of what was read of the files and of the commit they are       *)
(* compared with.                                                          *)
(*                                                                         *)
(* A content is what `ast` says of a file:                                 *)
(*   [size, link, parses, lines, defs, uses, imports]                      *)
(* link: it is a symbolic link, and the rest is said of what it leads to;  *)
(* lines is the sequence of the lines, as tokens; defs the sequence of the *)
(* definitions, [name, class, parent, first, last], a parent before what   *)
(* it contains; uses the calls and the base classes, [within, name,        *)
(* relation, dynamic, line]; imports the modules, as sequences of names.   *)
(***************************************************************************)
EXTENDS Integers, Sequences, SequencesExt

CONSTANTS
    Paths,      \* numbers: files are indexed in their order
    Python,     \* those that end in .py
    Unindexed,    \* those in a directory of _SKIP_PARTS, or whose name git quotes
    Module,     \* path -> module, a sequence of names
    TestNames,  \* names that begin with test_, of definitions
    TestPaths,  \* and of files
    Absent      \* no such file

CodeNode(key, kind, changed, priority, content) ==
    [key |-> key, kind |-> kind, state |-> "PASS", mandatory |-> FALSE, priority |-> priority,
     changed |-> changed, says |-> content]
Link(from, relation, to, at) == [from |-> from, relation |-> relation, to |-> to, at |-> at]
Diagnostic(code, status, about) == [code |-> code, status |-> status, about |-> about]

---------------------------------------------------------------------------
(* The files, and what changed since the base.                              *)

\* _python_files: no word is said of the others.
PythonFiles(code) == {p \in Python \ Unindexed : code[p] # Absent /\ ~code[p].link}

\* _changed_paths: files that are there and differ, or are not tracked.  A file that was
\* deleted, or became a link, is not among them.
ChangedPaths(code, base) ==
    {p \in Paths : code[p] # Absent /\ code[p] # base[p] /\ (base[p] = Absent \/ code[p].link = base[p].link)}

\* _changed_lines, of a changed file: the lines git calls added.  Where lines were only
\* removed there are none.
ChangedLines(content, old) ==
    IF old = Absent THEN DOMAIN content.lines
    ELSE {n \in DOMAIN content.lines : content.lines[n] \notin Range(old.lines)}

---------------------------------------------------------------------------
(* The definitions of one file: [path, content, lines], the changed lines.  *)

FileKey(path) == <<"code file", path>>
Qualified(defs) ==
    LET name[i \in DOMAIN defs] ==
            IF defs[i].parent = 0 THEN <<defs[i].name>>
            ELSE Append(name[defs[i].parent], defs[i].name)
    IN  name

Kind(file, i) ==
    LET def == file.content.defs[i]
    IN  CASE def.class -> "class"
          [] ~def.class /\ (def.name \in TestNames \/ file.path \in TestPaths) -> "test"
          [] ~def.class /\ def.name \notin TestNames /\ file.path \notin TestPaths ->
               IF def.parent # 0 /\ file.content.defs[def.parent].class THEN "method" ELSE "function"

SymbolKey(file, i) == <<"code symbol", <<file.path, Qualified(file.content.defs)[i], Kind(file, i)>>>>
DefsOf(file) == IF file.content.parses THEN DOMAIN file.content.defs ELSE {}
DefChanged(file, i) == \E n \in file.lines : n \in file.content.defs[i].first..file.content.defs[i].last

SymbolNode(file, i) ==
    CodeNode(SymbolKey(file, i), Kind(file, i), DefChanged(file, i),
             IF DefChanged(file, i) THEN 95 ELSE 45, file.content)
FileNode(file, changed) ==
    CodeNode(FileKey(file.path), "file", changed, IF changed THEN 100 ELSE 40, file.content)

\* CONTAINS
Contained(file, i) ==
    LET parent == file.content.defs[i].parent
    IN  Link(IF parent = 0 THEN FileKey(file.path) ELSE SymbolKey(file, parent), "CONTAINS",
             SymbolKey(file, i), <<"line", file.path, file.content.defs[i].first>>)

UsesOf(file) == IF file.content.parses THEN file.content.uses ELSE {}
\* An attribute that is called on a changed line: what runs is not known.
DynamicChange(file) ==
    \E u \in UsesOf(file) : u.relation = "CALLS" /\ u.dynamic /\ u.line \in file.lines

---------------------------------------------------------------------------
(* What names stand for, among the files that were read.                    *)

\* _resolve_module: by its whole name, or as the end of one name only.
Resolved(module, files) ==
    LET exact == {f \in files : Module[f.path] = module}
        ending == {f \in files : IsSuffix(module, Module[f.path])}
    IN  IF exact # {} THEN exact ELSE IF Cardinality(ending) = 1 THEN ending ELSE {}

Imports(file, files) ==
    UNION {{Link(FileKey(file.path), "IMPORTS", FileKey(to.path), <<"import", file.path, m>>) :
               to \in Resolved(m, files) \ {file}} :
           m \in IF file.content.parses THEN file.content.imports ELSE {}}

\* by_simple: definitions of a name, whatever they are part of.
Named(name, files) ==
    UNION {{SymbolNode(f, i) : i \in {j \in DefsOf(f) : f.content.defs[j].name = name}} : f \in files}

RelationOf(file, use) ==
    CASE use.relation = "CALLS" /\ Kind(file, use.within) = "test" -> "TESTS"
      [] use.relation = "CALLS" /\ Kind(file, use.within) # "test" /\ use.dynamic -> "MAY_CALL"
      [] OTHER -> use.relation
Used(file, files) ==
    UNION {{Link(SymbolKey(file, u.within), RelationOf(file, u), to.key, <<"line", file.path, u.line>>) :
               to \in IF Cardinality(Named(u.name, files)) = 1 THEN Named(u.name, files) ELSE {}} :
           u \in UsesOf(file)}
Ambiguous(file, files) == {u \in UsesOf(file) : Cardinality(Named(u.name, files)) > 1}

---------------------------------------------------------------------------
(* The graph.                                                               *)

\* Two definitions of one name in one scope have one identifier, and the validator
\* refuses the graph; a redefinition, or the setter of a property, is enough.
Redefined(file) ==
    \E i, j \in DefsOf(file) : i # j /\ SymbolKey(file, i) = SymbolKey(file, j)
Indexable(files) == ~\E f \in files : Redefined(f)

\* `changed`: paths; `limits`: which limits cut the files short.
CodeGraph(files, changed, limits) ==
    [nodes |-> {FileNode(f, f.path \in changed) : f \in files}
                 \cup UNION {{SymbolNode(f, i) : i \in DefsOf(f)} : f \in files},
     edges |-> UNION {{Contained(f, i) : i \in DefsOf(f)} : f \in files}
                 \cup UNION {Imports(f, files) \cup Used(f, files) : f \in files},
     diagnostics |-> {Diagnostic(limit, "UNKNOWN", 0) : limit \in limits}
                 \cup {Diagnostic("PYTHON_PARSE_ERROR", "UNKNOWN", f.path) :
                          f \in {x \in files : ~x.content.parses}}
                 \cup {Diagnostic("DYNAMIC_CALL_TARGET", "UNKNOWN", f.path) :
                          f \in {x \in files : DynamicChange(x)}}
                 \cup {Diagnostic("AMBIGUOUS_SYMBOL", "UNKNOWN", f.path) :
                          f \in {x \in files : Ambiguous(x, files) # {}}}]
=============================================================================
