--------------------------- MODULE PacmanRepositories ---------------------------
(***************************************************************************)
(* parsePacmanRepositories(): the repositories of pacman.conf with their   *)
(* servers and signature levels, which the checker downloads from and      *)
(* verifies with.  Include is followed recursively; the current section is *)
(* shared with the included files.  A file is a sequence of lines          *)
(* [key, value], or None if it cannot be read; files are numbered in the   *)
(* order of their paths, 0 is pacman.conf.  A signature level is the set   *)
(* of its bits.                                                            *)
(***************************************************************************)
EXTENDS Integers, Sequences, FiniteSets, SequencesExt

CONSTANTS
  Configurations,     \* functions from files to their lines
  kMaxIncludeDepth,
  UnsafeNames,        \* repository names that are empty or lead elsewhere
  machine,            \* the architecture "auto" stands for
  None

Scopes == {"Package", "Database"}

\* Sequences of lines, also if they are of different kinds.
IsText(text) == text \in Seq(ToSet(text))

ASSUME RepositoriesAssumption ==
  /\ kMaxIncludeDepth \in Nat /\ "" \in UnsafeNames
  /\ \A configuration \in Configurations :
       /\ 0 \in DOMAIN configuration /\ DOMAIN configuration \subseteq Nat
       /\ \A file \in DOMAIN configuration : configuration[file] # None =>
            /\ IsText(configuration[file])
            /\ \A i \in DOMAIN configuration[file] :
                 LET line == configuration[file][i]
                 IN /\ line.key \in {"section", "Include", "GPGDir", "Architecture", "SigLevel", "Server"}
                    /\ line.key = "Include" => IsFiniteSet(line.value) /\ line.value \subseteq DOMAIN configuration
                    /\ line.key = "SigLevel" =>
                         IsText(line.value) /\ \A j \in DOMAIN line.value : line.value[j].scopes \subseteq Scopes

SigBits == Scopes \X {"Checked", "Optional", "MarginalOk", "UnknownOk"}
kPacmanDefaultSigLevel == Scopes \X {"Checked"}

VARIABLES
  texts,                \* the configuration files
  frames,               \* the calls of readFile: [file, depth, line], line 0 before it is opened
  section,
  global_sig,           \* [mask, value]
  repositories,         \* [name, servers, sig]
  gpgdir, architectures,
  configuration_files,
  parsed,               \* "reading", "read", "error" or "done"
  result                \* what is returned, None before

parser == <<section, global_sig, repositories, gpgdir, architectures>>
repositoriesVars == <<texts, frames, parser, configuration_files, parsed, result>>

NoSetting == [mask |-> {}, value |-> {}]

RepositoriesInit ==
  /\ texts \in Configurations
  /\ frames = <<[file |-> 0, depth |-> 0, line |-> 0]>>
  /\ section = "" /\ global_sig = NoSetting /\ repositories = <<>>
  /\ gpgdir = None /\ architectures = <<>> /\ configuration_files = <<>>
  /\ parsed = "reading" /\ result = None

\* A set of numbers in ascending order: the n-th one has n members up to it.
Nth(numbers, n) == CHOOSE i \in {h \in numbers : Cardinality({g \in numbers : g <= h}) = n} : TRUE
InOrder(numbers) == [n \in 1..Cardinality(numbers) |-> Nth(numbers, n)]

-------------------------------------------------------------------------------
(* SigLevel *)

\* A token is [scopes, action]; the bits that an action decides, and those it sets.
Decided(token) ==
  token.scopes \X (IF token.action \in {"Never", "Optional", "Required"} THEN {"Checked", "Optional"}
                   ELSE {"MarginalOk", "UnknownOk"})

Enabled(token) ==
  token.scopes \X (CASE token.action = "Optional" -> {"Checked", "Optional"}
                     [] token.action = "Required" -> {"Checked"}
                     [] token.action = "TrustAll" -> {"MarginalOk", "UnknownOk"}
                     [] OTHER -> {})

ApplyToken(setting, token) ==
  [mask |-> setting.mask \cup Decided(token), value |-> (setting.value \ Decided(token)) \cup Enabled(token)]

Recognised(token) == token.action \in {"Never", "Optional", "Required", "TrustedOnly", "TrustAll"}

\* parseSigLevel
Parseable(tokens) == tokens # <<>> /\ \A i \in DOMAIN tokens : Recognised(tokens[i])
ParseSigLevel(tokens) ==
  LET setting[n \in 0..Len(tokens)] == IF n = 0 THEN NoSetting ELSE ApplyToken(setting[n - 1], tokens[n])
  IN setting[Len(tokens)]

\* Mutant: what was enabled before cannot be disabled.
MergeEnabled(setting, base) == setting.value \cup base

Merge(setting, base) == (setting.value \cap setting.mask) \cup (base \ setting.mask)

Refined(setting, tokens) ==
  LET level == ParseSigLevel(tokens)
  IN [mask |-> setting.mask \cup level.mask, value |-> Merge(level, setting.value)]

-------------------------------------------------------------------------------
(* Lines *)

Top == frames[Len(frames)]
Line == texts[Top.file][Top.line]
AtLine(key) == /\ parsed = "reading" /\ Top.line > 0 /\ Top.line <= Len(texts[Top.file])
               /\ Line.key = key
NextLine == frames' = [frames EXCEPT ![Len(frames)].line = @ + 1]
Refuse == parsed' = "error" /\ UNCHANGED <<frames, parser, configuration_files>>

\* readFile
OpenFile ==
  /\ parsed = "reading" /\ frames # <<>> /\ Top.line = 0
  /\ configuration_files' = Append(configuration_files, Top.file)
  /\ IF Top.depth > kMaxIncludeDepth \/ texts[Top.file] = None
     THEN parsed' = "error" /\ UNCHANGED frames
     ELSE NextLine /\ UNCHANGED parsed
  /\ UNCHANGED <<texts, parser, result>>

\* The end of a file: the caller goes on with the next file of its Include, or its next line.
CloseFile ==
  /\ parsed = "reading" /\ Top.line > 0 /\ Top.line > Len(texts[Top.file])
  /\ frames' = Front(frames)
  /\ parsed' = IF Len(frames) = 1 THEN "read" ELSE parsed
  /\ UNCHANGED <<texts, parser, configuration_files, result>>

BeginSection ==
  /\ AtLine("section")
  /\ IF Line.value # "options" /\ \E i \in DOMAIN repositories : repositories[i].name = Line.value THEN Refuse
     ELSE /\ section' = Line.value
          /\ repositories' = IF Line.value = "options" THEN repositories
                             ELSE Append(repositories, [name |-> Line.value, servers |-> <<>>, sig |-> NoSetting])
          /\ NextLine
          /\ UNCHANGED <<global_sig, gpgdir, architectures, configuration_files, parsed>>
  /\ UNCHANGED <<texts, result>>

\* handleInclude: the files that match, in order; none is an error.  It counts in every section.
HandleInclude ==
  /\ AtLine("Include")
  /\ IF Line.value = {} THEN Refuse
     ELSE LET included == InOrder(Line.value)
              calls == [i \in DOMAIN included |->
                          [file |-> included[Len(included) + 1 - i], depth |-> Top.depth + 1, line |-> 0]]
          IN /\ frames' = [frames EXCEPT ![Len(frames)].line = @ + 1] \o calls
             /\ UNCHANGED <<parser, configuration_files, parsed>>
  /\ UNCHANGED <<texts, result>>

InOptions == section = "options"
InRepository == section \notin {"", "options"}

\* handleOption
HandleOption ==
  /\ InOptions
  /\ \/ AtLine("GPGDir") /\ gpgdir' = Line.value /\ UNCHANGED architectures
     \/ AtLine("Architecture") /\ UNCHANGED gpgdir
        /\ architectures' = architectures \o [i \in DOMAIN Line.value |->
                                                IF Line.value[i] = "auto" THEN machine ELSE Line.value[i]]
  /\ NextLine
  /\ UNCHANGED <<texts, section, global_sig, repositories, configuration_files, parsed, result>>

HandleSigLevel ==
  /\ AtLine("SigLevel") /\ section # ""
  /\ IF ~Parseable(Line.value) THEN Refuse
     ELSE /\ IF InOptions THEN global_sig' = Refined(global_sig, Line.value) /\ UNCHANGED repositories
             ELSE /\ repositories' = [repositories EXCEPT ![Len(repositories)].sig = Refined(@, Line.value)]
                  /\ UNCHANGED global_sig
          /\ NextLine
          /\ UNCHANGED <<section, gpgdir, architectures, configuration_files, parsed>>
  /\ UNCHANGED <<texts, result>>

\* A server belongs to the repository that was begun last.
HandleServer ==
  /\ AtLine("Server") /\ InRepository
  /\ repositories' = [repositories EXCEPT ![Len(repositories)].servers = Append(@, Line.value)]
  /\ NextLine
  /\ UNCHANGED <<texts, section, global_sig, gpgdir, architectures, configuration_files, parsed, result>>

\* Keys that mean nothing in their section.
SkipLine ==
  /\ \/ \E key \in {"GPGDir", "Architecture"} : AtLine(key) /\ ~InOptions
     \/ AtLine("SigLevel") /\ section = ""
     \/ AtLine("Server") /\ ~InRepository
  /\ NextLine
  /\ UNCHANGED <<texts, parser, configuration_files, parsed, result>>

-------------------------------------------------------------------------------
(* The result *)

\* parsePacmanRepositories after readFile.  A server's $repo and $arch are substituted.
Finish ==
  /\ parsed = "read"
  /\ LET known == IF architectures = <<>> THEN <<machine>> ELSE architectures
         level == Merge(global_sig, kPacmanDefaultSigLevel)
         Repository(raw) ==
           [name |-> raw.name, sig_level |-> Merge(raw.sig, level),
            servers |-> [i \in DOMAIN raw.servers |-> <<raw.servers[i], raw.name, known[1]>>]]
     IN IF \E i \in DOMAIN repositories : \/ repositories[i].name \in UnsafeNames
                                            \/ repositories[i].servers = <<>>
        THEN parsed' = "error" /\ UNCHANGED result
        ELSE /\ parsed' = "done"
             /\ result' = [repositories |-> [i \in DOMAIN repositories |-> Repository(repositories[i])],
                           architectures |-> known, default_sig_level |-> level, gpg_directory |-> gpgdir]
  /\ UNCHANGED <<texts, frames, parser, configuration_files>>

RepositoriesNext ==
  \/ OpenFile \/ CloseFile
  \/ frames # <<>> /\ (BeginSection \/ HandleInclude \/ HandleOption \/ HandleSigLevel \/ HandleServer \/ SkipLine)
  \/ Finish

RepositoriesSpec == RepositoriesInit /\ [][RepositoriesNext]_repositoriesVars

RepositoriesTypeOK ==
  /\ parsed \in {"reading", "read", "error", "done"} /\ result # None => parsed = "done"
  /\ global_sig.mask \subseteq SigBits /\ global_sig.value \subseteq global_sig.mask
  /\ \A i \in DOMAIN repositories : repositories[i].sig.value \subseteq repositories[i].sig.mask

-------------------------------------------------------------------------------
(* Properties *)

Unreadable == <<[key |-> "unreadable", value |-> ""]>>

\* What a line stands for, if its files stand for what "below" says.
Meant(line, below) ==
  IF line.key # "Include" THEN <<line>>
  ELSE IF line.value = {} THEN Unreadable
  ELSE LET included == InOrder(line.value) IN FlattenSeq([j \in DOMAIN included |-> below[included[j]]])

\* The text that the files make together, included files in place, up to a given depth.
Expanded[depth \in 0..kMaxIncludeDepth + 1] ==
  [file \in DOMAIN texts |->
     IF depth = 0 \/ texts[file] = None THEN Unreadable
     ELSE FlattenSeq([i \in DOMAIN texts[file] |-> Meant(texts[file][i], Expanded[depth - 1])])]

WholeText == Expanded[kMaxIncludeDepth + 1][0]

\* Line i is in the section of a name, which the last header up to it begins; no header is "".
InSection(text, i, name) ==
  LET headers == {j \in 1..i : text[j].key = "section"}
  IN IF headers = {} THEN name = ""
     ELSE \E j \in headers : text[j].value = name /\ \A h \in headers : h <= j

Lines(text, name, key) == {i \in DOMAIN text : text[i].key = key /\ InSection(text, i, name)}
Headers(text) == {i \in DOMAIN text : text[i].key = "section" /\ text[i].value # "options"}

ValuesOf(text, lines) == [n \in 1..Cardinality(lines) |-> text[Nth(lines, n)].value]

\* The last token that decides a bit counts; without one the enclosing level does.
BitsOf(text, name, enclosing) ==
  LET Token(p)      == text[p[1]].value[p[2]]
      tokens        == UNION {{i} \X DOMAIN text[i].value : i \in Lines(text, name, "SigLevel")}
      deciding(bit) == {p \in tokens : bit \in Decided(Token(p))}
      NotAfter(q, p) == q[1] < p[1] \/ (q[1] = p[1] /\ q[2] <= p[2])
  IN {bit \in SigBits :
        IF deciding(bit) = {} THEN bit \in enclosing
        ELSE \E p \in deciding(bit) : bit \in Enabled(Token(p)) /\ \A q \in deciding(bit) : NotAfter(q, p)}

Refusable(text) ==
  \/ \E i \in DOMAIN text : \/ text[i].key = "unreadable"
                            \/ text[i].key = "SigLevel" /\ ~InSection(text, i, "") /\ ~Parseable(text[i].value)
  \/ \E i, j \in Headers(text) : i # j /\ text[i].value = text[j].value
  \/ \E i \in Headers(text) : text[i].value \in UnsafeNames \/ Lines(text, text[i].value, "Server") = {}

\* The parser fails closed: whatever it cannot make out anywhere in the text is an error, and
\* nothing else is.  Otherwise every repository has the servers of its section, wherever in the
\* included files they are, and no signature bit is weaker or stronger than the last word on it
\* in the section, then in the options, then the default (pacman_repositories.cpp:99, :235-258).
ParsedAsWritten ==
  /\ parsed = "error" => Refusable(WholeText)
  /\ parsed = "done" =>
       /\ ~Refusable(WholeText)
       /\ LET text  == WholeText
              level == BitsOf(text, "options", kPacmanDefaultSigLevel)
          IN /\ result.default_sig_level = level
             /\ [i \in DOMAIN result.repositories |-> result.repositories[i].name] = ValuesOf(text, Headers(text))
             /\ \A i \in DOMAIN result.repositories :
                  LET repository == result.repositories[i]
                      servers    == ValuesOf(text, Lines(text, repository.name, "Server"))
                  IN /\ repository.sig_level = BitsOf(text, repository.name, level)
                     /\ repository.servers = [j \in DOMAIN servers |->
                                                <<servers[j], repository.name, result.architectures[1]>>]
===============================================================================
