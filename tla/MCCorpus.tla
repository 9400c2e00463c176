------------------------------ MODULE MCCorpus ------------------------------
(* Two projects: one ordinary, whose transcript takes turns, subagents and torn lines, *)
(* and one in a directory that the exclusion rules name.                                *)
EXTENDS Corpus

Say(kind, chain, key, tokens, tool, failed) == Line(kind, chain, key, tokens, tool, failed)

Prompt  == <<Say("prompt", 0, Null, 0, Null, FALSE)>>
Reply   == <<Say("reply", 0, "k1", 1, Null, FALSE), Say("reply", 0, "k1", 1, Null, FALSE)>>
Call    == <<Say("call", 0, "k2", 2, "t1", FALSE), Say("result", 0, Null, 0, "t1", TRUE)>>
Inline  == <<Say("prompt", 7, Null, 0, Null, FALSE), Say("reply", 7, "k3", 4, Null, FALSE)>>
Torn    == <<Say("meta", 0, Null, 0, Null, FALSE), Say("torn", 0, Null, 0, Null, FALSE)>>
Subfile == <<Say("call", 0, "k2", 2, "t2", FALSE), Say("reply", 0, "k4", 8, Null, FALSE),
             Say("result", 0, Null, 0, "t2", FALSE)>>

(* What a file may hold already: up to two chunks, at one moment or at two. *)
At(chunk, ts) == [i \in DOMAIN chunk |-> [chunk[i] EXCEPT !.ts = ts]]
Mains == {Prompt, Reply, Call, Inline, Torn}
Written == {At(c, 1) : c \in Mains}
           \cup {At(c, 1) \o At(d, ts) : c, d \in Mains, ts \in 1..2}
Content(main, sub) == [main |-> main, sub |-> sub]
MCHistories == [s \in {"s1", "s2"} |->
    IF s = "s1" THEN {Content(main, <<>>) : main \in Written}
                     \cup {Content(At(c, 1), At(Subfile, 2)) : c \in Mains}
                ELSE {Content(At(Prompt, 1), <<>>)}]

MCSources == {"s1", "s2"}
MCSessionOf == [s \in MCSources |-> IF s = "s1" THEN "x1" ELSE "x2"]
MCCwdOf == [s \in MCSources |-> IF s = "s1" THEN <<"home", "game">> ELSE <<"private", "tmp", "game">>]
MCChunks == [s \in MCSources |->
    IF s = "s1" THEN [main |-> {Prompt, Reply}, sub |-> {Subfile}]
                ELSE [main |-> {}, sub |-> {}]]
MCTools == {"t1", "t2"}
MCRuleSets == {{}, {<<"private", "tmp", "**">>, <<"**", "scratchpad", "**">>}}
MCModelOf == [k1 |-> "opus", k2 |-> "opus-latest", k3 |-> "local", k4 |-> "retired"]
MCPrices == [models  |-> [opus |-> 3],
             aliases |-> [x \in {"opus-latest", "retired"} |-> IF x = "retired" THEN "opus-1" ELSE "opus"]]
MCWindows == {WholeSpan, [since |-> 2, until |-> 0]}
=============================================================================
