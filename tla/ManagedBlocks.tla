----------------------------- MODULE ManagedBlocks -----------------------------
(***************************************************************************)
(* Files of the user in which DevHerd owns a few marked blocks: the        *)
(* Caddyfile of the shared proxy (one block per domain) and /etc/hosts     *)
(* (one block).  A file is a sequence of lines; a whole site, from its     *)
(* header to its closing brace, is one line here.                          *)
(***************************************************************************)
EXTENDS Integers, FiniteSets, SequencesExt

CONSTANT NoDomain

\* `target` is the upstream of a site, or what a text line says.
Text(what) == [kind |-> "text", domain |-> NoDomain, target |-> what]
Start(domain) == [kind |-> "start", domain |-> domain, target |-> NoDomain]
End(domain) == [kind |-> "end", domain |-> domain, target |-> NoDomain]
Site(domain, target) ==
    [kind |-> "site", domain |-> domain, target |-> target]

\* The members of a finite set of numbers, in ascending order.
InOrder(S) ==
    [n \in 1..Cardinality(S) |-> CHOOSE i \in S : Cardinality({j \in S : j <= i}) = n]

\* The lines at some positions, in their order.
LinesAt(lines, positions) ==
    LET order == InOrder(positions) IN [n \in DOMAIN order |-> lines[order[n]]]

\* Line i belongs to a block: a line of `opening`, and none of `closing`
\* between it and line i.  A block that is not closed reaches to the end.
InBlock(lines, i, opening, closing) ==
    \E j \in 1..i : /\ lines[j] \in opening
                   /\ \A k \in j + 1..i - 1 : lines[k] \notin closing

-------------------------------------------------------------------------------
(***************************************************************************)
(* The Caddyfile.                                                          *)
(***************************************************************************)
Marked(lines, i, domains) ==
    InBlock(lines, i, {Start(d) : d \in domains}, {End(d) : d \in domains})

\* Sites without marks, of older versions or of the user, are recognised by
\* their header.
StripBraceDomains(lines, domains, positions) ==
    LinesAt(lines, {i \in positions :
                      ~(lines[i].kind = "site" /\ lines[i].domain \in domains)})

\* Mutant: a block ends only at the end of the file.
StripToTheEnd(lines, domains) ==
    StripBraceDomains(lines, domains,
        {i \in DOMAIN lines : ~InBlock(lines, i, {Start(d) : d \in domains}, {})})

StripManagedDomains(lines, domains) ==
    StripBraceDomains(lines, domains,
        {i \in DOMAIN lines : ~Marked(lines, i, domains)})

\* The three lines of a site between its marks.
RenderExternalSite(s) == <<Start(s.domain), Site(s.domain, s.target), End(s.domain)>>

\* `sites` is a sequence of [domain, target].
RenderExternalSites(sites) ==
    [n \in 1..3 * Len(sites) |->
        RenderExternalSite(sites[1 + ((n - 1) \div 3)])[1 + ((n - 1) % 3)]]

DomainsOfSites(sites) == {s.domain : s \in ToSet(sites)}

\* Mutant: the file is rendered anew, as the Caddyfile of the host driver is.
RenderOnly(lines, sites) == RenderExternalSites(sites)

MergeExternalProxyConfig(lines, sites) ==
    StripManagedDomains(lines, DomainsOfSites(sites)) \o
    RenderExternalSites(sites)

SitesIn(lines) == {l \in ToSet(lines) : l.kind = "site"}

Routes(lines) == {[domain |-> l.domain, target |-> l.target] : l \in SitesIn(lines)}

\* Caddy refuses a file that defines one site twice.
Ambiguous(lines) ==
    \E i, j \in DOMAIN lines :
        /\ i < j /\ lines[i].kind = "site" /\ lines[j].kind = "site"
        /\ lines[i].domain = lines[j].domain

-------------------------------------------------------------------------------
(***************************************************************************)
(* /etc/hosts: one block, whose names are one line.                        *)
(***************************************************************************)
HostsStart == [kind |-> "start", names |-> {}]
HostsEnd == [kind |-> "end", names |-> {}]
HostsNames(names) == [kind |-> "names", names |-> names]
HostsText(what) == [kind |-> "text", names |-> {what}]

BuildManagedBlock(names) ==
    IF names = {} THEN <<HostsStart, HostsEnd>>
    ELSE <<HostsStart, HostsNames(names), HostsEnd>>

\* A stray end mark is dropped as well.
MergeManagedBlock(lines, names) ==
    LinesAt(lines, {i \in DOMAIN lines :
                      ~InBlock(lines, i, {HostsStart}, {HostsEnd}) /\ lines[i] # HostsEnd})
    \o BuildManagedBlock(names)

NamesIn(lines) == UNION {l.names : l \in {k \in ToSet(lines) : k.kind = "names"}}
===============================================================================
