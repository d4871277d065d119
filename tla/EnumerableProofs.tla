-------------------------- MODULE EnumerableProofs --------------------------
(***************************************************************************)
(* Minting and burning keep the arrays of ERC721Enumerable exact.          *)
(***************************************************************************)
EXTENDS ERC721Enumerable, FiniteSetTheorems, TLAPS

\* Balances count a subset of the tokens.
LEMMA BalanceType ==
    ASSUME NEW n, NEW a
    PROVE  /\ IsFiniteSet(TokensOf(n, a))
           /\ BalanceOf(n, a) \in 0..NumTokens
<1>1. IsFiniteSet(Token) /\ Cardinality(Token) = NumTokens
    BY FS_Interval, ERC721Assumption DEF Token
<1>2. TokensOf(n, a) \in SUBSET Token
    BY DEF TokensOf
<1> QED
    BY <1>1, <1>2, FS_Subset, FS_CardinalityType DEF BalanceOf

\* An account that does not own t has room for it in its array.
LEMMA RoomForToken ==
    ASSUME NEW n, NEW a, NEW t \in Token, n.ownerOf[t] # a
    PROVE  BalanceOf(n, a) \in Index
<1>1. IsFiniteSet(Token) /\ Cardinality(Token) = NumTokens
    BY FS_Interval, ERC721Assumption DEF Token
<1>2. IsFiniteSet(Token \ {t}) /\ Cardinality(Token \ {t}) = NumTokens - 1
    BY <1>1, FS_RemoveElement
<1>3. TokensOf(n, a) \in SUBSET (Token \ {t})
    BY DEF TokensOf
<1> QED
    BY <1>2, <1>3, FS_Subset, FS_CardinalityType, ERC721Assumption DEF BalanceOf, Index

\* A balance depends on the owners only.
LEMMA BalanceOfOwners ==
    ASSUME NEW n, NEW m, NEW a, m.ownerOf = n.ownerOf
    PROVE  BalanceOf(m, a) = BalanceOf(n, a)
BY DEF BalanceOf, TokensOf

\* Handing a token to a new owner adds one to its balance only.
LEMMA BalanceAfterMint ==
    ASSUME NEW n \in NftState, NEW m, NEW to \in Account, NEW t \in Token,
           n.ownerOf[t] = NoOne, m.ownerOf = [n.ownerOf EXCEPT ![t] = to]
    PROVE  /\ TokensOf(m, to) = TokensOf(n, to) \cup {t}
           /\ BalanceOf(m, to) = BalanceOf(n, to) + 1
           /\ \A a \in Account \ {to} : /\ TokensOf(m, a) = TokensOf(n, a)
                                        /\ BalanceOf(m, a) = BalanceOf(n, a)
<1>1. TokensOf(m, to) = TokensOf(n, to) \cup {t}
    BY DEF TokensOf, NftState
<1>2. t \notin TokensOf(n, to)
    BY ERC721Assumption DEF TokensOf
<1>3. \A a \in Account \ {to} : TokensOf(m, a) = TokensOf(n, a)
    BY ERC721Assumption DEF TokensOf, NftState
<1> QED
    BY <1>1, <1>2, <1>3, BalanceType, FS_AddElement DEF BalanceOf

\* Taking a token from its owner subtracts one from its balance only.
LEMMA BalanceAfterBurn ==
    ASSUME NEW n \in NftState, NEW m, NEW t \in Token, NEW from \in Account,
           n.ownerOf[t] = from, m.ownerOf = [n.ownerOf EXCEPT ![t] = NoOne]
    PROVE  /\ TokensOf(m, from) = TokensOf(n, from) \ {t}
           /\ BalanceOf(m, from) = BalanceOf(n, from) - 1
           /\ \A a \in Account \ {from} : /\ TokensOf(m, a) = TokensOf(n, a)
                                          /\ BalanceOf(m, a) = BalanceOf(n, a)
<1>1. TokensOf(m, from) = TokensOf(n, from) \ {t}
    BY ERC721Assumption DEF TokensOf, NftState
<1>2. t \in TokensOf(n, from)
    BY DEF TokensOf
<1>3. \A a \in Account \ {from} : TokensOf(m, a) = TokensOf(n, a)
    BY ERC721Assumption DEF TokensOf, NftState
<1>4. Cardinality(TokensOf(n, from) \ {t}) = Cardinality(TokensOf(n, from)) - 1
    BY <1>2, BalanceType, FS_RemoveElement
<1> QED
    BY <1>1, <1>3, <1>4 DEF BalanceOf

-----------------------------------------------------------------------------

\* What _mint leaves in each mapping.
Minted(n, m, to, t) ==
    /\ m.ownerOf = [n.ownerOf EXCEPT ![t] = to]
    /\ m.getApproved = n.getApproved
    /\ m.ownedTokens = [n.ownedTokens EXCEPT ![to] = [@ EXCEPT ![BalanceOf(n, to)] = t]]
    /\ m.ownedTokensIndex = [n.ownedTokensIndex EXCEPT ![t] = BalanceOf(n, to)]
    /\ m.allTokens = Append(n.allTokens, t)
    /\ m.allTokensIndex = [n.allTokensIndex EXCEPT ![t] = Len(n.allTokens)]

\* The two additions to the enumeration and ERC721's own write do not overlap.
LEMMA MintFields ==
    ASSUME NEW n \in NftState, NEW to \in Account, NEW t \in Token,
           n.ownerOf[t] = NoOne
    PROVE  /\ Minted(n, MintToken(n, to, t), to, t)
           /\ MintToken(n, to, t) \in NftState
<1> DEFINE n1 == AddTokenToAllTokensEnumeration(n, t)
           n2 == AddTokenToOwnerEnumeration(n1, to, t)
<1>1. BalanceOf(n, to) \in Index /\ BalanceOf(n, to) \in Nat
    <2>1. n.ownerOf[t] # to
        BY ERC721Assumption
    <2> QED
        BY <2>1, RoomForToken, ERC721Assumption DEF Index
<1>2. /\ n1.ownerOf = n.ownerOf
      /\ n1.getApproved = n.getApproved
      /\ n1.ownedTokens = n.ownedTokens
      /\ n1.ownedTokensIndex = n.ownedTokensIndex
    BY DEF AddTokenToAllTokensEnumeration, NftState
<1>3. /\ n1.allTokens = Append(n.allTokens, t)
      /\ n1.allTokensIndex = [n.allTokensIndex EXCEPT ![t] = Len(n.allTokens)]
    BY DEF AddTokenToAllTokensEnumeration, NftState
<1>4. n1 \in NftState
    <2> DEFINE all == Append(n.allTokens, t)
               length == Len(n.allTokens)
    <2>1. all \in Seq(Token) /\ length \in Nat
        BY DEF NftState
    <2>2. n1 = [n EXCEPT !.allTokensIndex[t] = length, !.allTokens = all]
        BY DEF AddTokenToAllTokensEnumeration
    <2> HIDE DEF all, length, n1
    <2> QED
        BY <2>1, <2>2 DEF NftState
<1>5. BalanceOf(n1, to) = BalanceOf(n, to)
    BY <1>2, BalanceOfOwners
<1> HIDE DEF n1
<1>6. /\ n2.ownerOf = n1.ownerOf
      /\ n2.getApproved = n1.getApproved
      /\ n2.allTokens = n1.allTokens
      /\ n2.allTokensIndex = n1.allTokensIndex
    BY <1>4 DEF AddTokenToOwnerEnumeration, NftState
<1>7. n2.ownedTokensIndex = [n1.ownedTokensIndex EXCEPT ![t] = BalanceOf(n, to)]
    BY <1>4, <1>5 DEF AddTokenToOwnerEnumeration, NftState
<1>8. n2.ownedTokens = [n1.ownedTokens EXCEPT ![to] = [@ EXCEPT ![BalanceOf(n, to)] = t]]
    BY <1>4, <1>5 DEF AddTokenToOwnerEnumeration, NftState
<1>9. n2 \in NftState
    BY <1>1, <1>4, <1>5 DEF AddTokenToOwnerEnumeration, NftState
<1>10. MintToken(n, to, t) = [n2 EXCEPT !.ownerOf[t] = to]
    BY DEF MintToken, n1
<1> HIDE DEF n2
<1> DEFINE m == [n2 EXCEPT !.ownerOf[t] = to]
<1>11. m \in NftState
    BY <1>9 DEF NftState
<1>12. /\ m.ownerOf = [n2.ownerOf EXCEPT ![t] = to]
       /\ m.getApproved = n2.getApproved
       /\ m.ownedTokens = n2.ownedTokens
       /\ m.ownedTokensIndex = n2.ownedTokensIndex
       /\ m.allTokens = n2.allTokens
       /\ m.allTokensIndex = n2.allTokensIndex
    BY <1>9 DEF NftState
<1> HIDE DEF m
<1>13. Minted(n, m, to, t)
    BY <1>2, <1>3, <1>6, <1>7, <1>8, <1>12 DEF Minted
<1> QED
    BY <1>10, <1>11, <1>13 DEF m

\* _mint keeps the arrays exact: the new token takes the first free slot of
\* its owner, and the last of all.
LEMMA MintEnumerates ==
    ASSUME NEW n \in NftState, NEW to \in Account, NEW t \in Token,
           n.ownerOf[t] = NoOne, Enumerates(n)
    PROVE  Enumerates(MintToken(n, to, t))
<1> DEFINE m == MintToken(n, to, t)
           k == BalanceOf(n, to)
<1>1. Minted(n, m, to, t)
    BY MintFields
<1> HIDE DEF m
<1>2. /\ TokensOf(m, to) = TokensOf(n, to) \cup {t}
      /\ BalanceOf(m, to) = k + 1
      /\ \A a \in Account \ {to} : /\ TokensOf(m, a) = TokensOf(n, a)
                                   /\ BalanceOf(m, a) = BalanceOf(n, a)
    BY <1>1, BalanceAfterMint DEF Minted
<1>3. \A a \in Account : BalanceOf(n, a) \in 0..NumTokens
    BY BalanceType
<1>4. k \in Index /\ to # NoOne
    BY RoomForToken, ERC721Assumption
<1>5. \A a \in Account : t \notin TokensOf(n, a)
    BY ERC721Assumption DEF TokensOf
<1>6. OwnedListed(m)
    <2> SUFFICES ASSUME NEW a \in Account, NEW i \in 0..(BalanceOf(m, a) - 1)
                 PROVE  /\ m.ownedTokens[a][i] \in TokensOf(m, a)
                        /\ m.ownedTokensIndex[m.ownedTokens[a][i]] = i
        BY DEF OwnedListed
    <2>1. CASE a = to /\ i = k
        BY <1>1, <1>2, <1>4, <2>1 DEF Minted, NftState
    <2>2. CASE a # to \/ i # k
        <3>1. i \in 0..(BalanceOf(n, a) - 1)
            BY <1>2, <1>3, <2>2
        <3>2. m.ownedTokens[a][i] = n.ownedTokens[a][i]
            BY <1>1, <1>4, <2>2 DEF Minted, NftState
        <3>3. /\ n.ownedTokens[a][i] \in TokensOf(n, a)
              /\ n.ownedTokensIndex[n.ownedTokens[a][i]] = i
            BY <3>1 DEF Enumerates, OwnedListed
        <3>4. n.ownedTokens[a][i] # t /\ n.ownedTokens[a][i] \in Token
            BY <1>5, <3>3 DEF TokensOf
        <3>5. m.ownedTokensIndex[n.ownedTokens[a][i]] = i
            BY <1>1, <3>3, <3>4 DEF Minted, NftState
        <3> QED
            BY <1>2, <3>2, <3>3, <3>5
    <2> QED
        BY <2>1, <2>2
<1>7. OwnedIndexed(m)
    <2> SUFFICES ASSUME NEW u \in Token, m.ownerOf[u] # NoOne
                 PROVE  /\ m.ownedTokensIndex[u] < BalanceOf(m, m.ownerOf[u])
                        /\ m.ownedTokens[m.ownerOf[u]][m.ownedTokensIndex[u]] = u
        BY DEF OwnedIndexed
    <2>1. CASE u = t
        <3>1. m.ownerOf[u] = to /\ m.ownedTokensIndex[u] = k
            BY <1>1, <2>1 DEF Minted, NftState
        <3>2. m.ownedTokens[to][k] = t
            BY <1>1, <1>4 DEF Minted, NftState
        <3> QED
            BY <1>2, <1>3, <2>1, <3>1, <3>2
    <2>2. CASE u # t
        <3>1. /\ m.ownerOf[u] = n.ownerOf[u]
              /\ m.ownedTokensIndex[u] = n.ownedTokensIndex[u]
              /\ n.ownerOf[u] \in Account
              /\ n.ownedTokensIndex[u] \in Nat
            BY <1>1, <2>2 DEF Minted, NftState
        <3>2. /\ n.ownedTokensIndex[u] < BalanceOf(n, n.ownerOf[u])
              /\ n.ownedTokens[n.ownerOf[u]][n.ownedTokensIndex[u]] = u
            BY <3>1 DEF Enumerates, OwnedIndexed
        <3>3. m.ownedTokens[n.ownerOf[u]][n.ownedTokensIndex[u]] = u
            <4>1. n.ownerOf[u] = to => n.ownedTokensIndex[u] # k
                BY <3>1, <3>2, <1>3
            <4> QED
                BY <1>1, <1>4, <3>1, <3>2, <4>1 DEF Minted, NftState
        <3>4. BalanceOf(n, n.ownerOf[u]) <= BalanceOf(m, n.ownerOf[u])
            BY <1>2, <1>3, <3>1
        <3> QED
            BY <1>2, <1>3, <3>1, <3>2, <3>3, <3>4
    <2> QED
        BY <2>1, <2>2
<1>8. AllListed(m)
    <2> SUFFICES ASSUME NEW i \in 1..Len(m.allTokens)
                 PROVE  /\ m.ownerOf[m.allTokens[i]] # NoOne
                        /\ m.allTokensIndex[m.allTokens[i]] = i - 1
        BY DEF AllListed
    <2>1. n.allTokens \in Seq(Token) /\ m.allTokens = Append(n.allTokens, t)
        BY <1>1 DEF Minted, NftState
    <2>2. CASE i = Len(n.allTokens) + 1
        <3>1. m.allTokens[i] = t
            BY <2>1, <2>2
        <3> QED
            BY <1>1, <1>4, <2>1, <2>2, <3>1 DEF Minted, NftState
    <2>3. CASE i # Len(n.allTokens) + 1
        <3>1. i \in 1..Len(n.allTokens) /\ m.allTokens[i] = n.allTokens[i]
              /\ n.allTokens[i] \in Token
            BY <2>1, <2>3
        <3>2. /\ n.ownerOf[n.allTokens[i]] # NoOne
              /\ n.allTokensIndex[n.allTokens[i]] = i - 1
            BY <3>1 DEF Enumerates, AllListed
        <3> QED
            BY <1>1, <3>1, <3>2 DEF Minted, NftState
    <2> QED
        BY <2>2, <2>3
<1>9. AllIndexed(m)
    <2> SUFFICES ASSUME NEW u \in Token, m.ownerOf[u] # NoOne
                 PROVE  /\ m.allTokensIndex[u] < Len(m.allTokens)
                        /\ m.allTokens[m.allTokensIndex[u] + 1] = u
        BY DEF AllIndexed
    <2>1. n.allTokens \in Seq(Token) /\ m.allTokens = Append(n.allTokens, t)
        BY <1>1 DEF Minted, NftState
    <2>2. CASE u = t
        <3>1. m.allTokensIndex[u] = Len(n.allTokens)
            BY <1>1, <2>2 DEF Minted, NftState
        <3> QED
            BY <2>1, <2>2, <3>1
    <2>3. CASE u # t
        <3>1. /\ m.ownerOf[u] = n.ownerOf[u]
              /\ m.allTokensIndex[u] = n.allTokensIndex[u]
              /\ n.allTokensIndex[u] \in Nat
            BY <1>1, <2>3 DEF Minted, NftState
        <3>2. /\ n.allTokensIndex[u] < Len(n.allTokens)
              /\ n.allTokens[n.allTokensIndex[u] + 1] = u
            BY <3>1 DEF Enumerates, AllIndexed
        <3> QED
            BY <2>1, <3>1, <3>2
    <2> QED
        BY <2>2, <2>3
<1> QED
    BY <1>6, <1>7, <1>8, <1>9 DEF Enumerates, m

-----------------------------------------------------------------------------

\* What _burn leaves in each mapping: u, the last token of the owner, and v,
\* the last of all, have moved to the places j and g of t.
Burned(n, m, t, from, last, j, u, g, v) ==
    /\ m.ownerOf = [n.ownerOf EXCEPT ![t] = NoOne]
    /\ m.getApproved = [n.getApproved EXCEPT ![t] = NoOne]
    /\ m.ownedTokens = [n.ownedTokens EXCEPT ![from] = [[@ EXCEPT ![j] = u] EXCEPT ![last] = 0]]
    /\ m.ownedTokensIndex = [[n.ownedTokensIndex EXCEPT ![u] = j] EXCEPT ![t] = 0]
    /\ m.allTokens = SubSeq([n.allTokens EXCEPT ![g + 1] = v], 1, Len(n.allTokens) - 1)
    /\ m.allTokensIndex = [[n.allTokensIndex EXCEPT ![v] = g] EXCEPT ![t] = 0]

\* Where the code finds the token to burn and the tokens to move.
LEMMA BurnPlaces ==
    ASSUME NEW n \in NftState, Enumerates(n), NEW t \in Token, n.ownerOf[t] # NoOne
    PROVE  LET from == n.ownerOf[t]
               last == BalanceOf(n, from) - 1
               u == n.ownedTokens[from][last]
               v == n.allTokens[Len(n.allTokens)]
           IN  /\ from \in Account
               /\ last \in Index
               /\ n.ownedTokensIndex[t] \in 0..last
               /\ n.ownedTokens[from][n.ownedTokensIndex[t]] = t
               /\ u \in Token /\ n.ownerOf[u] = from /\ n.ownedTokensIndex[u] = last
               /\ n.allTokensIndex[t] \in 0..(Len(n.allTokens) - 1)
               /\ n.allTokens[n.allTokensIndex[t] + 1] = t
               /\ v \in Token /\ n.ownerOf[v] # NoOne /\ n.allTokensIndex[v] = Len(n.allTokens) - 1
<1> DEFINE from == n.ownerOf[t]
           last == BalanceOf(n, from) - 1
           u == n.ownedTokens[from][last]
           v == n.allTokens[Len(n.allTokens)]
<1>1. from \in Account /\ n.ownedTokensIndex[t] \in Nat /\ n.allTokensIndex[t] \in Nat
    BY DEF NftState
<1>2. BalanceOf(n, from) \in 0..NumTokens
    BY BalanceType
<1>3. /\ n.ownedTokensIndex[t] < BalanceOf(n, from)
      /\ n.ownedTokens[from][n.ownedTokensIndex[t]] = t
    BY DEF Enumerates, OwnedIndexed
<1>4. last \in Index /\ last \in 0..(BalanceOf(n, from) - 1) /\ n.ownedTokensIndex[t] \in 0..last
    BY <1>1, <1>2, <1>3, ERC721Assumption DEF Index
<1>5. u \in TokensOf(n, from) /\ n.ownedTokensIndex[u] = last
    BY <1>1, <1>4 DEF Enumerates, OwnedListed
<1>6. u \in Token /\ n.ownerOf[u] = from
    BY <1>5 DEF TokensOf
<1>7. n.allTokens \in Seq(Token)
    BY DEF NftState
<1>8. n.allTokensIndex[t] < Len(n.allTokens) /\ n.allTokens[n.allTokensIndex[t] + 1] = t
    BY DEF Enumerates, AllIndexed
<1>9. /\ n.allTokensIndex[t] \in 0..(Len(n.allTokens) - 1)
      /\ Len(n.allTokens) \in 1..Len(n.allTokens)
    BY <1>1, <1>7, <1>8
<1>10. v \in Token
    BY <1>7, <1>9
<1>11. n.ownerOf[v] # NoOne /\ n.allTokensIndex[v] = Len(n.allTokens) - 1
    BY <1>9 DEF Enumerates, AllListed
<1> QED
    BY <1>1, <1>3, <1>4, <1>5, <1>6, <1>8, <1>9, <1>10, <1>11

\* Skipping the swap of a token with itself makes no difference, and the two
\* removals do not overlap.
LEMMA BurnFields ==
    ASSUME NEW n \in NftState, Enumerates(n), NEW t \in Token, n.ownerOf[t] # NoOne
    PROVE  /\ BurnToken(n, t) \in NftState
           /\ LET last == BalanceOf(n, n.ownerOf[t]) - 1
              IN  Burned(n, BurnToken(n, t), t, n.ownerOf[t], last,
                         n.ownedTokensIndex[t], n.ownedTokens[n.ownerOf[t]][last],
                         n.allTokensIndex[t], n.allTokens[Len(n.allTokens)])
<1> DEFINE from == n.ownerOf[t]
           last == BalanceOf(n, from) - 1
           j == n.ownedTokensIndex[t]
           u == n.ownedTokens[from][last]
           g == n.allTokensIndex[t]
           v == n.allTokens[Len(n.allTokens)]
           owned == [n.ownedTokens EXCEPT ![from] = [[@ EXCEPT ![j] = u] EXCEPT ![last] = 0]]
           ownedIndex == [[n.ownedTokensIndex EXCEPT ![u] = j] EXCEPT ![t] = 0]
           n1 == RemoveTokenFromOwnerEnumeration(n, from, t)
           n2 == RemoveTokenFromAllTokensEnumeration(n1, t)
<1>1. /\ from \in Account
      /\ last \in Index
      /\ j \in 0..last
      /\ n.ownedTokens[from][j] = t
      /\ u \in Token /\ n.ownerOf[u] = from /\ n.ownedTokensIndex[u] = last
      /\ g \in 0..(Len(n.allTokens) - 1)
      /\ v \in Token
    BY BurnPlaces
<1>2. j \in Nat /\ g \in Nat /\ j \in Index
    BY <1>1, ERC721Assumption DEF Index
<1>3. /\ n1.ownerOf = n.ownerOf
      /\ n1.getApproved = n.getApproved
      /\ n1.allTokens = n.allTokens
      /\ n1.allTokensIndex = n.allTokensIndex
    BY DEF RemoveTokenFromOwnerEnumeration, NftState
<1>4. n1.ownedTokens = owned
    <2>1. CASE j = last
        BY <1>1, <2>1 DEF RemoveTokenFromOwnerEnumeration, NftState
    <2>2. CASE j # last
        BY <1>1, <2>2 DEF RemoveTokenFromOwnerEnumeration, NftState
    <2> QED
        BY <2>1, <2>2
<1>5. n1.ownedTokensIndex = ownedIndex
    <2>1. CASE j = last
        BY <1>1, <2>1 DEF RemoveTokenFromOwnerEnumeration, NftState
    <2>2. CASE j # last
        BY <1>1, <2>2 DEF RemoveTokenFromOwnerEnumeration, NftState
    <2> QED
        BY <2>1, <2>2
<1>6. n1 \in NftState
    <2>1. CASE j = last
        BY <1>1, <1>2, <2>1 DEF RemoveTokenFromOwnerEnumeration, NftState
    <2>2. CASE j # last
        BY <1>1, <1>2, <2>2 DEF RemoveTokenFromOwnerEnumeration, NftState
    <2> QED
        BY <2>1, <2>2
<1> DEFINE all == SubSeq([n.allTokens EXCEPT ![g + 1] = v], 1, Len(n.allTokens) - 1)
           allIndex == [[n.allTokensIndex EXCEPT ![v] = g] EXCEPT ![t] = 0]
<1>7. all \in Seq(Token) /\ allIndex \in [Token -> Nat]
    <2>1. n.allTokens \in Seq(Token) /\ Len(n.allTokens) - 1 \in Nat
        BY <1>1 DEF NftState
    <2>2. /\ [n.allTokens EXCEPT ![g + 1] = v] \in Seq(Token)
          /\ Len([n.allTokens EXCEPT ![g + 1] = v]) = Len(n.allTokens)
        BY <1>1, <2>1
    <2>3. all \in Seq(Token)
        BY <2>1, <2>2
    <2> QED
        BY <1>1, <1>2, <2>3 DEF NftState
<1>8. n2 = [n1 EXCEPT !.allTokens = all, !.allTokensIndex = allIndex]
    BY <1>1, <1>3 DEF RemoveTokenFromAllTokensEnumeration, NftState
<1>9. BurnToken(n, t) = [n2 EXCEPT !.ownerOf[t] = NoOne, !.getApproved[t] = NoOne]
    BY DEF BurnToken
<1> HIDE DEF n1, n2, owned, ownedIndex, all, allIndex
<1>10. /\ n2 \in NftState
       /\ n2.ownerOf = n1.ownerOf
       /\ n2.getApproved = n1.getApproved
       /\ n2.ownedTokens = n1.ownedTokens
       /\ n2.ownedTokensIndex = n1.ownedTokensIndex
       /\ n2.allTokens = all
       /\ n2.allTokensIndex = allIndex
    BY <1>6, <1>7, <1>8 DEF NftState
<1> DEFINE m == [n2 EXCEPT !.ownerOf[t] = NoOne, !.getApproved[t] = NoOne]
<1>11. m \in NftState
    BY <1>10 DEF NftState
<1>12. /\ m.ownerOf = [n2.ownerOf EXCEPT ![t] = NoOne]
       /\ m.getApproved = [n2.getApproved EXCEPT ![t] = NoOne]
       /\ m.ownedTokens = n2.ownedTokens
       /\ m.ownedTokensIndex = n2.ownedTokensIndex
       /\ m.allTokens = n2.allTokens
       /\ m.allTokensIndex = n2.allTokensIndex
    BY <1>10 DEF NftState
<1> HIDE DEF m
<1>13. Burned(n, m, t, from, last, j, u, g, v)
    BY <1>3, <1>4, <1>5, <1>10, <1>12 DEF Burned, owned, ownedIndex, all, allIndex
<1> QED
    BY <1>9, <1>11, <1>13 DEF m

\* _burn keeps the arrays exact: the moved tokens fill the gaps, under their
\* new indices.
LEMMA BurnEnumerates ==
    ASSUME NEW n \in NftState, Enumerates(n), NEW t \in Token, n.ownerOf[t] # NoOne
    PROVE  Enumerates(BurnToken(n, t))
<1> DEFINE m == BurnToken(n, t)
           from == n.ownerOf[t]
           last == BalanceOf(n, from) - 1
           j == n.ownedTokensIndex[t]
           u == n.ownedTokens[from][last]
           g == n.allTokensIndex[t]
           length == Len(n.allTokens)
           v == n.allTokens[length]
<1>1. /\ from \in Account
      /\ last \in Index
      /\ j \in 0..last
      /\ n.ownedTokens[from][j] = t
      /\ u \in Token /\ n.ownerOf[u] = from /\ n.ownedTokensIndex[u] = last
      /\ g \in 0..(length - 1)
      /\ n.allTokens[g + 1] = t
      /\ v \in Token /\ n.ownerOf[v] # NoOne /\ n.allTokensIndex[v] = length - 1
    BY BurnPlaces
<1>2. Burned(n, m, t, from, last, j, u, g, v)
    BY BurnFields
<1>3. /\ TokensOf(m, from) = TokensOf(n, from) \ {t}
      /\ BalanceOf(m, from) = last
      /\ \A a \in Account \ {from} : /\ TokensOf(m, a) = TokensOf(n, a)
                                     /\ BalanceOf(m, a) = BalanceOf(n, a)
    <2>1. m.ownerOf = [n.ownerOf EXCEPT ![t] = NoOne]
        BY <1>2 DEF Burned
    <2> HIDE DEF m
    <2> QED
        BY <1>1, <2>1, BalanceAfterBurn
<1>4. \A a \in Account : BalanceOf(n, a) \in 0..NumTokens
    BY BalanceType
<1>5. j \in Index
    BY <1>1, ERC721Assumption DEF Index
<1>6. last = BalanceOf(n, from) - 1 /\ u = n.ownedTokens[from][last]
      /\ j = n.ownedTokensIndex[t] /\ g = n.allTokensIndex[t]
      /\ length = Len(n.allTokens) /\ v = n.allTokens[length] /\ from = n.ownerOf[t]
    OBVIOUS
<1> HIDE DEF m, from, last, j, u, g, length, v
<1>7. OwnedListed(m)
    <2> SUFFICES ASSUME NEW a \in Account, NEW i \in 0..(BalanceOf(m, a) - 1)
                 PROVE  /\ m.ownedTokens[a][i] \in TokensOf(m, a)
                        /\ m.ownedTokensIndex[m.ownedTokens[a][i]] = i
        BY DEF OwnedListed
    <2>1. i \in 0..(BalanceOf(n, a) - 1) /\ (a = from => i < last) /\ i \in Index
        BY <1>1, <1>3, <1>4, <1>6, ERC721Assumption DEF Index
    <2>2. CASE a = from /\ i = j
        <3>1. m.ownedTokens[a][i] = u
            BY <1>1, <1>2, <1>5, <2>1, <2>2 DEF Burned, NftState
        <3>2. u # t
            BY <1>1, <1>6, <2>1, <2>2
        <3>3. u \in TokensOf(m, from)
            BY <1>1, <1>3, <3>2 DEF TokensOf
        <3>4. m.ownedTokensIndex[u] = j
            BY <1>1, <1>2, <3>2 DEF Burned, NftState
        <3> QED
            BY <2>2, <3>1, <3>3, <3>4
    <2>3. CASE a # from \/ i # j
        <3>1. m.ownedTokens[a][i] = n.ownedTokens[a][i]
            BY <1>1, <1>2, <1>5, <2>1, <2>3 DEF Burned, NftState
        <3> DEFINE w == n.ownedTokens[a][i]
        <3>2. w \in TokensOf(n, a) /\ n.ownedTokensIndex[w] = i
            BY <2>1 DEF Enumerates, OwnedListed
        <3>3. w \in Token /\ n.ownerOf[w] = a
            BY <3>2 DEF TokensOf
        <3>4. w # t
            BY <1>6, <2>3, <3>2, <3>3
        <3>5. w # u
            BY <1>1, <2>1, <3>2, <3>3
        <3>6. m.ownedTokensIndex[w] = i
            BY <1>1, <1>2, <3>2, <3>3, <3>4, <3>5 DEF Burned, NftState
        <3>7. w \in TokensOf(m, a)
            BY <1>3, <3>2, <3>4
        <3> QED
            BY <3>1, <3>6, <3>7
    <2> QED
        BY <2>2, <2>3
<1>8. OwnedIndexed(m)
    <2> SUFFICES ASSUME NEW w \in Token, m.ownerOf[w] # NoOne
                 PROVE  /\ m.ownedTokensIndex[w] < BalanceOf(m, m.ownerOf[w])
                        /\ m.ownedTokens[m.ownerOf[w]][m.ownedTokensIndex[w]] = w
        BY DEF OwnedIndexed
    <2>1. w # t /\ m.ownerOf[w] = n.ownerOf[w] /\ n.ownerOf[w] \in Account
        BY <1>2 DEF Burned, NftState
    <2>2. /\ n.ownedTokensIndex[w] \in Nat
          /\ n.ownedTokensIndex[w] < BalanceOf(n, n.ownerOf[w])
          /\ n.ownedTokens[n.ownerOf[w]][n.ownedTokensIndex[w]] = w
        BY <2>1 DEF Enumerates, OwnedIndexed, NftState
    <2>3. CASE w = u
        <3>1. j < last
            BY <1>1, <1>6, <2>1, <2>3
        <3>2. m.ownedTokensIndex[w] = j /\ m.ownerOf[w] = from
            BY <1>1, <1>2, <2>1, <2>3 DEF Burned, NftState
        <3>3. m.ownedTokens[from][j] = u
            BY <1>1, <1>2, <1>5, <3>1 DEF Burned, NftState
        <3> QED
            BY <1>3, <2>3, <3>1, <3>2, <3>3
    <2>4. CASE w # u
        <3> DEFINE i == n.ownedTokensIndex[w]
                   a == n.ownerOf[w]
        <3>1. m.ownedTokensIndex[w] = i
            BY <1>1, <1>2, <2>1, <2>4 DEF Burned, NftState
        <3>2. a = from => i # last /\ i # j
            BY <1>1, <1>6, <2>1, <2>2, <2>4
        <3>3. i \in Index
            BY <1>4, <2>1, <2>2, ERC721Assumption DEF Index
        <3>4. m.ownedTokens[a][i] = w
            BY <1>1, <1>2, <1>5, <2>1, <2>2, <3>2, <3>3 DEF Burned, NftState
        <3>5. i < BalanceOf(m, a)
            <4>1. CASE a = from
                BY <1>1, <1>3, <1>4, <1>6, <2>2, <3>2, <4>1
            <4>2. CASE a # from
                BY <1>3, <2>1, <2>2, <4>2
            <4> QED
                BY <4>1, <4>2
        <3> QED
            BY <2>1, <3>1, <3>4, <3>5
    <2> QED
        BY <2>3, <2>4
<1> DEFINE swapped == [n.allTokens EXCEPT ![g + 1] = v]
<1>9. /\ n.allTokens \in Seq(Token)
      /\ length \in Nat /\ length > 0
      /\ Len(m.allTokens) = length - 1
      /\ \A i \in 1..(length - 1) : m.allTokens[i] = IF i = g + 1 THEN v ELSE n.allTokens[i]
    <2>1. n.allTokens \in Seq(Token) /\ length \in Nat /\ length > 0
        BY <1>1, <1>6 DEF NftState
    <2>2. /\ swapped \in Seq(Token)
          /\ Len(swapped) = length
          /\ \A i \in 1..length : swapped[i] = IF i = g + 1 THEN v ELSE n.allTokens[i]
        BY <1>1, <1>6, <2>1
    <2>3. m.allTokens = SubSeq(swapped, 1, length - 1)
        BY <1>2, <1>6 DEF Burned
    <2> HIDE DEF swapped
    <2> QED
        BY <2>1, <2>2, <2>3
<1>10. \A w \in Token \ {t} :
           /\ m.ownerOf[w] = n.ownerOf[w]
           /\ m.allTokensIndex[w] = IF w = v THEN g ELSE n.allTokensIndex[w]
    BY <1>1, <1>2 DEF Burned, NftState
<1>11. AllListed(m)
    <2> SUFFICES ASSUME NEW i \in 1..Len(m.allTokens)
                 PROVE  /\ m.ownerOf[m.allTokens[i]] # NoOne
                        /\ m.allTokensIndex[m.allTokens[i]] = i - 1
        BY DEF AllListed
    <2>1. i \in 1..(length - 1) /\ i \in 1..Len(n.allTokens)
        BY <1>6, <1>9
    <2>2. CASE i = g + 1
        <3>1. m.allTokens[i] = v /\ v # t
            BY <1>1, <1>6, <1>9, <2>1, <2>2
        <3> QED
            BY <1>1, <1>10, <2>2, <3>1
    <2>3. CASE i # g + 1
        <3> DEFINE w == n.allTokens[i]
        <3>1. m.allTokens[i] = w /\ w \in Token
            BY <1>9, <2>1, <2>3
        <3>2. n.ownerOf[w] # NoOne /\ n.allTokensIndex[w] = i - 1
            BY <2>1 DEF Enumerates, AllListed
        <3>3. w # t /\ w # v
            BY <1>1, <1>6, <2>1, <2>3, <3>2
        <3> QED
            BY <1>10, <3>1, <3>2, <3>3
    <2> QED
        BY <2>2, <2>3
<1>12. AllIndexed(m)
    <2> SUFFICES ASSUME NEW w \in Token, m.ownerOf[w] # NoOne
                 PROVE  /\ m.allTokensIndex[w] < Len(m.allTokens)
                        /\ m.allTokens[m.allTokensIndex[w] + 1] = w
        BY DEF AllIndexed
    <2>1. w # t /\ n.ownerOf[w] # NoOne
        BY <1>2 DEF Burned, NftState
    <2>2. /\ n.allTokensIndex[w] \in Nat
          /\ n.allTokensIndex[w] < length
          /\ n.allTokens[n.allTokensIndex[w] + 1] = w
        BY <1>6, <2>1 DEF Enumerates, AllIndexed, NftState
    <2>3. CASE w = v
        <3>1. m.allTokensIndex[w] = g
            BY <1>1, <1>2, <2>1, <2>3 DEF Burned, NftState
        <3>2. g + 1 \in 1..(length - 1)
            BY <1>1, <1>6, <2>1, <2>3
        <3>3. m.allTokens[g + 1] = v
            BY <1>9, <3>2
        <3> QED
            BY <1>1, <1>9, <2>3, <3>1, <3>2, <3>3
    <2>4. CASE w # v
        <3>1. m.allTokensIndex[w] = n.allTokensIndex[w]
            BY <1>1, <1>2, <2>1, <2>4 DEF Burned, NftState
        <3>2. n.allTokensIndex[w] # g /\ n.allTokensIndex[w] # length - 1
            BY <1>1, <1>6, <2>1, <2>2, <2>4
        <3>3. n.allTokensIndex[w] + 1 \in 1..(length - 1)
            BY <1>9, <2>2, <3>2
        <3>4. m.allTokens[n.allTokensIndex[w] + 1] = n.allTokens[n.allTokensIndex[w] + 1]
            <4> DEFINE i == n.allTokensIndex[w] + 1
            <4>1. i # g + 1
                BY <1>1, <2>2, <3>2
            <4>2. i \in 1..(length - 1)
                BY <3>3
            <4> HIDE DEF i
            <4>3. m.allTokens[i] = n.allTokens[i]
                BY <1>9, <4>1, <4>2
            <4> QED
                BY <4>3 DEF i
        <3>5. n.allTokensIndex[w] < Len(m.allTokens)
            BY <1>9, <2>2, <3>3
        <3> QED
            BY <2>2, <3>1, <3>4, <3>5
    <2> QED
        BY <2>3, <2>4
<1> QED
    BY <1>7, <1>8, <1>11, <1>12 DEF Enumerates, m
=============================================================================
