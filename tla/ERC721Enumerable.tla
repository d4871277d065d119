-------------------------- MODULE ERC721Enumerable --------------------------
(***************************************************************************)
(* interfaces/ERC721Enumerable.sol over OpenZeppelin's ERC721: receipts,   *)
(* their owners, and the arrays that enumerate them, kept dense by moving  *)
(* the last entry into the gap.  The operators compute the next storage of *)
(* the contract; asset classes mint and burn, and prohibit transfers.      *)
(*                                                                         *)
(* Token ids are 1..NumTokens; 0 is what an unset word of storage reads.   *)
(***************************************************************************)
EXTENDS Integers, Sequences, FiniteSets

CONSTANTS
    Account,        \* addresses that may own a receipt
    NoOne,          \* the zero address
    NumTokens       \* number of token ids

ASSUME ERC721Assumption ==
    /\ NoOne \notin Account
    /\ NumTokens \in Nat \ {0}

Token == 1..NumTokens
Index == 0..(NumTokens - 1)

\* The mappings of ERC721 and of ERC721Enumerable.
NftState ==
    [ownerOf : [Token -> Account \cup {NoOne}],
     getApproved : [Token -> Account \cup {NoOne}],
     ownedTokens : [Account -> [Index -> Token \cup {0}]],
     ownedTokensIndex : [Token -> Nat],
     allTokens : Seq(Token),
     allTokensIndex : [Token -> Nat]]

NewNft ==
    [ownerOf |-> [t \in Token |-> NoOne],
     getApproved |-> [t \in Token |-> NoOne],
     ownedTokens |-> [a \in Account |-> [i \in Index |-> 0]],
     ownedTokensIndex |-> [t \in Token |-> 0],
     allTokens |-> <<>>,
     allTokensIndex |-> [t \in Token |-> 0]]

TokensOf(n, owner) == {t \in Token : n.ownerOf[t] = owner}

\* ERC721 counts the tokens in a set of its own.
BalanceOf(n, owner) == Cardinality(TokensOf(n, owner))

TokenOfOwnerByIndex(n, owner, i) == n.ownedTokens[owner][i]

-----------------------------------------------------------------------------

\* The balance is read before the token is counted: it is the next free slot.
AddTokenToOwnerEnumeration(n, to, t) ==
    [n EXCEPT !.ownedTokens[to][BalanceOf(n, to)] = t,
              !.ownedTokensIndex[t] = BalanceOf(n, to)]

AddTokenToAllTokensEnumeration(n, t) ==
    [n EXCEPT !.allTokensIndex[t] = Len(n.allTokens),
              !.allTokens = Append(@, t)]

\* Mutant of RemoveTokenFromOwnerEnumeration: the moved token keeps its index.
RemoveTokenFromOwnerEnumerationStale(n, from, t) ==
    LET lastTokenIndex == BalanceOf(n, from) - 1
        lastTokenId == n.ownedTokens[from][lastTokenIndex]
    IN  [n EXCEPT !.ownedTokens[from] =
                      [@ EXCEPT ![n.ownedTokensIndex[t]] = lastTokenId,
                                ![lastTokenIndex] = 0],
                  !.ownedTokensIndex[t] = 0]

\* Swap and pop: unless the token is the last one, the last one moves to its
\* slot; then the last slot and the token's index are deleted.
RemoveTokenFromOwnerEnumeration(n, from, t) ==
    LET lastTokenIndex == BalanceOf(n, from) - 1
        tokenIndex == n.ownedTokensIndex[t]
        lastTokenId == n.ownedTokens[from][lastTokenIndex]
        swapped ==
            IF tokenIndex = lastTokenIndex THEN n
            ELSE [n EXCEPT !.ownedTokens[from][tokenIndex] = lastTokenId,
                           !.ownedTokensIndex[lastTokenId] = tokenIndex]
    IN  [swapped EXCEPT !.ownedTokens[from][lastTokenIndex] = 0,
                        !.ownedTokensIndex[t] = 0]

\* The same for the array of all tokens, which always swaps.
RemoveTokenFromAllTokensEnumeration(n, t) ==
    LET lastTokenIndex == Len(n.allTokens) - 1
        tokenIndex == n.allTokensIndex[t]
        lastTokenId == n.allTokens[lastTokenIndex + 1]
    IN  [n EXCEPT !.allTokens =
                      SubSeq([@ EXCEPT ![tokenIndex + 1] = lastTokenId], 1, lastTokenIndex),
                  !.allTokensIndex =
                      [@ EXCEPT ![lastTokenId] = tokenIndex, ![t] = 0]]

\* _mint, with _beforeTokenTransfer from the zero address, for a token that
\* does not exist yet.
MintToken(n, to, t) ==
    [AddTokenToOwnerEnumeration(AddTokenToAllTokensEnumeration(n, t), to, t)
        EXCEPT !.ownerOf[t] = to]

\* _burn, with _beforeTokenTransfer to the zero address, for a token that
\* exists: the approval is cleared with it.
BurnToken(n, t) ==
    [RemoveTokenFromAllTokensEnumeration(
         RemoveTokenFromOwnerEnumeration(n, n.ownerOf[t], t), t)
        EXCEPT !.ownerOf[t] = NoOne,
               !.getApproved[t] = NoOne]

-----------------------------------------------------------------------------

\* The first balanceOf entries of an account are tokens it owns, each at the
\* index recorded for it.
OwnedListed(n) ==
    \A a \in Account : \A i \in 0..(BalanceOf(n, a) - 1) :
        /\ n.ownedTokens[a][i] \in TokensOf(n, a)
        /\ n.ownedTokensIndex[n.ownedTokens[a][i]] = i

\* Every token is among the entries of its owner.
OwnedIndexed(n) ==
    \A t \in Token : n.ownerOf[t] # NoOne =>
        /\ n.ownedTokensIndex[t] < BalanceOf(n, n.ownerOf[t])
        /\ n.ownedTokens[n.ownerOf[t]][n.ownedTokensIndex[t]] = t

\* The same two for the array of all tokens.
AllListed(n) ==
    \A i \in 1..Len(n.allTokens) :
        /\ n.ownerOf[n.allTokens[i]] # NoOne
        /\ n.allTokensIndex[n.allTokens[i]] = i - 1

AllIndexed(n) ==
    \A t \in Token : n.ownerOf[t] # NoOne =>
        /\ n.allTokensIndex[t] < Len(n.allTokens)
        /\ n.allTokens[n.allTokensIndex[t] + 1] = t

\* The arrays enumerate exactly the receipts that exist, each once.
Enumerates(n) ==
    OwnedListed(n) /\ OwnedIndexed(n) /\ AllListed(n) /\ AllIndexed(n)
=============================================================================
