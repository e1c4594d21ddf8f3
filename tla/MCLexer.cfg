CONSTANTS
    Texts <- MCTexts
    Spaces <- MCSpaces
    Digits <- MCDigits
    Letters <- MCLetters
    Keywords <- MCKeywords
    Escapes <- MCEscapes
SPECIFICATION LexerSpec
INVARIANTS LexerTypeOK FindsTheTokens
PROPERTY LexingEnds
